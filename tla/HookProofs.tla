----------------------------- MODULE HookProofs ------------------------------
(***************************************************************************)
(* Theorems about the hook file and uninstall, for every text of the file: *)
(* it has one whole block or none, removing the block restores what there  *)
(* was before it, the user's lines outlive every command, and an uninstall *)
(* that is cut short anywhere leaves no key behind that it cannot find     *)
(* again.                                                                  *)
(***************************************************************************)
EXTENDS HookFile, SequenceTheorems, WellFoundedInduction, TLAPS

(* Every recipient before the one whose key is next has been cleared, and  *)
(* all of them when it is the vault's turn.                                *)
Cleared ==
  ~spared /\ vault = "listed" =>
    /\ cmd.step = "keys" => \A i \in 1..(cmd.next - 1) : Listed[i] \notin keys
    /\ cmd.step = "vault" /\ cmd.op = "uninstall_keys"
         => \A i \in DOMAIN Listed : Listed[i] \notin keys

(* The command that runs, and the steps its kind has.                      *)
CmdOK ==
  /\ cmd = [step |-> cmd.step, op |-> cmd.op, text |-> cmd.text, next |-> cmd.next]
  /\ cmd.step \in {"idle", "writing", "keys", "vault"}
  /\ cmd.next \in 1..(Len(Listed) + 1)
  /\ cmd.step = "keys" => cmd.op = "uninstall_keys"
  /\ cmd.step = "vault" => cmd.op \in {"uninstall", "uninstall_keys"}
  /\ cmd.op \in {"install", "unhook", "uninstall", "uninstall_keys"}

HInv == /\ CmdOK /\ Cleared /\ KeysGoFirst

LEMMA LenListed == Len(Listed) \in Nat /\ DOMAIN Listed = 1..Len(Listed)
BY UninstallAssumption DEF UninstallAssumption

LEMMA RunningOK ==
  ASSUME NEW step \in {"idle", "writing", "keys", "vault"}, NEW text,
         NEW op \in {"install", "unhook", "uninstall", "uninstall_keys"},
         cmd' = Running(step, op, text),
         step = "keys" => op = "uninstall_keys",
         step = "vault" => op = "uninstall"
  PROVE  CmdOK' /\ (vault' = vault /\ keys' = keys /\ spared' = spared
                      => Cleared' /\ (KeysGoFirst => KeysGoFirst'))
<1>1. cmd' = [step |-> step, op |-> op, text |-> text, next |-> 1]
  BY DEF Running
<1>2. /\ cmd'.step = step /\ cmd'.op = op /\ cmd'.text = text /\ cmd'.next = 1
      /\ 1 \in 1..(Len(Listed) + 1)
  BY <1>1, LenListed
<1>3. CmdOK'
  BY <1>1, <1>2 DEF CmdOK
<1>4. ASSUME vault' = vault, keys' = keys, spared' = spared
      PROVE  Cleared' /\ (KeysGoFirst => KeysGoFirst')
  BY <1>2, <1>4 DEF Cleared, KeysGoFirst
<1> QED BY <1>3, <1>4

LEMMA AfterOK ==
  ASSUME NEW op \in {"install", "unhook", "uninstall", "uninstall_keys"},
         cmd' = After(op), HInv, vault' = vault, keys' = keys, spared' = spared
  PROVE  HInv'
<1>1. CASE op = "uninstall"
  BY <1>1, RunningOK DEF After, HInv
<1>2. CASE op = "uninstall_keys"
  BY <1>2, RunningOK DEF After, HInv
<1>3. CASE op \in {"install", "unhook"}
  <2>1. cmd' = Running("idle", "install", <<>>)
    BY <1>3 DEF After, Idle
  <2> QED BY <2>1, RunningOK DEF HInv
<1> QED BY <1>1, <1>2, <1>3

LEMMA IdleOK ==
  ASSUME cmd' = Idle, HInv, vault' = vault, keys' = keys, spared' = spared
  PROVE  HInv'
BY RunningOK DEF Idle, HInv

LEMMA UninstallHookOK ==
  ASSUME NEW op \in {"install", "unhook", "uninstall", "uninstall_keys"},
         HInv, UninstallGitHook(op), spared' = spared
  PROVE  HInv'
<1>1. CASE cmd' = After(op) /\ UNCHANGED <<vault, keys>>
  BY <1>1, AfterOK
<1>2. CASE StartWrite(op, StripCifraBlock(file.text))
  BY <1>2, RunningOK DEF StartWrite, HInv
<1> QED BY <1>1, <1>2 DEF UninstallGitHook

LEMMA UninstallSteps == Spec => []HInv
<1>1. Init => HInv
  <2> SUFFICES ASSUME Init PROVE HInv
    OBVIOUS
  <2>1. /\ cmd = [step |-> "idle", op |-> "install", text |-> <<>>, next |-> 1]
        /\ keys = {} /\ vault = "none"
    BY DEF Init, Idle, Running
  <2>2. CmdOK
    BY <2>1, LenListed DEF CmdOK
  <2> QED BY <2>1, <2>2 DEF HInv, Cleared, KeysGoFirst
<1>2. HInv /\ [Next]_vars => HInv'
  <2> SUFFICES ASSUME HInv, [Next]_vars PROVE HInv'
    OBVIOUS
  <2>0. CmdOK /\ Cleared /\ KeysGoFirst
    BY DEF HInv
  <2>1. CASE UNCHANGED vars
    <3>1. cmd' = cmd /\ keys' = keys /\ vault' = vault /\ spared' = spared
      BY <2>1 DEF vars, disk
    <3> QED BY <2>0, <3>1 DEF HInv, CmdOK, Cleared, KeysGoFirst
  <2>2. CASE InstallGitHook
    BY <2>2, RunningOK DEF InstallGitHook, StartWrite, HInv
  <2>3. CASE Unhook
    BY <2>3, UninstallHookOK DEF Unhook
  <2>4. CASE Write
    BY <2>0, <2>4, AfterOK DEF Write, CmdOK
  <2>5. ASSUME NEW op \in {"uninstall", "uninstall_keys"}, Uninstall(op)
        PROVE  HInv'
    <3>1. CASE UninstallGitHook(op)
      BY <2>5, <3>1, UninstallHookOK DEF Uninstall
    <3>2. CASE cmd' = After(op) /\ UNCHANGED disk
      BY <2>5, <3>2, AfterOK DEF Uninstall, disk
    <3> QED BY <2>5, <3>1, <3>2 DEF Uninstall
  <2>6. CASE RemoveKey
    <3>1. PICK failing \in BOOLEAN : RemoveKeyStep(failing)
      BY <2>6 DEF RemoveKey
    <3>2. /\ cmd.step = "keys" /\ vault = "listed" /\ vault' = vault
          /\ cmd.next \in DOMAIN Listed /\ cmd.next \in Nat
      BY <2>0, <2>6, LenListed DEF RemoveKey, CmdOK
    <3>3. CASE failing \/ (Listed[cmd.next] \notin keys /\ Backend = "macos")
      <4>1. cmd' = [cmd EXCEPT !.step = "vault"] /\ spared' = TRUE
        BY <3>1, <3>3 DEF RemoveKeyStep, VaultNext
      <4>2. CmdOK'
        BY <2>0, <3>2, <4>1 DEF CmdOK
      <4> QED BY <3>2, <4>1, <4>2 DEF HInv, Cleared, KeysGoFirst
    <3>4. CASE ~(failing \/ (Listed[cmd.next] \notin keys /\ Backend = "macos"))
      <4>1. /\ cmd' = [cmd EXCEPT !.next = cmd.next + 1]
            /\ ~spared' => ~spared
            /\ keys' = keys \ {Listed[cmd.next]}
        BY <3>1, <3>4 DEF RemoveKeyStep
      <4>2. /\ cmd'.step = cmd.step /\ cmd'.op = cmd.op /\ cmd'.text = cmd.text
            /\ cmd'.next = cmd.next + 1
            /\ cmd' = [step |-> cmd.step, op |-> cmd.op, text |-> cmd.text,
                       next |-> cmd.next + 1]
        BY <2>0, <4>1 DEF CmdOK
      <4>3. CmdOK'
        BY <2>0, <3>2, <4>2, LenListed DEF CmdOK
      <4>4. Cleared'
        BY <2>0, <3>2, <4>1, <4>2 DEF Cleared
      <4> QED BY <3>2, <4>3, <4>4 DEF HInv, KeysGoFirst
    <3> QED BY <3>3, <3>4
  <2>7. ASSUME KeysDone, vault = "listed", ~spared, cmd.op = "uninstall_keys"
        PROVE  \A i \in DOMAIN Listed : Listed[i] \notin keys
    BY <2>0, <2>7, LenListed DEF KeysDone, Cleared, CmdOK
  <2>8. CASE RemoveSome
    <3>1. /\ KeysDone /\ vault = "listed" /\ vault' = "unlisted" /\ keys' = keys
          /\ cmd' = [cmd EXCEPT !.step = "vault"]
          /\ ~spared' => ~spared /\ cmd.op # "uninstall"
      BY <2>8 DEF RemoveSome, VaultNext
    <3>2. cmd.op \in {"uninstall", "uninstall_keys"}
      BY <2>0, <3>1 DEF KeysDone, CmdOK
    <3>3. CmdOK'
      BY <2>0, <3>1, <3>2 DEF CmdOK
    <3> QED BY <2>7, <3>1, <3>2, <3>3 DEF HInv, Cleared, KeysGoFirst
  <2>9. CASE RemoveVault
    <3>1. /\ KeysDone /\ vault' = "none" /\ keys' = keys /\ cmd' = Idle
          /\ ~spared' => ~spared /\ cmd.op # "uninstall"
      BY <2>9 DEF RemoveVault
    <3>2. cmd.op \in {"uninstall", "uninstall_keys"}
      BY <2>0, <3>1 DEF KeysDone, CmdOK
    <3>3. CmdOK'
      BY <3>1, RunningOK DEF Idle
    <3>4. KeysGoFirst'
      BY <2>0, <2>7, <3>1, <3>2 DEF KeysGoFirst
    <3> QED BY <3>1, <3>3, <3>4 DEF HInv, Cleared
  <2>10. CASE Kill
    BY <2>10, IdleOK DEF Kill, disk
  <2>11. CASE SetUp
    <3>1. cmd.step = "idle" /\ cmd' = cmd /\ vault' = "listed"
      BY <2>11 DEF SetUp
    <3> QED BY <2>0, <3>1 DEF HInv, CmdOK, Cleared, KeysGoFirst
  <2>12. CASE UserEdit
    <3>1. cmd' = cmd /\ keys' = keys /\ vault' = vault /\ spared' = spared
      BY <2>12 DEF UserEdit, InsertLine, DeleteLine, Edited
    <3> QED BY <2>0, <3>1 DEF HInv, CmdOK, Cleared, KeysGoFirst
  <2>13. CASE WriteSome
    <3>1. cmd' = cmd /\ keys' = keys /\ vault' = vault /\ spared' = spared
      BY <2>13 DEF WriteSome
    <3> QED BY <2>0, <3>1 DEF HInv, CmdOK, Cleared, KeysGoFirst
  <2> QED
    BY <2>1, <2>2, <2>3, <2>4, <2>5, <2>6, <2>8, <2>9, <2>10, <2>11, <2>12, <2>13
    DEF Next
<1> QED BY <1>1, <1>2, PTL DEF Spec

(* A recipient's key that this machine holds can be found again, wherever  *)
(* uninstall.go is cut short: it clears the keys before it removes the     *)
(* recipients file that names them.                                        *)
THEOREM KeysGoFirstThm == Spec => []KeysGoFirst
<1>1. HInv => KeysGoFirst
  BY DEF HInv
<1> QED BY <1>1, UninstallSteps, PTL

-----------------------------------------------------------------------------
(* The text of the hook file.  It has one whole block, on a line of its    *)
(* own, or none of either marker.                                          *)
Plain(text) == \A i \in DOMAIN text : text[i] \notin {"BEGIN", "END"}
Whole(text, b) ==
  /\ b \in 1..Len(text) /\ b + 3 <= Len(text)
  /\ text[b] = "BEGIN" /\ text[b + 1] \in {"v1", "v2"}
  /\ text[b + 2] = "END" /\ text[b + 3] = "NL"
  /\ b > 1 => text[b - 1] = "NL"
  /\ \A i \in DOMAIN text : i \notin {b, b + 2} => text[i] \notin {"BEGIN", "END"}
Shape(text) == Plain(text) \/ \E b \in Nat : Whole(text, b)

LEMMA Domains ==
  ASSUME NEW text \in Seq(Token)
  PROVE  /\ Len(text) \in Nat /\ DOMAIN text = 1..Len(text)
         /\ \A i \in 1..Len(text) : text[i] \in Token
OBVIOUS

(* The user's lines are none of cifra's, nor line ends or the shebang.     *)
LEMMA NotOwn ==
  ASSUME NEW t, t \in {"NL", Shebang, "BEGIN", "v1", "v2", "END", "cut"}
  PROVE  t \notin Line
BY UninstallAssumption DEF UninstallAssumption, Shebang

LEMMA KeepsItself ==
  ASSUME NEW text \in Seq(Token)
  PROVE  KeepsOwn(text, text)
<1> DEFINE f == [i \in OwnAt(text) |-> i]
<1>1. f \in [OwnAt(text) -> OwnAt(text)]
  OBVIOUS
<1> QED BY <1>1 DEF KeepsOwn

LEMMA KeepsOnward ==
  ASSUME NEW a \in Seq(Token), NEW b \in Seq(Token), NEW c \in Seq(Token),
         KeepsOwn(a, b), KeepsOwn(b, c)
  PROVE  KeepsOwn(a, c)
<1>1. PICK f \in [OwnAt(a) -> OwnAt(b)] :
        /\ \A i \in OwnAt(a) : b[f[i]] = a[i]
        /\ \A i, j \in OwnAt(a) : i < j => f[i] < f[j]
        /\ \A k \in OwnAt(b) : \E i \in OwnAt(a) : f[i] = k
  BY DEF KeepsOwn
<1>2. PICK g \in [OwnAt(b) -> OwnAt(c)] :
        /\ \A i \in OwnAt(b) : c[g[i]] = b[i]
        /\ \A i, j \in OwnAt(b) : i < j => g[i] < g[j]
        /\ \A k \in OwnAt(c) : \E i \in OwnAt(b) : g[i] = k
  BY DEF KeepsOwn
<1> DEFINE h == [i \in OwnAt(a) |-> g[f[i]]]
<1>3. h \in [OwnAt(a) -> OwnAt(c)]
  BY <1>1, <1>2
<1>4. \A i \in OwnAt(a) : c[h[i]] = a[i]
  BY <1>1, <1>2
<1>5. \A i, j \in OwnAt(a) : i < j => h[i] < h[j]
  BY <1>1, <1>2
<1>6. \A k \in OwnAt(c) : \E i \in OwnAt(a) : h[i] = k
  BY <1>1, <1>2
<1> QED BY <1>3, <1>4, <1>5, <1>6 DEF KeepsOwn

LEMMA OwnIs ==
  ASSUME NEW a \in Seq(Token), NEW i
  PROVE  i \in OwnAt(a) <=> /\ i \in 1..Len(a) /\ a[i] \in Line
                            /\ i > 1 => a[i - 1] = "NL"
                            /\ i < Len(a) => a[i + 1] = "NL"
BY Domains DEF OwnAt

(* A cut that takes none of the user's lines keeps them, as long as it     *)
(* begins with the end of a line, ends with one, and does not run two      *)
(* lines together.                                                         *)
LEMMA KeepsCut ==
  ASSUME NEW a \in Seq(Token), NEW b \in Seq(Token),
         NEW keep \in Nat, NEW cut \in Nat,
         Len(b) + cut = Len(a), keep <= Len(b), cut >= 1,
         \A i \in 1..keep : b[i] = a[i],
         \A i \in (keep + 1)..Len(b) : b[i] = a[i + cut],
         \A i \in (keep + 1)..(keep + cut) : i \notin OwnAt(a),
         keep >= 1 => a[keep + 1] = "NL",
         keep + cut < Len(a) => a[keep + cut] = "NL",
         keep + cut < Len(a) /\ keep >= 1 => a[keep] = "NL"
  PROVE  KeepsOwn(a, b)
<1> DEFINE f == [i \in OwnAt(a) |-> IF i <= keep THEN i ELSE i - cut]
<1>1. /\ OwnAt(a) \subseteq 1..Len(a) /\ OwnAt(b) \subseteq 1..Len(b)
      /\ Len(a) \in Nat /\ Len(b) \in Nat
  BY Domains DEF OwnAt
<1>0. "NL" \notin Line
  BY NotOwn
<1>2. ASSUME NEW i \in OwnAt(a)
      PROVE  f[i] \in OwnAt(b) /\ b[f[i]] = a[i]
             /\ (i <= keep => f[i] = i) /\ (i > keep => f[i] = i - cut /\ i > keep + cut)
  <2>1. /\ i \in 1..Len(a) /\ a[i] \in Line
        /\ i > 1 => a[i - 1] = "NL"
        /\ i < Len(a) => a[i + 1] = "NL"
    BY OwnIs
  <2>2. i > keep => i > keep + cut
    BY <2>1
  <2>3. CASE i <= keep
    <3>1. i \in 1..Len(b) /\ b[i] = a[i]
      BY <1>1, <2>1, <2>3
    <3>2. i > 1 => b[i - 1] = "NL"
      <4>1. i > 1 => i - 1 \in 1..keep
        BY <2>1, <2>3
      <4> QED BY <2>1, <4>1
    <3>3. i < Len(b) => b[i + 1] = "NL"
      <4>1. CASE i < keep
        <5>1. i + 1 \in 1..keep /\ i < Len(a)
          BY <1>1, <2>1, <4>1
        <5> QED BY <2>1, <5>1
      <4>2. CASE i = keep /\ i < Len(b)
        <5>1. keep + cut < Len(a) /\ keep >= 1
          BY <1>1, <2>1, <4>2
        <5> QED BY <1>0, <2>1, <4>2, <5>1
      <4> QED BY <2>1, <2>3, <4>1, <4>2
    <3>4. i \in OwnAt(b)
      BY <2>1, <3>1, <3>2, <3>3, OwnIs
    <3> QED BY <2>3, <3>1, <3>4
  <2>4. CASE i > keep
    <3>0. f[i] = i - cut
      BY <2>1, <2>4
    <3> HIDE DEF f
    <3> DEFINE k == i - cut
    <3>1. k \in (keep + 1)..Len(b) /\ k + cut = i /\ k \in 1..Len(b)
      BY <1>1, <2>1, <2>2, <2>4
    <3>2. b[k] = a[i]
      BY <3>1
    <3>3. k > 1 => b[k - 1] = "NL"
      <4>1. CASE k > keep + 1
        <5>1. k - 1 \in (keep + 1)..Len(b) /\ (k - 1) + cut = i - 1 /\ i > 1
          BY <1>1, <3>1, <4>1, SMTT(60)
        <5> QED BY <2>1, <5>1
      <4>2. CASE k = keep + 1 /\ k > 1
        <5>1. keep >= 1 /\ keep + cut < Len(a) /\ k - 1 = keep /\ keep \in 1..keep
          BY <1>1, <2>1, <3>1, <4>2
        <5> QED BY <5>1
      <4> QED BY <3>1, <4>1, <4>2
    <3>4. k < Len(b) => b[k + 1] = "NL"
      <4>1. k < Len(b) => k + 1 \in (keep + 1)..Len(b) /\ (k + 1) + cut = i + 1 /\ i < Len(a)
        BY <1>1, <3>1, SMTT(60)
      <4> QED BY <2>1, <4>1
    <3>5. f[i] = k
      BY <3>0
    <3> HIDE DEF k
    <3>6. k \in OwnAt(b)
      BY <2>1, <3>1, <3>2, <3>3, <3>4, OwnIs
    <3> QED BY <2>1, <2>2, <2>4, <3>2, <3>5, <3>6 DEF k
  <2> QED BY <2>1, <2>3, <2>4
<1> HIDE DEF f
<1>3. ASSUME NEW i \in OwnAt(a), NEW j \in OwnAt(a), i < j
      PROVE  f[i] < f[j]
  <2>1. i \in Nat /\ j \in Nat
    BY <1>1, <1>3
  <2>2. /\ i <= keep => f[i] = i
        /\ i > keep => f[i] = i - cut /\ i > keep + cut
    BY <1>2, <1>3
  <2>3. /\ j <= keep => f[j] = j
        /\ j > keep => f[j] = j - cut /\ j > keep + cut
    BY <1>2, <1>3
  <2> QED BY <1>3, <2>1, <2>2, <2>3
<1>4. ASSUME NEW k \in OwnAt(b)
      PROVE  \E i \in OwnAt(a) : f[i] = k
  <2>1. /\ k \in 1..Len(b) /\ b[k] \in Line
        /\ k > 1 => b[k - 1] = "NL"
        /\ k < Len(b) => b[k + 1] = "NL"
    BY OwnIs
  <2>2. CASE k <= keep
    <3>1. k \in 1..Len(a) /\ a[k] \in Line
      BY <1>1, <2>1, <2>2
    <3>2. k > 1 => a[k - 1] = "NL"
      <4>1. k > 1 => k - 1 \in 1..keep
        BY <2>1, <2>2
      <4> QED BY <2>1, <4>1
    <3>3. k < Len(a) => a[k + 1] = "NL"
      <4>1. CASE k < keep
        <5>1. k + 1 \in 1..keep /\ k < Len(b)
          BY <1>1, <2>1, <4>1
        <5> QED BY <2>1, <5>1
      <4>2. CASE k = keep
        BY <2>1, <4>2
      <4> QED BY <2>1, <2>2, <4>1, <4>2
    <3>4. k \in OwnAt(a)
      BY <3>1, <3>2, <3>3, OwnIs
    <3> QED BY <1>2, <2>2, <3>4
  <2>3. CASE k > keep
    <3> DEFINE i == k + cut
    <3>1. i \in 1..Len(a) /\ i > keep /\ i - cut = k /\ a[i] \in Line
      BY <1>1, <2>1, <2>3
    <3>2. i > 1 => a[i - 1] = "NL"
      <4>1. CASE k > keep + 1
        <5>1. k - 1 \in (keep + 1)..Len(b) /\ (k - 1) + cut = i - 1 /\ k > 1
          BY <1>1, <2>1, <4>1
        <5> QED BY <2>1, <5>1
      <4>2. CASE k = keep + 1
        <5>1. i - 1 = keep + cut /\ keep + cut < Len(a)
          BY <1>1, <3>1, <4>2
        <5> QED BY <5>1
      <4> QED BY <2>1, <2>3, <4>1, <4>2
    <3>3. i < Len(a) => a[i + 1] = "NL"
      <4>1. i < Len(a) => k + 1 \in (keep + 1)..Len(b) /\ (k + 1) + cut = i + 1 /\ k < Len(b)
        BY <1>1, <2>1, <2>3
      <4> QED BY <2>1, <4>1
    <3> HIDE DEF i
    <3>4. i \in OwnAt(a)
      BY <3>1, <3>2, <3>3, OwnIs
    <3> QED BY <1>2, <3>1, <3>4
  <2> QED BY <2>1, <2>2, <2>3
<1>5. f \in [OwnAt(a) -> OwnAt(b)]
  BY <1>2 DEF f
<1> QED BY <1>2, <1>3, <1>4, <1>5 DEF KeepsOwn

LEMMA KeepsExtended ==
  ASSUME NEW a \in Seq(Token), NEW b \in Seq(Token),
         Len(a) < Len(b), a # <<>> => b[Len(a) + 1] = "NL",
         \A i \in 1..Len(a) : b[i] = a[i],
         \A i \in (Len(a) + 1)..Len(b) : b[i] \notin Line
  PROVE  KeepsOwn(a, b)
<1> DEFINE f == [i \in OwnAt(a) |-> i]
<1>1. Len(a) \in Nat /\ Len(b) \in Nat
  BY Domains
<1>2. ASSUME NEW i \in OwnAt(a) PROVE i \in OwnAt(b)
  <2>1. /\ i \in 1..Len(a) /\ a[i] \in Line
        /\ i > 1 => a[i - 1] = "NL"
        /\ i < Len(a) => a[i + 1] = "NL"
    BY OwnIs
  <2>2. i \in 1..Len(b) /\ b[i] \in Line /\ (i > 1 => b[i - 1] = "NL")
    BY <1>1, <2>1
  <2>3. b[i + 1] = "NL"
    <3>1. CASE i < Len(a)
      BY <1>1, <2>1, <3>1
    <3>2. CASE i = Len(a)
      BY <2>1, <3>2
    <3> QED BY <1>1, <2>1, <3>1, <3>2
  <2> QED BY <2>2, <2>3, OwnIs
<1>3. ASSUME NEW i \in OwnAt(b) PROVE i \in OwnAt(a)
  <2>1. /\ i \in 1..Len(b) /\ b[i] \in Line
        /\ i > 1 => b[i - 1] = "NL"
        /\ i < Len(b) => b[i + 1] = "NL"
    BY OwnIs
  <2>2. i \in 1..Len(a) /\ a[i] \in Line /\ (i > 1 => a[i - 1] = "NL")
    BY <1>1, <2>1
  <2>3. i < Len(a) => a[i + 1] = "NL"
    BY <1>1, <2>1
  <2> QED BY <2>2, <2>3, OwnIs
<1>4. OwnAt(a) = OwnAt(b)
  BY <1>2, <1>3
<1>5. f \in [OwnAt(a) -> OwnAt(b)]
  BY <1>4
<1>6. \A i \in OwnAt(a) : b[i] = a[i]
  BY OwnIs
<1> QED BY <1>4, <1>5, <1>6 DEF KeepsOwn

LEMMA NothingToKeep ==
  ASSUME NEW a \in Seq(Token), NEW b \in Seq(Token), OwnAt(a) = {}, OwnAt(b) = {}
  PROVE  KeepsOwn(a, b)
<1> DEFINE f == [i \in OwnAt(a) |-> i]
<1>1. f \in [OwnAt(a) -> OwnAt(b)]
  OBVIOUS
<1> QED BY <1>1 DEF KeepsOwn

-----------------------------------------------------------------------------
LEMMA FirstIndexIs ==
  ASSUME NEW text, NEW n \in Nat, DOMAIN text = 1..n, NEW t, NEW i \in 1..n,
         text[i] = t, \A j \in 1..(i - 1) : text[j] # t
  PROVE  FirstIndex(text, t) = i
<1> DEFINE P(k) == text[k] = t /\ \A j \in 1..(k - 1) : text[j] # t
           f == CHOOSE k \in DOMAIN text : P(k)
<1>1. f \in 1..n /\ P(f)
  <2>1. \E k \in DOMAIN text : P(k)
    OBVIOUS
  <2> QED BY <2>1
<1>2. FirstIndex(text, t) = f
  BY DEF FirstIndex
<1> HIDE DEF f
<1>3. f \in 1..n /\ text[f] = t /\ \A j \in 1..(f - 1) : text[j] # t
  BY <1>1
<1>4. ~(f < i) /\ ~(i < f)
  BY <1>3
<1> QED BY <1>2, <1>3, <1>4

(* The ends of a text, and what is left when the part between them is cut  *)
(* out.                                                                    *)
LEMMA Ends ==
  ASSUME NEW text \in Seq(Token), NEW i \in 0..Len(text), NEW j \in 0..Len(text)
  PROVE  /\ SubSeq(text, 1, i) \in Seq(Token) /\ Len(SubSeq(text, 1, i)) = i
         /\ \A k \in 1..i : SubSeq(text, 1, i)[k] = text[k]
         /\ SubSeq(text, j + 1, Len(text)) \in Seq(Token)
         /\ Len(SubSeq(text, j + 1, Len(text))) = Len(text) - j
         /\ \A k \in 1..(Len(text) - j) :
              SubSeq(text, j + 1, Len(text))[k] = text[j + k]
<1> DEFINE n == Len(text)
           tail == SubSeq(text, j + 1, n)
<1>1. n \in Nat /\ \A k \in 1..n : text[k] \in Token
  BY Domains
<1>2. i \in Nat /\ i <= n /\ j \in Nat /\ j <= n
  BY <1>1
<1>3. /\ SubSeq(text, 1, i) \in Seq(Token) /\ Len(SubSeq(text, 1, i)) = i
      /\ \A k \in 1..i : SubSeq(text, 1, i)[k] = text[k]
  <2>1. \A k \in 1..i : text[k] \in Token
    BY <1>1, <1>2
  <2>2. CASE i = 0
    BY <2>2, SubSeqEmpty
  <2>3. CASE i # 0
    <3>1. 1 \in Int /\ i \in Int /\ 1 <= i + 1 /\ i - 1 + 1 = i
      BY <1>2
    <3> QED BY <2>1, <3>1, SubSeqProperties
  <2> QED BY <2>2, <2>3
<1>4. \A k \in (j + 1)..n : text[k] \in Token
  BY <1>1, <1>2
<1>5. j + 1 \in Int /\ n \in Int /\ j + 1 <= n + 1
  BY <1>1, <1>2
<1>6. /\ tail \in Seq(Token) /\ Len(tail) = n - (j + 1) + 1
      /\ \A k \in 1..(n - (j + 1) + 1) : tail[k] = text[j + 1 + k - 1]
  BY <1>4, <1>5, SubSeqProperties
<1>7. n - (j + 1) + 1 = n - j
  BY <1>1, <1>2
<1>8. \A k \in 1..(n - j) : j + 1 + k - 1 = j + k
  BY <1>1, <1>2
<1> HIDE DEF tail
<1>9. Len(tail) = n - j /\ \A k \in 1..(n - j) : tail[k] = text[j + k]
  BY <1>6, <1>7, <1>8
<1> QED BY <1>3, <1>6, <1>9 DEF tail

LEMMA Joined ==
  ASSUME NEW a \in Seq(Token), NEW b \in Seq(Token)
  PROVE  /\ a \o b \in Seq(Token) /\ Len(a \o b) = Len(a) + Len(b)
         /\ \A k \in 1..Len(a) : (a \o b)[k] = a[k]
         /\ \A k \in 1..Len(b) : (a \o b)[Len(a) + k] = b[k]
<1> DEFINE r == a \o b
<1>1. Len(a) \in Nat /\ Len(b) \in Nat
  BY Domains
<1>2. /\ r \in Seq(Token) /\ Len(r) = Len(a) + Len(b)
      /\ \A k \in 1..Len(r) : r[k] = IF k <= Len(a) THEN a[k] ELSE b[k - Len(a)]
  BY ConcatProperties
<1> HIDE DEF r
<1>3. \A k \in 1..Len(a) : r[k] = a[k]
  BY <1>1, <1>2
<1>4. ASSUME NEW k \in 1..Len(b) PROVE r[Len(a) + k] = b[k]
  <2>1. PICK m \in 1..Len(r) : m = Len(a) + k
    BY <1>1, <1>2
  <2>2. ~(m <= Len(a)) /\ m - Len(a) = k
    BY <1>1, <2>1
  <2> QED BY <1>2, <2>1, <2>2
<1> QED BY <1>2, <1>3, <1>4 DEF r

LEMMA CutOut ==
  ASSUME NEW text \in Seq(Token), NEW i \in 0..Len(text), NEW j \in 0..Len(text)
  PROVE  LET r == SubSeq(text, 1, i) \o SubSeq(text, j + 1, Len(text))
         IN /\ r \in Seq(Token) /\ Len(r) = i + (Len(text) - j)
            /\ \A k \in 1..i : r[k] = text[k]
            /\ \A k \in (i + 1)..Len(r) : r[k] = text[k - i + j]
<1> DEFINE n == Len(text)
           head == SubSeq(text, 1, i)
           tail == SubSeq(text, j + 1, n)
           r == head \o tail
<1>1. /\ n \in Nat /\ i \in Nat /\ i <= n /\ j \in Nat /\ j <= n
  BY Domains
<1>2. /\ head \in Seq(Token) /\ Len(head) = i
      /\ \A k \in 1..i : head[k] = text[k]
      /\ tail \in Seq(Token) /\ Len(tail) = n - j
      /\ \A k \in 1..(n - j) : tail[k] = text[j + k]
  BY Ends
<1> HIDE DEF head, tail
<1>3. /\ r \in Seq(Token) /\ Len(r) = i + (n - j)
      /\ \A k \in 1..i : r[k] = head[k]
      /\ \A k \in 1..(n - j) : r[i + k] = tail[k]
  <2>1. head \in Seq(Token) /\ tail \in Seq(Token)
    BY <1>2
  <2>2. /\ r \in Seq(Token) /\ Len(r) = Len(head) + Len(tail)
        /\ \A k \in 1..Len(head) : r[k] = head[k]
        /\ \A k \in 1..Len(tail) : r[Len(head) + k] = tail[k]
    BY ONLY <2>1, Joined
  <2> HIDE DEF r
  <2>3. Len(head) = i /\ Len(tail) = n - j
    BY <1>2
  <2> QED BY <2>2, <2>3
<1> HIDE DEF r
<1>4. \A k \in 1..i : r[k] = text[k]
  BY <1>2, <1>3
<1>5. ASSUME NEW k \in (i + 1)..Len(r) PROVE r[k] = text[k - i + j]
  <2>1. PICK m \in 1..(n - j) : k = i + m
    <3>1. k - i \in 1..(n - j) /\ k = i + (k - i)
      BY <1>1, <1>3
    <3> QED BY <3>1
  <2>2. k - i + j = j + m
    BY <1>1, <2>1
  <2> QED BY <1>2, <1>3, <2>1, <2>2
<1> QED BY <1>3, <1>4, <1>5 DEF r, head, tail

LEMMA PutIn ==
  ASSUME NEW text \in Seq(Token), NEW i \in 0..Len(text), NEW l \in Line
  PROVE  LET r == SubSeq(text, 1, i) \o <<l, "NL">> \o SubSeq(text, i + 1, Len(text))
         IN /\ r \in Seq(Token) /\ Len(r) = Len(text) + 2
            /\ \A k \in 1..i : r[k] = text[k]
            /\ r[i + 1] = l /\ r[i + 2] = "NL"
            /\ \A k \in (i + 3)..Len(r) : r[k] = text[k - 2]
<1> DEFINE n == Len(text)
           mid == <<l, "NL">>
           head == SubSeq(text, 1, i)
           tail == SubSeq(text, i + 1, n)
           front == head \o mid
           r == front \o tail
<1>1. /\ n \in Nat /\ i \in Nat /\ i <= n
  BY Domains
<1>2. /\ head \in Seq(Token) /\ Len(head) = i
      /\ \A k \in 1..i : head[k] = text[k]
      /\ tail \in Seq(Token) /\ Len(tail) = n - i
      /\ \A k \in 1..(n - i) : tail[k] = text[i + k]
  BY Ends
<1>3. mid \in Seq(Token) /\ Len(mid) = 2 /\ mid[1] = l /\ mid[2] = "NL"
  BY DEF Token
<1> HIDE DEF head, tail, mid
<1>4. /\ front \in Seq(Token) /\ Len(front) = i + 2
      /\ \A k \in 1..i : front[k] = head[k]
      /\ front[i + 1] = l /\ front[i + 2] = "NL"
  <2>1. head \in Seq(Token) /\ mid \in Seq(Token)
    BY <1>2, <1>3
  <2>2. /\ front \in Seq(Token) /\ Len(front) = Len(head) + Len(mid)
        /\ \A k \in 1..Len(head) : front[k] = head[k]
        /\ \A k \in 1..Len(mid) : front[Len(head) + k] = mid[k]
    BY ONLY <2>1, Joined
  <2> HIDE DEF front
  <2>3. Len(head) = i /\ Len(mid) = 2 /\ 1 \in 1..2 /\ 2 \in 1..2
    BY <1>2, <1>3
  <2> QED BY <1>3, <2>2, <2>3
<1> HIDE DEF front
<1>5. /\ r \in Seq(Token) /\ Len(r) = i + 2 + (n - i)
      /\ \A k \in 1..(i + 2) : r[k] = front[k]
      /\ \A k \in 1..(n - i) : r[i + 2 + k] = tail[k]
  <2>1. front \in Seq(Token) /\ tail \in Seq(Token)
    BY <1>2, <1>4
  <2>2. /\ r \in Seq(Token) /\ Len(r) = Len(front) + Len(tail)
        /\ \A k \in 1..Len(front) : r[k] = front[k]
        /\ \A k \in 1..Len(tail) : r[Len(front) + k] = tail[k]
    BY ONLY <2>1, Joined
  <2> HIDE DEF r
  <2>3. Len(front) = i + 2 /\ Len(tail) = n - i
    BY <1>2, <1>4
  <2> QED BY <2>2, <2>3
<1> HIDE DEF r
<1>6. Len(r) = n + 2
  BY <1>1, <1>5
<1>7. /\ \A k \in 1..i : r[k] = text[k]
      /\ r[i + 1] = l /\ r[i + 2] = "NL"
  <2>1. i + 1 \in 1..(i + 2) /\ i + 2 \in 1..(i + 2) /\ 1..i \subseteq 1..(i + 2)
    BY <1>1
  <2> QED BY <1>2, <1>4, <1>5, <2>1
<1>8. ASSUME NEW k \in (i + 3)..Len(r) PROVE r[k] = text[k - 2]
  <2>1. PICK m \in 1..(n - i) : k = i + 2 + m
    <3>1. k - (i + 2) \in 1..(n - i) /\ k = i + 2 + (k - (i + 2))
      BY <1>1, <1>6
    <3> QED BY <3>1
  <2>2. k - 2 = i + m
    BY <1>1, <2>1
  <2> QED BY <1>2, <1>5, <2>1, <2>2
<1> QED BY <1>5, <1>6, <1>7, <1>8 DEF r, front, head, tail, mid

LEMMA Least ==
  ASSUME NEW S, S \subseteq Nat, S # {}
  PROVE  \E x \in S : \A y \in S : x <= y
<1> DEFINE R == OpToRel(<, Nat)
<1>1. IsWellFoundedOn(R, Nat)
  BY NatLessThanWellFounded
<1>2. \A x, y \in Nat : <<x, y>> \in R <=> x < y
  BY DEF OpToRel
<1> HIDE DEF R
<1>3. PICK x \in S : \A y \in S : ~ (<<y, x>> \in R)
  BY <1>1, WFMin
<1>4. ASSUME NEW y \in S PROVE x <= y
  <2>1. x \in Nat /\ y \in Nat
    OBVIOUS
  <2>2. ~(y < x)
    BY <1>2, <1>3, <2>1
  <2> QED BY <2>1, <2>2
<1> QED BY <1>4

LEMMA Greatest ==
  ASSUME NEW n \in Nat, NEW S, S \subseteq 0..n, S # {}
  PROVE  \E x \in S : \A y \in S : y <= x
<1> DEFINE T == {m \in Nat : n - m \in S}
<1>1. ASSUME NEW y \in S PROVE n - y \in T
  <2>1. n - y \in Nat /\ n - (n - y) = y
    OBVIOUS
  <2> QED BY <2>1
<1>2. T \subseteq Nat /\ T # {}
  BY <1>1
<1>3. PICK m \in T : \A y \in T : m <= y
  BY <1>2, Least
<1>4. m \in Nat /\ n - m \in S
  OBVIOUS
<1>5. \A y \in S : m <= n - y
  BY <1>1, <1>3
<1> HIDE DEF T
<1>6. \A y \in S : y <= n - m
  BY <1>4, <1>5
<1> QED BY <1>4, <1>6

LEMMA FirstIndexFirst ==
  ASSUME NEW text \in Seq(Token), NEW t, Contains(text, t)
  PROVE  /\ FirstIndex(text, t) \in 1..Len(text)
         /\ text[FirstIndex(text, t)] = t
         /\ \A j \in 1..(FirstIndex(text, t) - 1) : text[j] # t
<1> DEFINE S == {i \in 1..Len(text) : text[i] = t}
<1>1. Len(text) \in Nat /\ DOMAIN text = 1..Len(text)
  BY Domains
<1>2. S \subseteq Nat /\ S # {}
  BY <1>1 DEF Contains
<1>3. PICK i \in S : \A j \in S : i <= j
  BY <1>2, Least
<1>4. /\ i \in 1..Len(text) /\ text[i] = t
      /\ \A j \in 1..(i - 1) : text[j] # t
  BY <1>1, <1>3
<1>5. FirstIndex(text, t) = i
  BY <1>1, <1>4, FirstIndexIs
<1> QED BY <1>4, <1>5

(* Where stripCifraBlock cuts: from the newline before the line of the     *)
(* first begin marker to the end of the line of the end marker.            *)
LEMMA BlockLines ==
  ASSUME NEW text \in Seq(Token), HasBlock(text)
  PROVE  LET b == FirstIndex(text, "BEGIN")
             e == FirstIndex(text, "END")
             p == BlockFrom(text)
             q == BlockTo(text)
         IN /\ b \in 1..Len(text) /\ e \in 1..Len(text) /\ b < e
            /\ text[b] = "BEGIN" /\ text[e] = "END"
            /\ \A j \in 1..(b - 1) : text[j] # "BEGIN"
            /\ \A j \in 1..(e - 1) : text[j] # "END"
            /\ p \in 0..(b - 1) /\ (p > 0 => text[p] = "NL")
            /\ \A j \in (p + 1)..(b - 1) : text[j] # "NL"
            /\ q \in e..Len(text) /\ (q < Len(text) => text[q] = "NL")
            /\ \A j \in e..(q - 1) : text[j] # "NL"
<1> DEFINE n == Len(text)
           b == FirstIndex(text, "BEGIN")
           e == FirstIndex(text, "END")
           p == BlockFrom(text)
           q == BlockTo(text)
<1>1. n \in Nat /\ DOMAIN text = 1..n
  BY Domains
<1>2. /\ b \in 1..n /\ text[b] = "BEGIN" /\ \A j \in 1..(b - 1) : text[j] # "BEGIN"
      /\ e \in 1..n /\ text[e] = "END" /\ \A j \in 1..(e - 1) : text[j] # "END"
      /\ b <= e
  BY FirstIndexFirst DEF HasBlock
<1>3. p = NewlineBefore(text, b) /\ q = NewlineFrom(text, e)
  BY DEF BlockFrom, BlockTo
<1> HIDE DEF b, e, p, q
<1>4. b < e
  BY <1>2
<1>5. p \in 0..(b - 1) /\ (p > 0 => text[p] = "NL")
      /\ \A j \in (p + 1)..(b - 1) : text[j] # "NL"
  <2> DEFINE before == {0} \cup {j \in 1..(b - 1) : text[j] = "NL"}
             start == CHOOSE j \in before : \A k \in before : k <= j
  <2>1. before \subseteq 0..(b - 1) /\ before # {} /\ b - 1 \in Nat
    BY <1>1, <1>2
  <2>2. \E j \in before : \A k \in before : k <= j
    BY <2>1, Greatest
  <2>3. p = start
    BY <1>3 DEF NewlineBefore
  <2>4. p \in before /\ \A k \in before : k <= p
    BY <2>2, <2>3
  <2>5. ASSUME NEW j \in (p + 1)..(b - 1) PROVE text[j] # "NL"
    <3>1. p \in Nat /\ j \in 1..(b - 1) /\ ~(j <= p)
      BY <1>1, <1>2, <2>1, <2>4
    <3> QED BY <2>4, <3>1
  <2> QED BY <2>1, <2>4, <2>5
<1>6. q \in e..n /\ (q < n => text[q] = "NL")
      /\ \A j \in e..(q - 1) : text[j] # "NL"
  <2> DEFINE after == {j \in e..n : text[j] = "NL"}
             stop == CHOOSE j \in after : \A k \in after : j <= k
  <2>1. q = IF after = {} THEN n ELSE stop
    BY <1>3 DEF NewlineFrom
  <2>2. CASE after = {}
    BY <1>1, <1>2, <2>1, <2>2
  <2>3. CASE after # {}
    <3>1. after \subseteq Nat /\ after \subseteq e..n
      BY <1>1, <1>2
    <3>2. \E j \in after : \A k \in after : j <= k
      BY <2>3, <3>1, Least
    <3>3. q \in after /\ \A k \in after : q <= k
      BY <2>1, <2>3, <3>2
    <3>4. ASSUME NEW j \in e..(q - 1) PROVE text[j] # "NL"
      <4>1. j \in e..n /\ ~(q <= j)
        BY <1>1, <1>2, <3>1, <3>3
      <4> QED BY <3>3, <4>1
    <3> QED BY <3>1, <3>3, <3>4
  <2> QED BY <2>2, <2>3
<1> QED BY <1>1, <1>2, <1>4, <1>5, <1>6 DEF b, e, p, q

(* What stripCifraBlock leaves in front of the block, and how much goes.   *)
Kept(text) == IF BlockFrom(text) > 0 THEN BlockFrom(text) - 1 ELSE 0
Gone(text) == BlockTo(text) - Kept(text)

LEMMA StripIs ==
  ASSUME NEW text \in Seq(Token), HasBlock(text)
  PROVE  LET r == StripCifraBlock(text)
         IN /\ r \in Seq(Token) /\ Kept(text) \in Nat /\ Gone(text) \in Nat /\ Gone(text) >= 1
            /\ Kept(text) + Gone(text) = BlockTo(text)
            /\ Len(r) + Gone(text) = Len(text) /\ Kept(text) <= Len(r)
            /\ \A i \in 1..Kept(text) : r[i] = text[i]
            /\ \A i \in (Kept(text) + 1)..Len(r) : r[i] = text[i + Gone(text)]
<1> DEFINE n == Len(text)
           p == BlockFrom(text)
           q == BlockTo(text)
           keep == Kept(text)
           r == SubSeq(text, 1, keep) \o SubSeq(text, q + 1, n)
<1>1. /\ n \in Nat /\ p \in Nat /\ q \in 1..n /\ p < q /\ p <= n
  <2>1. n \in Nat
    BY Domains
  <2> QED BY <2>1, BlockLines
<1>2. keep \in Nat /\ keep <= q /\ keep < q /\ q - keep \in Nat /\ q - keep >= 1
      /\ keep \in 0..n /\ q \in 0..n
  BY <1>1 DEF Kept
<1>3. StripCifraBlock(text) = r
  <2>1. SubSeq(text, 1, p - 1) = SubSeq(text, 1, keep)
    <3>1. CASE p > 0
      BY <3>1 DEF Kept
    <3>2. CASE ~(p > 0)
      <4>1. p = 0 /\ keep = 0
        BY <1>1, <3>2 DEF Kept
      <4> QED BY <4>1, SubSeqEmpty
    <3> QED BY <3>1, <3>2
  <2> QED BY <2>1 DEF StripCifraBlock
<1> HIDE DEF keep
<1>4. /\ r \in Seq(Token) /\ Len(r) = keep + (n - q)
      /\ \A k \in 1..keep : r[k] = text[k]
      /\ \A k \in (keep + 1)..Len(r) : r[k] = text[k - keep + q]
  BY <1>2, CutOut
<1> HIDE DEF r
<1>5. Gone(text) = q - keep
  BY DEF Gone, keep
<1>6. Len(r) + Gone(text) = n /\ keep <= Len(r) /\ keep + Gone(text) = q
  BY <1>1, <1>2, <1>4, <1>5
<1>7. ASSUME NEW k \in (keep + 1)..Len(r) PROVE r[k] = text[k + Gone(text)]
  <2>1. k - keep + q = k + Gone(text)
    BY <1>1, <1>2, <1>5
  <2> QED BY <1>4, <2>1
<1> QED BY <1>2, <1>3, <1>4, <1>5, <1>6, <1>7 DEF keep

(* The markers of a file that a write may have been cut short in: at most  *)
(* one END, with a BEGIN above it and none below.                          *)
Closed(text) ==
  \A e \in DOMAIN text : text[e] = "END" =>
    /\ \A i \in DOMAIN text : text[i] = "END" => i = e
    /\ \A i \in DOMAIN text : text[i] = "BEGIN" => i < e
    /\ \E i \in DOMAIN text : text[i] = "BEGIN"

LEMMA ClosedHasBlock ==
  ASSUME NEW text \in Seq(Token), Closed(text), Contains(text, "END")
  PROVE  HasBlock(text)
<1> DEFINE b == FirstIndex(text, "BEGIN")
           e == FirstIndex(text, "END")
<1>1. Len(text) \in Nat /\ DOMAIN text = 1..Len(text)
  BY Domains
<1>2. e \in 1..Len(text) /\ text[e] = "END"
  BY FirstIndexFirst
<1>3. Contains(text, "BEGIN")
  BY <1>1, <1>2 DEF Closed, Contains
<1>4. b \in 1..Len(text) /\ text[b] = "BEGIN"
  BY <1>3, FirstIndexFirst
<1> HIDE DEF b, e
<1>5. b < e
  BY <1>1, <1>2, <1>4 DEF Closed
<1> QED BY <1>1, <1>2, <1>3, <1>4, <1>5 DEF HasBlock, b, e

(* stripCifraBlock takes every marker out of such a text.                  *)
LEMMA StripClears ==
  ASSUME NEW text \in Seq(Token), Closed(text), HasBlock(text)
  PROVE  Plain(StripCifraBlock(text))
<1> DEFINE n == Len(text)
           b == FirstIndex(text, "BEGIN")
           e == FirstIndex(text, "END")
           p == BlockFrom(text)
           q == BlockTo(text)
           keep == Kept(text)
           cut == Gone(text)
           r == StripCifraBlock(text)
<1>1. n \in Nat /\ DOMAIN text = 1..n
  BY Domains
<1>2. /\ b \in 1..n /\ e \in 1..n /\ b < e
      /\ text[b] = "BEGIN" /\ text[e] = "END"
      /\ \A j \in 1..(b - 1) : text[j] # "BEGIN"
      /\ \A j \in 1..(e - 1) : text[j] # "END"
      /\ p \in 0..(b - 1) /\ q \in e..n
  BY BlockLines
<1>3. /\ r \in Seq(Token) /\ keep \in Nat /\ cut \in Nat
      /\ keep + cut = q /\ Len(r) + cut = n /\ keep <= Len(r)
      /\ \A i \in 1..keep : r[i] = text[i]
      /\ \A i \in (keep + 1)..Len(r) : r[i] = text[i + cut]
  BY StripIs
<1>4. keep <= p
  BY <1>2 DEF Kept
<1>5. DOMAIN r = 1..Len(r) /\ Len(r) \in Nat
  BY <1>3, Domains
<1>6. /\ \A i \in 1..n : text[i] = "END" => i = e
      /\ \A i \in 1..n : text[i] = "BEGIN" => i < e
  BY <1>1, <1>2 DEF Closed
<1> HIDE DEF b, e, p, q, keep, cut, r
<1>7. ASSUME NEW i \in DOMAIN r PROVE r[i] \notin {"BEGIN", "END"}
  <2>1. CASE i <= keep
    <3>1. r[i] = text[i] /\ i \in 1..(b - 1) /\ i \in 1..(e - 1)
      BY <1>1, <1>2, <1>3, <1>4, <1>5, <2>1
    <3> QED BY <1>2, <3>1
  <2>2. CASE i > keep
    <3>1. r[i] = text[i + cut] /\ i + cut \in 1..n /\ i + cut > e
      BY <1>1, <1>2, <1>3, <1>5, <2>2
    <3> QED BY <1>1, <1>2, <1>6, <3>1
  <2> QED BY <1>3, <1>5, <2>1, <2>2
<1> QED BY <1>7 DEF Plain, r

(* What stripCifraBlock leaves has the user's lines.                       *)
LEMMA StripKeeps ==
  ASSUME NEW text \in Seq(Token), ~Joins(text), ~Encloses(text)
  PROVE  KeepsOwn(text, StripCifraBlock(text))
<1>1. CASE ~HasBlock(text)
  BY <1>1, KeepsItself DEF StripCifraBlock
<1>2. CASE HasBlock(text)
  <2> DEFINE n == Len(text)
             b == FirstIndex(text, "BEGIN")
             e == FirstIndex(text, "END")
             p == BlockFrom(text)
             q == BlockTo(text)
             keep == Kept(text)
             cut == Gone(text)
             r == StripCifraBlock(text)
  <2>1. n \in Nat /\ DOMAIN text = 1..n
    BY Domains
  <2>2. /\ b \in 1..n /\ e \in 1..n /\ b < e
        /\ text[b] = "BEGIN" /\ text[e] = "END"
        /\ p \in 0..(b - 1) /\ (p > 0 => text[p] = "NL")
        /\ \A j \in (p + 1)..(b - 1) : text[j] # "NL"
        /\ q \in e..n /\ (q < n => text[q] = "NL")
        /\ \A j \in e..(q - 1) : text[j] # "NL"
    BY <1>2, BlockLines
  <2>3. /\ r \in Seq(Token) /\ keep \in Nat /\ cut \in Nat /\ cut >= 1
        /\ keep + cut = q /\ Len(r) + cut = n /\ keep <= Len(r)
        /\ \A i \in 1..keep : r[i] = text[i]
        /\ \A i \in (keep + 1)..Len(r) : r[i] = text[i + cut]
    BY <1>2, StripIs
  <2>4. (p > 0 => keep = p - 1) /\ (p = 0 => keep = 0)
    BY DEF Kept
  <2>5. q < n /\ p > 1 => text[p - 1] = "NL"
    BY <1>2 DEF Joins
  <2>6. \A i \in OwnAt(text) : i \notin b..e
    BY <1>2 DEF Encloses
  <2> HIDE DEF b, e, p, q, keep, cut, r
  <2>7. ASSUME NEW i \in (keep + 1)..(keep + cut), i \in OwnAt(text) PROVE FALSE
    <3>1. /\ i \in 1..n /\ text[i] \in Line
          /\ i > 1 => text[i - 1] = "NL"
          /\ i < n => text[i + 1] = "NL"
      BY <2>7, OwnIs
    <3>2. "NL" \notin Line
      BY NotOwn
    <3>3. i # p
      BY <2>2, <3>1, <3>2
    <3>4. i \notin (p + 1)..(b - 1)
      <4> SUFFICES ASSUME i \in (p + 1)..(b - 1) PROVE FALSE
        OBVIOUS
      <4>1. i < n /\ text[i + 1] = "NL"
        BY <2>1, <2>2, <3>1
      <4>2. i + 1 = b \/ i + 1 \in (p + 1)..(b - 1)
        BY <2>1, <2>2
      <4> QED BY <2>2, <4>1, <4>2
    <3>5. i \notin b..e
      BY <2>6, <2>7
    <3>6. i \notin (e + 1)..q
      <4> SUFFICES ASSUME i \in (e + 1)..q PROVE FALSE
        OBVIOUS
      <4>1. i > 1 /\ i - 1 \in e..(q - 1)
        BY <2>1, <2>2
      <4> QED BY <2>2, <3>1, <4>1
    <3> QED BY <2>1, <2>2, <2>3, <2>4, <3>1, <3>3, <3>4, <3>5, <3>6
  <2>8. keep >= 1 => p > 1 /\ keep = p - 1 /\ text[keep + 1] = "NL"
    <3>1. keep >= 1 => p > 1 /\ keep = p - 1 /\ keep + 1 = p
      BY <2>1, <2>2, <2>4
    <3> QED BY <2>2, <3>1
  <2>9. keep + cut < n => text[keep + cut] = "NL"
    BY <2>2, <2>3
  <2>10. keep + cut < n /\ keep >= 1 => text[keep] = "NL"
    BY <2>3, <2>5, <2>8
  <2>11. KeepsOwn(text, r)
    BY <2>3, <2>7, <2>8, <2>9, <2>10, KeepsCut DEF n
  <2> QED BY <2>11 DEF r
<1> QED BY <1>1, <1>2

(* A text that differs from another behind some place only, and has no     *)
(* marker there.                                                           *)
LEMMA ClosedFront ==
  ASSUME NEW a \in Seq(Token), Closed(a), NEW b \in Seq(Token),
         NEW k \in 0..Len(a), k <= Len(b),
         \A i \in 1..k : b[i] = a[i],
         \A i \in (k + 1)..Len(b) : b[i] \notin {"BEGIN", "END"}
  PROVE  Closed(b)
<1>1. /\ Len(a) \in Nat /\ DOMAIN a = 1..Len(a) /\ Len(b) \in Nat /\ DOMAIN b = 1..Len(b)
      /\ k \in Nat /\ k <= Len(a)
  BY Domains
<1>2. ASSUME NEW i \in DOMAIN b, b[i] \in {"BEGIN", "END"}
      PROVE  i \in 1..k /\ i \in DOMAIN a /\ a[i] = b[i]
  BY <1>1, <1>2
<1>3. SUFFICES ASSUME NEW e \in DOMAIN b, b[e] = "END"
               PROVE  /\ \A i \in DOMAIN b : b[i] = "END" => i = e
                      /\ \A i \in DOMAIN b : b[i] = "BEGIN" => i < e
                      /\ \E i \in DOMAIN b : b[i] = "BEGIN"
  BY DEF Closed
<1>4. e \in 1..k /\ e \in DOMAIN a /\ a[e] = "END"
  BY <1>2, <1>3
<1>5. PICK i \in DOMAIN a : a[i] = "BEGIN" /\ i < e
  BY <1>4 DEF Closed
<1>6. i \in 1..k /\ i \in DOMAIN b /\ b[i] = "BEGIN"
  BY <1>1, <1>4, <1>5
<1>7. \A j \in DOMAIN b : b[j] = "END" => j = e
  BY <1>2, <1>4 DEF Closed
<1>8. \A j \in DOMAIN b : b[j] = "BEGIN" => j < e
  BY <1>2, <1>4 DEF Closed
<1> QED BY <1>6, <1>7, <1>8

(* A write that is cut short leaves no END without its BEGIN.              *)
LEMMA TornOK ==
  ASSUME NEW text \in Seq(Token), Closed(text), NEW t \in Torn(text)
  PROVE  t \in Seq(Token) /\ Closed(t)
<1>1. Len(text) \in Nat /\ DOMAIN text = 1..Len(text)
  BY Domains
<1>2. ASSUME NEW n \in 0..(Len(text) - 1), t = SubSeq(text, 1, n)
      PROVE  t \in Seq(Token) /\ Closed(t)
  <2>1. n \in 0..Len(text)
    BY <1>1
  <2>2. t \in Seq(Token) /\ Len(t) = n /\ \A i \in 1..n : t[i] = text[i]
    BY <1>2, <2>1, Ends
  <2>3. \A i \in (n + 1)..Len(t) : t[i] \notin {"BEGIN", "END"}
    BY <2>1, <2>2
  <2>4. n <= Len(t)
    BY <2>1, <2>2
  <2> QED BY <2>1, <2>2, <2>3, <2>4, ClosedFront
<1>3. ASSUME NEW n \in DOMAIN text, t = SubSeq(text, 1, n - 1) \o <<"cut">>
      PROVE  t \in Seq(Token) /\ Closed(t)
  <2> DEFINE k == n - 1
             front == SubSeq(text, 1, k)
             piece == <<"cut">>
  <2>1. k \in 0..Len(text) /\ k \in Nat
    BY <1>1
  <2>2. front \in Seq(Token) /\ Len(front) = k /\ \A i \in 1..k : front[i] = text[i]
    BY <2>1, Ends
  <2>3. piece \in Seq(Token) /\ Len(piece) = 1 /\ piece[1] = "cut"
    BY DEF Token
  <2>4. t = front \o piece
    BY <1>3
  <2> HIDE DEF k, front, piece
  <2>5. /\ front \o piece \in Seq(Token) /\ Len(front \o piece) = Len(front) + Len(piece)
        /\ \A i \in 1..Len(front) : (front \o piece)[i] = front[i]
        /\ \A i \in 1..Len(piece) : (front \o piece)[Len(front) + i] = piece[i]
    BY <2>2, <2>3, Joined
  <2>6. t \in Seq(Token) /\ Len(t) = k + 1 /\ \A i \in 1..k : t[i] = text[i]
    BY <2>2, <2>3, <2>4, <2>5
  <2>7. t[k + 1] = "cut"
    BY <2>2, <2>3, <2>4, <2>5
  <2>8. \A i \in (k + 1)..Len(t) : t[i] \notin {"BEGIN", "END"}
    <3>1. \A i \in (k + 1)..Len(t) : i = k + 1
      BY <2>1, <2>6
    <3> QED BY <2>7, <3>1
  <2>9. k <= Len(t)
    BY <2>1, <2>6
  <2> QED BY <2>1, <2>6, <2>8, <2>9, ClosedFront
<1> QED BY <1>2, <1>3 DEF Torn

LEMMA EmptyTorn ==
  ASSUME NEW text \in Seq(Token), text # <<>>
  PROVE  <<>> \in Torn(text)
<1>1. Len(text) \in Nat /\ Len(text) # 0
  BY EmptySeq
<1>2. 0 \in 0..(Len(text) - 1) /\ SubSeq(text, 1, 0) = <<>>
  BY <1>1, SubSeqEmpty
<1> QED BY <1>2 DEF Torn

(* Where the markers of the block are.                                     *)
LEMMA BlockAt ==
  ASSUME NEW text \in Seq(Token), NEW b \in Nat, Whole(text, b)
  PROVE  /\ b \in 1..Len(text) /\ b + 3 <= Len(text)
         /\ Installed(text) /\ Contains(text, "END")
         /\ FirstIndex(text, "BEGIN") = b /\ FirstIndex(text, "END") = b + 2
<1> DEFINE n == Len(text)
<1>1. n \in Nat /\ DOMAIN text = 1..n /\ (\A i \in 1..n : text[i] \in Token)
  BY Domains
<1>2. b \in 1..n /\ b + 3 <= n
  BY DEF Whole
<1>3. FirstIndex(text, "BEGIN") = b
  <2>1. ASSUME NEW j \in 1..(b - 1) PROVE text[j] # "BEGIN"
    BY <1>1, <1>2, <2>1 DEF Whole
  <2> QED BY <1>1, <1>2, <2>1, FirstIndexIs DEF Whole
<1>4. FirstIndex(text, "END") = b + 2
  <2>1. ASSUME NEW j \in 1..(b + 1) PROVE text[j] # "END"
    <3>1. j = b \/ (j \in DOMAIN text /\ j \notin {b, b + 2})
      BY <1>1, <1>2, <2>1
    <3> QED BY <3>1 DEF Whole
  <2>2. \A j \in 1..(b + 2 - 1) : text[j] # "END"
    BY <1>2, <2>1
  <2>3. b + 2 \in 1..n /\ text[b + 2] = "END"
    BY <1>1, <1>2 DEF Whole
  <2> QED BY <1>1, <2>2, <2>3, FirstIndexIs
<1>5. Installed(text) /\ Contains(text, "END")
  <2>1. b \in DOMAIN text /\ b + 2 \in DOMAIN text
    BY <1>1, <1>2
  <2> QED BY <1>2, <2>1 DEF Contains, Installed, Whole
<1> QED BY <1>2, <1>3, <1>4, <1>5

(* What stripCifraBlock takes of a text with one whole block.              *)
LEMMA StripWhole ==
  ASSUME NEW text \in Seq(Token), NEW b \in Nat, Whole(text, b)
  PROVE  /\ HasBlock(text)
         /\ Kept(text) = IF b > 1 THEN b - 2 ELSE 0
         /\ Gone(text) = IF b > 1 THEN 5 ELSE 4
<1> DEFINE n == Len(text)
           p == BlockFrom(text)
           q == BlockTo(text)
<1>1. /\ n \in Nat /\ b \in 1..n /\ b + 3 <= n
      /\ Contains(text, "BEGIN") /\ Contains(text, "END")
      /\ FirstIndex(text, "BEGIN") = b /\ FirstIndex(text, "END") = b + 2
  BY Domains, BlockAt DEF Installed
<1>2. HasBlock(text)
  BY <1>1 DEF HasBlock
<1>3. /\ p \in 0..(b - 1)
      /\ \A j \in (p + 1)..(b - 1) : text[j] # "NL"
      /\ q \in (b + 2)..n /\ (q < n => text[q] = "NL")
      /\ \A j \in (b + 2)..(q - 1) : text[j] # "NL"
  BY <1>1, <1>2, BlockLines
<1> HIDE DEF p, q
<1>4. p = b - 1
  <2>1. b > 1 => text[b - 1] = "NL"
    BY DEF Whole
  <2>2. b > 1 => b - 1 \notin (p + 1)..(b - 1)
    BY <1>3, <2>1
  <2> QED BY <1>1, <1>3, <2>2
<1>5. q = b + 3
  <2>1. text[b + 3] = "NL" /\ text[b + 2] # "NL"
    BY DEF Whole
  <2>2. b + 3 \notin (b + 2)..(q - 1)
    BY <1>3, <2>1
  <2>3. q # b + 2
    BY <1>1, <1>3, <2>1
  <2> QED BY <1>1, <1>3, <2>2, <2>3
<1>6. Kept(text) = IF b > 1 THEN b - 2 ELSE 0
  BY <1>1, <1>4 DEF Kept, p
<1>7. Gone(text) = IF b > 1 THEN 5 ELSE 4
  BY <1>1, <1>5, <1>6 DEF Gone, q
<1> QED BY <1>2, <1>6, <1>7

LEMMA ShapeClosed ==
  ASSUME NEW text \in Seq(Token), Shape(text)
  PROVE  Closed(text) /\ (Installed(text) => HasBlock(text)) /\ Plain(StripCifraBlock(text))
<1>1. CASE Plain(text)
  <2>1. Closed(text) /\ ~Installed(text) /\ ~HasBlock(text)
    BY <1>1 DEF Plain, Closed, Installed, Contains, HasBlock
  <2> QED BY <1>1, <2>1 DEF StripCifraBlock
<1>2. ASSUME NEW b \in Nat, Whole(text, b)
      PROVE  Closed(text) /\ HasBlock(text) /\ Plain(StripCifraBlock(text))
  <2>1. DOMAIN text = 1..Len(text) /\ Len(text) \in Nat
    BY Domains
  <2>2. Closed(text)
    BY <1>2, <2>1 DEF Closed, Whole
  <2> QED BY <1>2, <2>2, StripWhole, StripClears
<1> QED BY <1>1, <1>2 DEF Shape

LEMMA UnderText ==
  ASSUME NEW own \in Seq(Token), NEW v \in {"v1", "v2"}
  PROVE  LET text == own \o <<"NL">> \o <<"BEGIN", v, "END", "NL">>
         IN /\ text \in Seq(Token) /\ Len(text) = Len(own) + 5
            /\ Plain(own) => Whole(text, Len(own) + 2)
            /\ ~Contains(own, "END") => Closed(text)
            /\ text[Len(own) + 1] = "NL" /\ text[Len(own) + 2] = "BEGIN"
            /\ \A i \in 1..Len(own) : text[i] = own[i]
            /\ \A i \in (Len(own) + 1)..Len(text) : text[i] \notin Line
            /\ text[Len(own) + 3] = v
<1> DEFINE n == Len(own)
           text == own \o <<"NL">> \o <<"BEGIN", v, "END", "NL">>
<1>1. <<"NL">> \in Seq(Token) /\ <<"BEGIN", v, "END", "NL">> \in Seq(Token)
  BY DEF Token
<1>2. own \o <<"NL">> \in Seq(Token) /\ Len(own \o <<"NL">>) = n + 1 /\ n \in Nat
      /\ \A i \in 1..n : (own \o <<"NL">>)[i] = own[i]
      /\ (own \o <<"NL">>)[n + 1] = "NL"
  BY <1>1, ConcatProperties
<1>3. /\ text \in Seq(Token) /\ Len(text) = n + 5 /\ DOMAIN text = 1..(n + 5)
      /\ \A i \in 1..n : text[i] = own[i]
      /\ text[n + 1] = "NL" /\ text[n + 2] = "BEGIN" /\ text[n + 3] = v
      /\ text[n + 4] = "END" /\ text[n + 5] = "NL"
  BY <1>1, <1>2, ConcatProperties
<1> HIDE DEF text
<1>5. ASSUME Plain(own) PROVE Whole(text, n + 2)
  <2>0. \A i \in 1..n : own[i] # "BEGIN" /\ own[i] # "END"
    BY <1>2, <1>5, Domains DEF Plain
  <2>1. ASSUME NEW i \in DOMAIN text, i \notin {n + 2, n + 2 + 2}
        PROVE  text[i] \notin {"BEGIN", "END"}
    <3>1. CASE i \in 1..n
      BY <1>3, <2>0, <3>1
    <3>2. CASE i \notin 1..n
      <4>1. i \in {n + 1, n + 3, n + 5}
        BY <1>2, <1>3, <2>1, <3>2
      <4>2. text[i] \in {"NL", v}
        BY <1>3, <4>1
      <4> QED BY <4>2
    <3> QED BY <3>1, <3>2
  <2>2. /\ n + 2 \in 1..Len(text) /\ n + 2 + 3 <= Len(text)
        /\ n + 2 + 1 = n + 3 /\ n + 2 + 2 = n + 4 /\ n + 2 + 3 = n + 5
        /\ n + 2 - 1 = n + 1
    BY <1>2, <1>3
  <2> QED BY <1>3, <2>1, <2>2 DEF Whole
<1>7. ASSUME ~Contains(own, "END") PROVE Closed(text)
  <2>1. \A i \in 1..n : own[i] # "END"
    BY <1>7, Domains DEF Contains
  <2>2. ASSUME NEW i \in DOMAIN text, text[i] = "END" PROVE i = n + 4
    BY <1>2, <1>3, <2>1, <2>2
  <2>3. ASSUME NEW i \in DOMAIN text, text[i] = "BEGIN" PROVE i < n + 4
    BY <1>2, <1>3, <2>3
  <2>4. n + 2 \in DOMAIN text
    BY <1>2, <1>3
  <2> QED BY <1>3, <2>2, <2>3, <2>4 DEF Closed
<1>6. ASSUME NEW i \in (n + 1)..Len(text) PROVE text[i] \notin Line
  <2>1. i \in {n + 1, n + 2, n + 3, n + 4, n + 5}
    BY <1>2, <1>3, <1>6
  <2>2. text[i] \in {"NL", "BEGIN", v, "END"}
    BY <1>3, <2>1
  <2>3. text[i] \in {"NL", Shebang, "BEGIN", "v1", "v2", "END"}
    BY <2>2
  <2> QED BY <2>3, NotOwn
<1> QED BY <1>3, <1>5, <1>6, <1>7 DEF text

(* stripCifraBlock (git.go) takes off what InstallGitHook has put under a  *)
(* text, this version's block or an earlier one's, and nothing else: the   *)
(* text that comes back is the one there was.                              *)
THEOREM BlockComesOff ==
  ASSUME NEW own \in Seq(Token), NEW v \in {"v1", "v2"},
         ~Contains(own, "BEGIN"), ~Contains(own, "END")
  PROVE  StripCifraBlock(own \o <<"NL">> \o <<"BEGIN", v, "END", "NL">>) = own
<1> DEFINE n == Len(own)
           text == own \o <<"NL">> \o <<"BEGIN", v, "END", "NL">>
           r == StripCifraBlock(text)
<1>1. Plain(own) /\ n \in Nat
  BY Domains DEF Plain, Contains
<1>2. /\ text \in Seq(Token) /\ Len(text) = n + 5 /\ Whole(text, n + 2)
      /\ \A i \in 1..n : text[i] = own[i]
  BY <1>1, UnderText
<1> HIDE DEF text
<1>3. HasBlock(text) /\ Kept(text) = n /\ Gone(text) = 5
  <2>1. n + 2 \in Nat /\ n + 2 > 1 /\ n + 2 - 2 = n
    BY <1>1
  <2> QED BY <1>2, <2>1, StripWhole
<1>4. r \in Seq(Token) /\ Len(r) + 5 = Len(text) /\ \A i \in 1..n : r[i] = text[i]
  BY <1>2, <1>3, StripIs
<1> HIDE DEF r
<1>5. Len(r) = n
  BY <1>1, <1>2, <1>4, Domains
<1>6. r = own
  BY <1>2, <1>4, <1>5, SeqEqual
<1> QED BY <1>6 DEF r, text

(* What InstallGitHook writes over a text without a block, and what comes  *)
(* back when its block is taken off again.                                 *)
LEMMA FirstBlock ==
  ASSUME NEW v \in {"v1", "v2"}
  PROVE  /\ Under(<<>>, v) \in Seq(Token)
         /\ Whole(Under(<<>>, v), 3)
         /\ \A i \in DOMAIN Under(<<>>, v) : Under(<<>>, v)[i] \notin Line
         /\ Contains(Under(<<>>, v), v)
         /\ StripCifraBlock(Under(<<>>, v)) = <<Shebang>>
         /\ Under(<<Shebang>>, v) = Under(<<>>, v)
<1> DEFINE text == <<Shebang, "NL">> \o <<"BEGIN", v, "END", "NL">>
<1>1. Under(<<>>, v) = text
  BY DEF Under, Block
<1>2. /\ text \in Seq(Token) /\ Len(text) = 6 /\ DOMAIN text = 1..6
      /\ text[1] = Shebang /\ text[2] = "NL" /\ text[3] = "BEGIN" /\ text[4] = v
      /\ text[5] = "END" /\ text[6] = "NL"
  <2>1. <<Shebang, "NL">> \in Seq(Token) /\ <<"BEGIN", v, "END", "NL">> \in Seq(Token)
    BY DEF Token
  <2> QED BY <2>1, ConcatProperties
<1> HIDE DEF text
<1>3. Whole(text, 3)
  <2>1. ASSUME NEW i \in 1..6, i \notin {3, 5} PROVE text[i] \in {"NL", v, Shebang}
    <3>1. i \in {1, 2, 4, 6}
      BY <2>1
    <3> QED BY <1>2, <3>1
  <2>2. \A i \in DOMAIN text : i \notin {3, 5} => text[i] \notin {"BEGIN", "END"}
    BY <1>2, <2>1 DEF Shebang
  <2> QED BY <1>2, <2>2 DEF Whole
<1>4. ASSUME NEW i \in DOMAIN text PROVE text[i] \notin Line
  <2>1. i \in {1, 2, 3, 4, 5, 6}
    BY <1>2, <1>4
  <2>2. text[i] \in {"NL", Shebang, "BEGIN", "v1", "v2", "END"}
    BY <1>2, <2>1
  <2> QED BY <2>2, NotOwn
<1>5. Contains(text, v)
  BY <1>2 DEF Contains
<1>6. StripCifraBlock(text) = <<Shebang>>
  <2> DEFINE r == StripCifraBlock(text)
  <2>1. HasBlock(text) /\ Kept(text) = 1 /\ Gone(text) = 5
    <3>1. 3 \in Nat /\ 3 > 1 /\ 3 - 2 = 1
      OBVIOUS
    <3> QED BY <1>2, <1>3, <3>1, StripWhole
  <2>2. r \in Seq(Token) /\ Len(r) + 5 = Len(text) /\ \A i \in 1..1 : r[i] = text[i]
    BY <1>2, <2>1, StripIs
  <2> HIDE DEF r
  <2>3. Len(r) = 1 /\ r[1] = Shebang
    <3>1. Len(r) \in Nat
      BY <2>2
    <3>2. Len(r) + 5 = 6
      BY <1>2, <2>2
    <3>3. Len(r) = 1
      <4>1. PICK m \in Nat : m = Len(r)
        BY <3>1
      <4>2. m + 5 = 6
        BY <3>2, <4>1
      <4> QED BY <4>1, <4>2
    <3>4. r[1] = text[1]
      BY <2>2
    <3> QED BY <1>2, <3>3, <3>4
  <2>4. <<Shebang>> \in Seq(Token)
    BY DEF Token
  <2>5. r = <<Shebang>>
    BY <2>2, <2>3, <2>4, SeqEqual
  <2> QED BY <2>5 DEF r
<1>7. Under(<<Shebang>>, v) = text
  <2> DEFINE x == <<Shebang>> \o <<"NL">>
             y == <<Shebang, "NL">>
  <2>1. <<Shebang>> \in Seq(Token) /\ <<"NL">> \in Seq(Token) /\ y \in Seq(Token)
    BY DEF Token
  <2>2. /\ x \in Seq(Token) /\ Len(x) = 2 /\ x[1] = Shebang /\ x[2] = "NL"
    BY <2>1, ConcatProperties
  <2>3. Len(y) = 2 /\ y[1] = Shebang /\ y[2] = "NL"
    OBVIOUS
  <2>4. x = y
    <3> HIDE DEF x, y
    <3>1. \A i \in 1..Len(x) : x[i] = y[i]
      BY <2>2, <2>3
    <3> QED BY <2>1, <2>2, <2>3, <3>1, SeqEqual
  <2>5. <<Shebang>> # <<>>
    OBVIOUS
  <2>6. Under(<<Shebang>>, v) = <<Shebang>> \o <<"NL">> \o <<"BEGIN", v, "END", "NL">>
    BY <2>5 DEF Under, Block
  <2> QED BY <2>4, <2>6 DEF text
<1> QED BY <1>1, <1>2, <1>3, <1>4, <1>5, <1>6, <1>7

LEMMA UnderIs ==
  ASSUME NEW own \in Seq(Token), NEW v \in {"v1", "v2"}
  PROVE  LET w == Under(own, v)
         IN /\ w \in Seq(Token) /\ w # <<>> /\ Installed(w) /\ Contains(w, v)
            /\ KeepsOwn(own, w)
            /\ ~Contains(own, "END") => Closed(w)
            /\ Plain(own) => /\ Shape(w)
                             /\ StripCifraBlock(w) = IF own = <<>> THEN <<Shebang>> ELSE own
<1>1. CASE own = <<>>
  <2> DEFINE w == Under(<<>>, v)
  <2>1. /\ w \in Seq(Token) /\ Whole(w, 3) /\ (\A i \in DOMAIN w : w[i] \notin Line)
        /\ Contains(w, v) /\ StripCifraBlock(w) = <<Shebang>>
    BY FirstBlock
  <2> HIDE DEF w
  <2>2. Shape(w) /\ 3 \in DOMAIN w /\ w[3] = "BEGIN"
    BY <2>1, Domains DEF Shape, Whole
  <2>3. w # <<>> /\ Installed(w) /\ Closed(w)
    BY <2>1, <2>2, ShapeClosed DEF Installed, Contains
  <2>4. OwnAt(w) = {} /\ OwnAt(own) = {}
    BY <1>1, <2>1 DEF OwnAt
  <2>5. KeepsOwn(own, w)
    BY <2>1, <2>4, NothingToKeep
  <2> QED BY <1>1, <2>1, <2>2, <2>3, <2>5 DEF w
<1>2. CASE own # <<>>
  <2> DEFINE w == own \o <<"NL">> \o <<"BEGIN", v, "END", "NL">>
  <2>1. Under(own, v) = w
    BY <1>2 DEF Under, Block
  <2>2. /\ w \in Seq(Token) /\ Len(w) = Len(own) + 5
        /\ Plain(own) => Whole(w, Len(own) + 2)
        /\ ~Contains(own, "END") => Closed(w)
        /\ w[Len(own) + 1] = "NL" /\ w[Len(own) + 2] = "BEGIN"
        /\ \A i \in 1..Len(own) : w[i] = own[i]
        /\ \A i \in (Len(own) + 1)..Len(w) : w[i] \notin Line
        /\ w[Len(own) + 3] = v
    BY UnderText
  <2>3. Plain(own) => StripCifraBlock(w) = own
    BY BlockComesOff, Domains DEF Plain, Contains
  <2> HIDE DEF w
  <2>4. /\ Len(own) \in Nat /\ DOMAIN w = 1..(Len(own) + 5)
        /\ Len(own) + 2 \in DOMAIN w /\ Len(own) + 3 \in DOMAIN w /\ Len(own) + 2 \in Nat
    <3>1. Len(own) \in Nat /\ DOMAIN w = 1..(Len(own) + 5)
      BY <2>2, Domains
    <3> QED BY <3>1
  <2>5. Plain(own) => Shape(w)
    BY <2>2, <2>4 DEF Shape
  <2>6. w # <<>> /\ Installed(w) /\ Contains(w, v)
    BY <2>2, <2>4 DEF Installed, Contains
  <2>7. KeepsOwn(own, w)
    BY <2>2, <2>4, KeepsExtended
  <2> QED BY <1>2, <2>1, <2>2, <2>3, <2>5, <2>6, <2>7
<1> QED BY <1>1, <1>2

(* The user's edits, whole lines.                                          *)
LEMMA InsertOK ==
  ASSUME NEW text \in Seq(Token), Closed(text), NEW i \in Gaps(text), NEW l \in Line
  PROVE  LET r == SubSeq(text, 1, i) \o <<l, "NL">> \o SubSeq(text, i + 1, Len(text))
         IN r \in Seq(Token) /\ Closed(r) /\ (Shape(text) => Shape(r))
<1> DEFINE n == Len(text)
           r == SubSeq(text, 1, i) \o <<l, "NL">> \o SubSeq(text, i + 1, Len(text))
<1>1. /\ n \in Nat /\ DOMAIN text = 1..n
      /\ i \in 0..n /\ (i > 0 => text[i] = "NL")
  BY Domains DEF Gaps
<1>2. /\ r \in Seq(Token) /\ Len(r) = n + 2
      /\ \A k \in 1..i : r[k] = text[k]
      /\ r[i + 1] = l /\ r[i + 2] = "NL"
      /\ \A k \in (i + 3)..Len(r) : r[k] = text[k - 2]
  BY <1>1, PutIn
<1> HIDE DEF r
<1>3. DOMAIN r = 1..(n + 2) /\ l \notin {"BEGIN", "END"}
  BY <1>1, <1>2, Domains, NotOwn
<1>4. ASSUME NEW k \in DOMAIN r
      PROVE  \/ k \in 1..i /\ k \in DOMAIN text /\ r[k] = text[k]
             \/ k > i + 2 /\ k - 2 \in DOMAIN text /\ r[k] = text[k - 2]
             \/ k \in {i + 1, i + 2} /\ r[k] \notin {"BEGIN", "END"}
  <2>1. \/ k \in 1..i /\ k \in DOMAIN text
        \/ k \in (i + 3)..Len(r) /\ k > i + 2 /\ k - 2 \in DOMAIN text
        \/ k \in {i + 1, i + 2}
    BY <1>1, <1>2, <1>3
  <2> QED BY <1>2, <1>3, <2>1
<1>5. ASSUME Plain(text) PROVE Shape(r)
  <2>1. Plain(r)
    BY <1>4, <1>5 DEF Plain
  <2> QED BY <2>1 DEF Shape
<1>6. ASSUME NEW b \in Nat, Whole(text, b) PROVE Shape(r)
  <2>1. /\ b \in 1..n /\ b + 3 <= n /\ i \notin b..(b + 2)
        /\ text[b] = "BEGIN" /\ text[b + 1] \in {"v1", "v2"}
        /\ text[b + 2] = "END" /\ text[b + 3] = "NL"
        /\ b > 1 => text[b - 1] = "NL"
    BY <1>1, <1>6 DEF Whole
  <2>2. CASE i < b
    <3> DEFINE c == b + 2
    <3>1. /\ c \in Nat /\ c \in 1..Len(r) /\ c + 3 <= Len(r)
          /\ c \in (i + 3)..Len(r) /\ c + 1 \in (i + 3)..Len(r)
          /\ c + 2 \in (i + 3)..Len(r) /\ c + 3 \in (i + 3)..Len(r)
          /\ c - 2 = b /\ c + 1 - 2 = b + 1 /\ c + 2 - 2 = b + 2 /\ c + 3 - 2 = b + 3
      BY <1>1, <1>2, <2>1, <2>2
    <3>2. r[c] = "BEGIN" /\ r[c + 1] \in {"v1", "v2"} /\ r[c + 2] = "END" /\ r[c + 3] = "NL"
      BY <1>2, <2>1, <3>1, SMTT(60)
    <3>3. r[c - 1] = "NL"
      <4>1. CASE i = b - 1
        <5>1. c - 1 = i + 2
          BY <2>1, <4>1
        <5> QED BY <1>2, <5>1
      <4>2. CASE i # b - 1
        <5>1. c - 1 \in (i + 3)..Len(r) /\ c - 1 - 2 = b - 1 /\ b > 1
          BY <1>1, <1>2, <2>1, <2>2, <4>2
        <5> QED BY <1>2, <2>1, <5>1
      <4> QED BY <4>1, <4>2
    <3>4. ASSUME NEW k \in DOMAIN r, k \notin {c, c + 2}
          PROVE  r[k] \notin {"BEGIN", "END"}
      <4>1. CASE k \in 1..i /\ k \in DOMAIN text /\ r[k] = text[k]
        <5>1. k \notin {b, b + 2}
          BY <1>1, <2>1, <2>2, <4>1
        <5> QED BY <1>6, <4>1, <5>1 DEF Whole
      <4>2. CASE k > i + 2 /\ k - 2 \in DOMAIN text /\ r[k] = text[k - 2]
        <5>1. k \in Nat
          BY <1>3
        <5>2. k - 2 \notin {b, b + 2}
          BY <2>1, <3>4, <5>1
        <5> QED BY <1>6, <4>2, <5>2 DEF Whole
      <4> QED BY <1>4, <4>1, <4>2
    <3> HIDE DEF c
    <3>5. Whole(r, c)
      BY <3>1, <3>2, <3>3, <3>4 DEF Whole
    <3> QED BY <3>1, <3>5 DEF Shape
  <2>3. CASE ~(i < b)
    <3>1. /\ b \in 1..Len(r) /\ b + 3 <= Len(r) /\ i >= b + 3
          /\ b \in 1..i /\ b + 1 \in 1..i /\ b + 2 \in 1..i /\ b + 3 \in 1..i
          /\ b > 1 => b - 1 \in 1..i
      BY <1>1, <1>2, <2>1, <2>3
    <3>2. /\ r[b] = "BEGIN" /\ r[b + 1] \in {"v1", "v2"}
          /\ r[b + 2] = "END" /\ r[b + 3] = "NL"
          /\ b > 1 => r[b - 1] = "NL"
      BY <1>2, <2>1, <3>1
    <3>3. ASSUME NEW k \in DOMAIN r, k \notin {b, b + 2}
          PROVE  r[k] \notin {"BEGIN", "END"}
      <4>1. CASE k \in 1..i /\ k \in DOMAIN text /\ r[k] = text[k]
        BY <1>6, <3>3, <4>1 DEF Whole
      <4>2. CASE k > i + 2 /\ k - 2 \in DOMAIN text /\ r[k] = text[k - 2]
        <5>1. k \in Nat
          BY <1>3
        <5>2. k - 2 \notin {b, b + 2}
          BY <1>1, <2>1, <3>1, <4>2, <5>1
        <5> QED BY <1>6, <4>2, <5>2 DEF Whole
      <4> QED BY <1>4, <4>1, <4>2
    <3>4. Whole(r, b)
      BY <3>1, <3>2, <3>3 DEF Whole
    <3> QED BY <3>4 DEF Shape
  <2> QED BY <2>2, <2>3
<1>7. Closed(r)
  <2> SUFFICES ASSUME NEW e \in DOMAIN r, r[e] = "END"
               PROVE  /\ \A k \in DOMAIN r : r[k] = "END" => k = e
                      /\ \A k \in DOMAIN r : r[k] = "BEGIN" => k < e
                      /\ \E k \in DOMAIN r : r[k] = "BEGIN"
    BY DEF Closed
  <2>1. PICK d \in DOMAIN text : text[d] = "END" /\ e = (IF d <= i THEN d ELSE d + 2)
    BY <1>1, <1>3, <1>4, SMTT(60)
  <2>2. /\ \A k \in DOMAIN text : text[k] = "END" => k = d
        /\ \A k \in DOMAIN text : text[k] = "BEGIN" => k < d
    BY <2>1 DEF Closed
  <2>3. ASSUME NEW k \in DOMAIN r, r[k] \in {"BEGIN", "END"}
        PROVE  \E j \in DOMAIN text : text[j] = r[k] /\ k = (IF j <= i THEN j ELSE j + 2)
    BY <1>1, <1>3, <1>4, <2>3, SMTT(60)
  <2>4. ASSUME NEW k \in DOMAIN r, r[k] = "END" PROVE k = e
    <3>1. PICK j \in DOMAIN text : text[j] = r[k] /\ k = (IF j <= i THEN j ELSE j + 2)
      BY <2>3, <2>4
    <3> QED BY <1>1, <2>1, <2>2, <2>4, <3>1
  <2>5. ASSUME NEW k \in DOMAIN r, r[k] = "BEGIN" PROVE k < e
    <3>1. PICK j \in DOMAIN text : text[j] = r[k] /\ k = (IF j <= i THEN j ELSE j + 2)
      BY <2>3, <2>5
    <3>2. j < d
      BY <2>2, <2>5, <3>1
    <3> QED BY <1>1, <1>3, <2>1, <3>1, <3>2
  <2>6. \E k \in DOMAIN r : r[k] = "BEGIN"
    <3>1. PICK j \in DOMAIN text : text[j] = "BEGIN"
      BY <2>1 DEF Closed
    <3>2. CASE j <= i
      <4>1. j \in DOMAIN r /\ r[j] = "BEGIN"
        BY <1>1, <1>2, <1>3, <3>1, <3>2
      <4> QED BY <4>1
    <3>3. CASE ~(j <= i)
      <4>1. j + 2 \in (i + 3)..Len(r) /\ j + 2 \in DOMAIN r /\ (j + 2) - 2 = j
        BY <1>1, <1>2, <1>3, <3>3
      <4>2. r[j + 2] = "BEGIN"
        BY <1>2, <3>1, <4>1
      <4> QED BY <4>1, <4>2
    <3> QED BY <3>2, <3>3
  <2> QED BY <2>4, <2>5, <2>6
<1> QED BY <1>2, <1>5, <1>6, <1>7 DEF Shape, r

LEMMA DeleteOK ==
  ASSUME NEW text \in Seq(Token), Closed(text), NEW i \in DOMAIN text,
         text[i] \in Line, i > 1 => text[i - 1] = "NL",
         i < Len(text), text[i + 1] = "NL"
  PROVE  LET r == SubSeq(text, 1, i - 1) \o SubSeq(text, i + 2, Len(text))
         IN r \in Seq(Token) /\ Closed(r) /\ (Shape(text) => Shape(r))
<1> DEFINE n == Len(text)
           r == SubSeq(text, 1, i - 1) \o SubSeq(text, i + 2, Len(text))
<1>1. /\ n \in Nat /\ DOMAIN text = 1..n
      /\ i \in 1..n /\ i - 1 \in 0..n /\ i + 1 \in 0..n
  BY Domains
<1>2. /\ r \in Seq(Token) /\ Len(r) = n - 2
      /\ \A k \in 1..(i - 1) : r[k] = text[k]
      /\ \A k \in i..Len(r) : r[k] = text[k + 2]
  <2> DEFINE s == SubSeq(text, 1, i - 1) \o SubSeq(text, (i + 1) + 1, n)
  <2>1. /\ s \in Seq(Token) /\ Len(s) = i - 1 + (n - (i + 1))
        /\ \A k \in 1..(i - 1) : s[k] = text[k]
        /\ \A k \in (i - 1 + 1)..Len(s) : s[k] = text[k - (i - 1) + (i + 1)]
    BY <1>1, CutOut
  <2>2. s = r
    <3>1. (i + 1) + 1 = i + 2
      BY <1>1
    <3> QED BY <3>1
  <2> HIDE DEF s, r
  <2>3. Len(s) = n - 2 /\ Len(s) \in Int /\ i - 1 + 1 = i
    BY <1>1, <2>1
  <2>4. ASSUME NEW k \in i..Len(s) PROVE s[k] = text[k + 2]
    <3>1. k - (i - 1) + (i + 1) = k + 2
      BY <1>1, <2>3
    <3> QED BY <2>1, <2>3, <3>1
  <2> QED BY <2>1, <2>2, <2>3, <2>4
<1> HIDE DEF r
<1>3. DOMAIN r = 1..(n - 2) /\ text[i] \notin {"BEGIN", "END", "NL", "v1", "v2"}
  BY <1>1, <1>2, Domains, NotOwn
<1>4. ASSUME NEW k \in DOMAIN r
      PROVE  \/ k \in 1..(i - 1) /\ k \in DOMAIN text /\ r[k] = text[k]
             \/ k >= i /\ k + 2 \in DOMAIN text /\ r[k] = text[k + 2]
  <2>1. \/ k \in 1..(i - 1) /\ k \in DOMAIN text
        \/ k \in i..Len(r) /\ k >= i /\ k + 2 \in DOMAIN text
    BY <1>1, <1>2, <1>3
  <2> QED BY <1>2, <2>1
<1>5. ASSUME Plain(text) PROVE Shape(r)
  <2>1. Plain(r)
    BY <1>4, <1>5 DEF Plain
  <2> QED BY <2>1 DEF Shape
<1>6. ASSUME NEW b \in Nat, Whole(text, b) PROVE Shape(r)
  <2>1. /\ b \in 1..n /\ b + 3 <= n
        /\ text[b] = "BEGIN" /\ text[b + 1] \in {"v1", "v2"}
        /\ text[b + 2] = "END" /\ text[b + 3] = "NL"
        /\ b > 1 => text[b - 1] = "NL"
    BY <1>6 DEF Whole
  <2>2. i \notin {b, b + 1, b + 2, b + 3} /\ i + 1 # b
    BY <1>3, <2>1
  <2>3. CASE i < b
    <3> DEFINE c == b - 2
    <3>1. /\ c \in Nat /\ c \in 1..Len(r) /\ c + 3 <= Len(r)
          /\ c \in i..Len(r) /\ c + 1 \in i..Len(r)
          /\ c + 2 \in i..Len(r) /\ c + 3 \in i..Len(r)
          /\ c + 1 + 2 = b + 1 /\ c + 2 + 2 = b + 2 /\ c + 3 + 2 = b + 3 /\ c + 2 = b
      BY <1>1, <1>2, <2>1, <2>2, <2>3
    <3>2. r[c] = "BEGIN" /\ r[c + 1] \in {"v1", "v2"} /\ r[c + 2] = "END" /\ r[c + 3] = "NL"
      BY <1>2, <2>1, <3>1
    <3>3. ASSUME c > 1 PROVE r[c - 1] = "NL"
      <4>1. CASE i = c
        <5>1. c - 1 \in 1..(i - 1) /\ i > 1 /\ c - 1 = i - 1
          BY <1>1, <3>1, <3>3, <4>1
        <5> QED BY <1>2, <5>1
      <4>2. CASE i # c
        <5>1. c - 1 \in i..Len(r) /\ c - 1 + 2 = b - 1 /\ b > 1
          BY <1>1, <1>2, <2>1, <3>1, <3>3, <4>2, SMTT(60)
        <5> QED BY <1>2, <2>1, <5>1
      <4> QED BY <4>1, <4>2
    <3>4. ASSUME NEW k \in DOMAIN r, k \notin {c, c + 2}
          PROVE  r[k] \notin {"BEGIN", "END"}
      <4>1. CASE k \in 1..(i - 1) /\ k \in DOMAIN text /\ r[k] = text[k]
        <5>1. k \notin {b, b + 2}
          BY <1>1, <2>1, <2>3, <4>1
        <5> QED BY <1>6, <4>1, <5>1 DEF Whole
      <4>2. CASE k >= i /\ k + 2 \in DOMAIN text /\ r[k] = text[k + 2]
        <5>1. k \in Nat
          BY <1>1, <1>3
        <5>2. k + 2 \notin {b, b + 2}
          BY <2>1, <3>4, <5>1
        <5> QED BY <1>6, <4>2, <5>2 DEF Whole
      <4> QED BY <1>4, <4>1, <4>2
    <3> HIDE DEF c
    <3>5. Whole(r, c)
      BY <3>1, <3>2, <3>3, <3>4 DEF Whole
    <3> QED BY <3>1, <3>5 DEF Shape
  <2>4. CASE ~(i < b)
    <3>1. /\ b \in 1..Len(r) /\ b + 3 <= Len(r) /\ i > b + 3
          /\ b \in 1..(i - 1) /\ b + 1 \in 1..(i - 1)
          /\ b + 2 \in 1..(i - 1) /\ b + 3 \in 1..(i - 1)
          /\ b > 1 => b - 1 \in 1..(i - 1)
      BY <1>1, <1>2, <2>1, <2>2, <2>4
    <3>2. /\ r[b] = "BEGIN" /\ r[b + 1] \in {"v1", "v2"}
          /\ r[b + 2] = "END" /\ r[b + 3] = "NL"
          /\ b > 1 => r[b - 1] = "NL"
      BY <1>2, <2>1, <3>1
    <3>3. ASSUME NEW k \in DOMAIN r, k \notin {b, b + 2}
          PROVE  r[k] \notin {"BEGIN", "END"}
      <4>1. CASE k \in 1..(i - 1) /\ k \in DOMAIN text /\ r[k] = text[k]
        BY <1>6, <3>3, <4>1 DEF Whole
      <4>2. CASE k >= i /\ k + 2 \in DOMAIN text /\ r[k] = text[k + 2]
        <5>1. k \in Nat
          BY <1>1, <1>3
        <5>2. k + 2 \notin {b, b + 2}
          BY <1>1, <2>1, <3>1, <4>2, <5>1, SMTT(60)
        <5> QED BY <1>6, <4>2, <5>2 DEF Whole
      <4> QED BY <1>4, <4>1, <4>2
    <3>4. Whole(r, b)
      BY <3>1, <3>2, <3>3 DEF Whole
    <3> QED BY <3>4 DEF Shape
  <2> QED BY <2>3, <2>4
<1>7. Closed(r)
  <2> SUFFICES ASSUME NEW e \in DOMAIN r, r[e] = "END"
               PROVE  /\ \A k \in DOMAIN r : r[k] = "END" => k = e
                      /\ \A k \in DOMAIN r : r[k] = "BEGIN" => k < e
                      /\ \E k \in DOMAIN r : r[k] = "BEGIN"
    BY DEF Closed
  <2>1. PICK d \in DOMAIN text : text[d] = "END" /\ e = (IF d < i THEN d ELSE d - 2)
    BY <1>1, <1>3, <1>4, SMTT(60)
  <2>2. /\ \A k \in DOMAIN text : text[k] = "END" => k = d
        /\ \A k \in DOMAIN text : text[k] = "BEGIN" => k < d
    BY <2>1 DEF Closed
  <2>3. ASSUME NEW k \in DOMAIN r, r[k] \in {"BEGIN", "END"}
        PROVE  \E j \in DOMAIN text : text[j] = r[k] /\ k = (IF j < i THEN j ELSE j - 2)
    BY <1>1, <1>3, <1>4, <2>3, SMTT(60)
  <2>4. ASSUME NEW k \in DOMAIN r, r[k] = "END" PROVE k = e
    <3>1. PICK j \in DOMAIN text : text[j] = r[k] /\ k = (IF j < i THEN j ELSE j - 2)
      BY <2>3, <2>4
    <3> QED BY <1>1, <2>1, <2>2, <2>4, <3>1
  <2>5. ASSUME NEW k \in DOMAIN r, r[k] = "BEGIN" PROVE k < e
    <3>1. PICK j \in DOMAIN text : text[j] = r[k] /\ k = (IF j < i THEN j ELSE j - 2)
      BY <2>3, <2>5
    <3>2. j < d
      BY <2>2, <2>5, <3>1
    <3> QED BY <1>1, <1>3, <2>1, <3>1, <3>2
  <2>6. \E k \in DOMAIN r : r[k] = "BEGIN"
    <3>1. PICK j \in DOMAIN text : text[j] = "BEGIN"
      BY <2>1 DEF Closed
    <3>2. j # i /\ j # i + 1
      BY <1>3, <3>1
    <3>3. CASE j < i
      <4>1. j \in 1..(i - 1) /\ j \in 1..(n - 2)
        BY <1>1, <3>3
      <4>2. r[j] = "BEGIN"
        BY <1>2, <3>1, <4>1
      <4> QED BY <1>3, <4>1, <4>2
    <3>4. CASE ~(j < i)
      <4>1. j - 2 \in i..Len(r) /\ j - 2 \in DOMAIN r /\ (j - 2) + 2 = j
        BY <1>1, <1>2, <1>3, <3>2, <3>4
      <4>2. r[j - 2] = "BEGIN"
        BY <1>2, <3>1, <4>1
      <4> QED BY <4>1, <4>2
    <3> QED BY <3>3, <3>4
  <2> QED BY <2>4, <2>5, <2>6
<1> QED BY <1>2, <1>5, <1>6, <1>7 DEF Shape, r

-----------------------------------------------------------------------------
(* What the file holds, and what a command is about to write into it; and  *)
(* that the last install has put its block under the text it found.        *)
Texts ==
  /\ file \in File /\ (file.there \/ file.text = <<>>)
  /\ Closed(file.text)
  /\ cmd.text \in Seq(Token)
  /\ cmd.step = "writing" =>
       /\ file.there /\ file.text \in Torn(cmd.text)
       /\ cmd.text # <<>> /\ Closed(cmd.text)
Origins ==
  \A f \in origin :
    /\ f \in File /\ (f.there \/ f.text = <<>>)
    /\ Plain(f.text)
    /\ Installed(Shown.text) => \E v \in {"v1", "v2"} : Shown.text = Under(f.text, v)
Machine ==
  /\ vault \in {"listed", "unlisted", "none"} /\ keys \subseteq Id /\ spared \in BOOLEAN
  /\ tears \in 0..MaxTears
FInv == Texts /\ Origins /\ Machine

(* What no step may do to the file, whatever the command.                  *)
Stands == Shape(Shown.text) => Shape(Shown'.text) \/ Kill
Restores ==
  Installed(Shown.text) /\ ~Installed(Shown'.text)
    => \A f \in origin' : Shown' = Restored(f)
KeepsLines ==
  ~KeepsOwn(Shown.text, Shown'.text)
    => UserEdit \/ Kill \/ Joins(Shown.text) \/ Encloses(Shown.text)
StepOK == FInv' /\ Stands /\ Restores /\ KeepsLines

LEMMA FileFacts ==
  /\ Absent \in File /\ ~Absent.there /\ Absent.text = <<>>
  /\ <<>> \in Seq(Token) /\ Shape(<<>>) /\ Closed(<<>>) /\ ~Installed(<<>>)
  /\ OnlyShebang(<<>>) /\ OnlyShebang(<<Shebang>>)
  /\ \A text \in Seq(Token) : /\ FileOf(text) \in File /\ FileOf(text).there
                              /\ FileOf(text).text = text
  /\ \A f \in File : f.text \in Seq(Token) /\ (f.there => f = FileOf(f.text))
<1>1. <<>> \in Seq(Token)
  OBVIOUS
<1>2. Shape(<<>>) /\ ~Installed(<<>>) /\ OnlyShebang(<<>>) /\ Closed(<<>>)
  BY DEF Shape, Plain, Installed, Contains, OnlyShebang, Closed
<1>3. OnlyShebang(<<Shebang>>)
  BY DEF OnlyShebang
<1>4. Absent \in File /\ ~Absent.there /\ Absent.text = <<>>
  BY <1>1 DEF Absent, File
<1>5. \A text \in Seq(Token) : /\ FileOf(text) \in File /\ FileOf(text).there
                               /\ FileOf(text).text = text
  BY DEF FileOf, File
<1>6. \A f \in File : f.text \in Seq(Token) /\ (f.there => f = FileOf(f.text))
  BY DEF FileOf, File
<1> QED BY <1>1, <1>2, <1>3, <1>4, <1>5, <1>6

(* A step after which the file will be what it would have been.            *)
LEMMA FileUntouched ==
  ASSUME FInv, Shown' = Shown, origin' = origin,
         Texts', Machine'
  PROVE  StepOK
<1>1. Origins'
  BY DEF FInv, Origins
<1>2. Shown.text \in Seq(Token)
  BY FileFacts DEF FInv, Texts, Shown
<1>3. KeepsLines
  BY <1>2, KeepsItself DEF KeepsLines
<1> QED BY <1>1, <1>3 DEF StepOK, FInv, Stands, Restores

LEMMA FileAlone ==
  ASSUME FInv, file' = file, origin' = origin,
         cmd.step # "writing", cmd'.step # "writing", cmd'.text \in Seq(Token),
         Machine'
  PROVE  StepOK
<1>1. Shown' = Shown
  BY DEF Shown
<1>2. Texts'
  BY DEF FInv, Texts
<1> QED BY <1>1, <1>2, FileUntouched

LEMMA AfterIs ==
  ASSUME NEW op PROVE After(op).step # "writing" /\ After(op).text = <<>>
<1>1. CASE op = "uninstall"
  BY <1>1 DEF After, Running
<1>2. CASE op = "uninstall_keys"
  BY <1>2 DEF After, Running
<1>3. CASE op \notin {"uninstall", "uninstall_keys"}
  BY <1>3 DEF After, Idle, Running
<1> QED BY <1>1, <1>2, <1>3

(* What a command strips is the text without its block, if it has one.     *)
LEMMA StripFile ==
  ASSUME Texts
  PROVE  LET s == StripCifraBlock(file.text)
         IN /\ file.text \in Seq(Token) /\ s \in Seq(Token)
            /\ ~Contains(s, "END") /\ Closed(s)
            /\ Shape(file.text) => Plain(s)
            /\ ~Joins(file.text) /\ ~Encloses(file.text) => KeepsOwn(file.text, s)
<1> DEFINE s == StripCifraBlock(file.text)
<1>1. file.text \in Seq(Token) /\ Closed(file.text)
  BY FileFacts DEF Texts
<1>2. CASE HasBlock(file.text)
  <2>1. s \in Seq(Token)
    BY <1>1, <1>2, StripIs
  <2>2. Plain(s)
    BY <1>1, <1>2, StripClears
  <2> HIDE DEF s
  <2>3. ~Contains(s, "END") /\ Closed(s)
    BY <2>2 DEF Plain, Contains, Closed
  <2> QED BY <1>1, <2>1, <2>2, <2>3, StripKeeps DEF s
<1>3. CASE ~HasBlock(file.text)
  <2>1. s = file.text
    BY <1>3 DEF StripCifraBlock
  <2>2. ~Contains(file.text, "END")
    BY <1>1, <1>3, ClosedHasBlock
  <2>3. Shape(file.text) => Plain(s)
    BY <1>1, ShapeClosed
  <2> HIDE DEF s
  <2> QED BY <1>1, <2>1, <2>2, <2>3, KeepsItself DEF s
<1> QED BY <1>2, <1>3

(* The file as the last install found it is what its block comes off to.   *)
LEMMA OriginIs ==
  ASSUME Origins, Shown = file, Installed(file.text), NEW f \in origin
  PROVE  /\ f \in File /\ (f.there \/ f.text = <<>>) /\ Plain(f.text)
         /\ StripCifraBlock(file.text) = IF f.text = <<>> THEN <<Shebang>> ELSE f.text
         /\ WithBlock(StripCifraBlock(file.text)) = WithBlock(f.text)
<1>1. /\ f \in File /\ (f.there \/ f.text = <<>>) /\ Plain(f.text)
      /\ f.text \in Seq(Token)
  BY FileFacts DEF Origins
<1>2. PICK v \in {"v1", "v2"} : file.text = Under(f.text, v)
  BY DEF Origins
<1>3. StripCifraBlock(file.text) = IF f.text = <<>> THEN <<Shebang>> ELSE f.text
  BY <1>1, <1>2, UnderIs
<1>4. WithBlock(StripCifraBlock(file.text)) = WithBlock(f.text)
  BY <1>3, FirstBlock DEF WithBlock
<1> QED BY <1>1, <1>3, <1>4

(* InstallGitHook: over nothing, over the user's text, over an old block.  *)
LEMMA InstallStep ==
  ASSUME FInv, InstallGitHook
  PROVE  StepOK
<1> DEFINE s == StripCifraBlock(file.text)
           w == WithBlock(s)
<1>1. /\ cmd.step = "idle" /\ tears' = tears
      /\ file' = FileOf(<<>>) /\ vault' = vault /\ keys' = keys /\ spared' = spared
      /\ cmd' = Running("writing", "install", w)
      /\ origin' = IF Installed(file.text) THEN origin ELSE {file}
  BY DEF InstallGitHook, StartWrite
<1>2. /\ file \in File /\ (file.there \/ file.text = <<>>)
      /\ file.text \in Seq(Token) /\ Shown = file /\ Closed(file.text)
  BY <1>1, FileFacts DEF FInv, Texts, Shown
<1>3. /\ s \in Seq(Token) /\ ~Contains(s, "END")
      /\ Shape(file.text) => Plain(s)
      /\ ~Joins(file.text) /\ ~Encloses(file.text) => KeepsOwn(file.text, s)
  BY StripFile DEF FInv
<1>4. /\ w \in Seq(Token) /\ w # <<>> /\ Closed(w) /\ Installed(w) /\ KeepsOwn(s, w)
      /\ Plain(s) => Shape(w)
  <2> HIDE DEF s
  <2> QED BY <1>3, UnderIs DEF WithBlock
<1>5. cmd'.step = "writing" /\ cmd'.text = w
  BY <1>1 DEF Running
<1>6. Shown' = FileOf(w) /\ Shown'.text = w
  BY <1>4, <1>5, FileFacts DEF Shown
<1>7. Texts'
  <2>1. <<>> \in Torn(w)
    BY <1>4, EmptyTorn
  <2> QED BY <1>1, <1>4, <1>5, <2>1, FileFacts DEF Texts
<1>8. Origins'
  <2>1. CASE Installed(file.text)
    <3>1. ASSUME NEW f \in origin
          PROVE  f \in File /\ (f.there \/ f.text = <<>>) /\ Plain(f.text)
                 /\ w = Under(f.text, "v2")
      BY <1>2, <2>1, OriginIs DEF FInv, WithBlock
    <3> QED BY <1>1, <1>6, <2>1, <3>1 DEF Origins
  <2>2. CASE ~Installed(file.text)
    <3>1. Plain(file.text)
      BY <1>2, <2>2 DEF Closed, Plain, Installed, Contains
    <3>2. ~HasBlock(file.text)
      BY <2>2 DEF HasBlock, Installed
    <3>3. w = Under(file.text, "v2")
      BY <3>2 DEF StripCifraBlock, WithBlock
    <3>4. origin' = {file}
      BY <1>1, <2>2
    <3> QED BY <1>2, <1>6, <3>1, <3>3, <3>4 DEF Origins
  <2> QED BY <2>1, <2>2
<1> HIDE DEF s, w
<1>9. KeepsLines
  <2>1. ~Joins(file.text) /\ ~Encloses(file.text) => KeepsOwn(file.text, w)
    BY <1>2, <1>3, <1>4, KeepsOnward
  <2> QED BY <1>2, <1>6, <2>1 DEF KeepsLines
<1>10. Stands /\ Restores /\ Machine'
  BY <1>1, <1>2, <1>3, <1>4, <1>6 DEF Stands, Restores, FInv, Machine
<1> QED BY <1>7, <1>8, <1>9, <1>10 DEF StepOK, FInv

(* UninstallGitHook: the file goes, or what is left of it is written back. *)
LEMMA UnhookStep ==
  ASSUME FInv, NEW op, cmd.step = "idle", UninstallGitHook(op),
         origin' = origin, spared' = spared, tears' = tears
  PROVE  StepOK
<1> DEFINE s == StripCifraBlock(file.text)
<1>1. /\ file \in File /\ (file.there \/ file.text = <<>>)
      /\ file.text \in Seq(Token) /\ Shown = file
  BY FileFacts DEF FInv, Texts, Shown
<1>2. /\ s \in Seq(Token) /\ Closed(s)
      /\ Shape(file.text) => Plain(s)
      /\ ~Joins(file.text) /\ ~Encloses(file.text) => KeepsOwn(file.text, s)
  BY StripFile DEF FInv
<1>4. ASSUME NEW f \in origin, Installed(file.text)
      PROVE  /\ s = IF f.text = <<>> THEN <<Shebang>> ELSE f.text
             /\ f \in File /\ (f.there \/ f.text = <<>>) /\ Plain(f.text)
  BY <1>1, <1>4, OriginIs DEF FInv
<1>5. \A f \in origin : Installed(s) => ~Installed(file.text)
  <2> SUFFICES ASSUME NEW f \in origin, Installed(file.text) PROVE ~Installed(s)
    OBVIOUS
  <2>1. f.text = <<>> \/ s = f.text
    BY <1>4
  <2>2. CASE f.text = <<>>
    <3>1. s = <<Shebang>>
      BY <1>4, <2>2
    <3> QED BY <3>1 DEF Installed, Contains, Shebang
  <2>3. CASE s = f.text
    BY <1>4, <2>3 DEF Plain, Installed, Contains
  <2> QED BY <2>1, <2>2, <2>3
<1>6. CASE OnlyShebang(s)
  <2>1. file' = Absent /\ cmd' = After(op) /\ vault' = vault /\ keys' = keys
    BY <1>6 DEF UninstallGitHook
  <2> HIDE DEF s
  <2>2. cmd'.step # "writing" /\ cmd'.text = <<>>
    BY <2>1, AfterIs
  <2>3. Shown' = Absent /\ Shown'.text = <<>>
    BY <2>1, <2>2, FileFacts DEF Shown
  <2>4. Texts' /\ Origins' /\ Machine'
    <3>1. Texts'
      BY <2>1, <2>2, FileFacts DEF Texts
    <3>2. Origins'
      BY <2>3, FileFacts DEF Origins, FInv
    <3>3. Machine'
      BY <2>1 DEF FInv, Machine
    <3> QED BY <3>1, <3>2, <3>3
  <2>5. Restores
    <3> SUFFICES ASSUME Installed(file.text), NEW f \in origin
                 PROVE  Restored(f) = Absent
      BY <1>1, <2>3 DEF Restores
    <3>1. OnlyShebang(f.text)
      BY <1>4, <1>6, FileFacts
    <3> QED BY <3>1 DEF Restored
  <2>6. KeepsLines
    <3>1. ASSUME NEW i \in OwnAt(s) PROVE FALSE
      <4>1. i \in DOMAIN s /\ s[i] \in Line
        BY DEF OwnAt
      <4>2. s[i] # "NL" /\ s[i] # Shebang
        BY <4>1, NotOwn
      <4> QED BY <1>6, <4>1, <4>2 DEF OnlyShebang
    <3>2. OwnAt(s) = {} /\ OwnAt(<<>>) = {}
      BY <3>1 DEF OwnAt
    <3>3. KeepsOwn(s, <<>>)
      BY <1>2, <3>2, NothingToKeep, FileFacts
    <3>4. ~Joins(file.text) /\ ~Encloses(file.text) => KeepsOwn(file.text, <<>>)
      BY <1>1, <1>2, <3>3, KeepsOnward, FileFacts
    <3> QED BY <1>1, <2>3, <3>4 DEF KeepsLines
  <2>7. Stands
    BY <2>3, FileFacts DEF Stands
  <2> QED BY <2>4, <2>5, <2>6, <2>7 DEF StepOK, FInv
<1>7. CASE ~OnlyShebang(s)
  <2>1. /\ file' = FileOf(<<>>) /\ vault' = vault /\ keys' = keys
        /\ cmd' = Running("writing", op, s)
    BY <1>7 DEF UninstallGitHook, StartWrite
  <2> HIDE DEF s
  <2>2. cmd'.step = "writing" /\ cmd'.text = s
    BY <2>1 DEF Running
  <2>3. Shown' = FileOf(s) /\ Shown'.text = s
    BY <1>2, <2>2, FileFacts DEF Shown
  <2>4. s # <<>> /\ <<>> \in Torn(s)
    BY <1>2, <1>7, EmptyTorn, FileFacts
  <2>5. Texts' /\ Origins' /\ Machine'
    <3>1. Texts'
      BY <1>2, <2>1, <2>2, <2>4, FileFacts DEF Texts
    <3>2. Origins'
      <4>1. ASSUME NEW f \in origin, Installed(s)
            PROVE  \E v \in {"v1", "v2"} : s = Under(f.text, v)
        <5>1. ~Installed(file.text)
          BY <1>5, <4>1
        <5>2. s = file.text
          BY <5>1 DEF s, StripCifraBlock, HasBlock, Installed
        <5> QED BY <4>1, <5>1, <5>2
      <4> QED BY <2>3, <4>1 DEF Origins, FInv
    <3>3. Machine'
      BY <2>1 DEF FInv, Machine
    <3> QED BY <3>1, <3>2, <3>3
  <2>6. Restores
    <3> SUFFICES ASSUME Installed(file.text), NEW f \in origin
                 PROVE  FileOf(s) = Restored(f)
      BY <1>1, <2>3 DEF Restores
    <3>1. f.text # <<>> /\ s = f.text /\ f.there /\ f \in File
      BY <1>4, <1>7, FileFacts
    <3>2. ~OnlyShebang(f.text) /\ f = FileOf(f.text)
      BY <1>7, <3>1, FileFacts
    <3> QED BY <3>1, <3>2 DEF Restored
  <2>7. KeepsLines
    BY <1>1, <1>2, <2>3 DEF KeepsLines
  <2>8. Stands
    BY <1>1, <1>2, <2>3 DEF Stands, Shape
  <2> QED BY <2>5, <2>6, <2>7, <2>8 DEF StepOK, FInv
<1> QED BY <1>6, <1>7

(* A write gets some of the text down, or all of it.                       *)
LEMMA WriteSomeStep ==
  ASSUME FInv, WriteSome
  PROVE  StepOK
<1>1. /\ cmd.step = "writing" /\ cmd' = cmd /\ vault' = vault /\ keys' = keys
      /\ spared' = spared /\ origin' = origin /\ tears' = tears + 1 /\ tears < MaxTears
  BY DEF WriteSome
<1>2. PICK text \in Torn(cmd.text) : file' = FileOf(text)
  BY DEF WriteSome
<1>3. cmd.text \in Seq(Token) /\ Closed(cmd.text)
  BY <1>1 DEF FInv, Texts
<1>4. text \in Seq(Token) /\ Closed(text)
  BY <1>3, TornOK
<1>5. Texts'
  BY <1>1, <1>2, <1>4, FileFacts DEF FInv, Texts
<1>6. Machine'
  BY <1>1, UninstallAssumption DEF FInv, Machine, UninstallAssumption
<1>7. Shown' = Shown
  BY <1>1 DEF Shown
<1> QED BY <1>1, <1>5, <1>6, <1>7, FileUntouched

LEMMA WriteStep ==
  ASSUME FInv, Write
  PROVE  StepOK
<1>1. /\ cmd.step = "writing" /\ file' = FileOf(cmd.text) /\ cmd' = After(cmd.op)
      /\ vault' = vault /\ keys' = keys /\ spared' = spared /\ origin' = origin
      /\ tears' = tears
  BY DEF Write
<1>2. cmd'.step # "writing" /\ cmd'.text = <<>>
  BY <1>1, AfterIs
<1>3. Shown' = Shown
  BY <1>1, <1>2 DEF Shown
<1>4. Texts'
  <2>1. cmd.text \in Seq(Token) /\ Closed(cmd.text)
    BY <1>1 DEF FInv, Texts
  <2> QED BY <1>1, <1>2, <2>1, FileFacts DEF Texts
<1>5. Machine'
  BY <1>1 DEF FInv, Machine
<1> QED BY <1>1, <1>3, <1>4, <1>5, FileUntouched

(* Killed while it writes, a command leaves what it has written, and then  *)
(* nothing is claimed of what the file was.                                *)
LEMMA KillStep ==
  ASSUME FInv, Kill
  PROVE  StepOK
<1>1. /\ cmd.step # "idle" /\ cmd' = Idle /\ file' = file /\ vault' = vault /\ keys' = keys
      /\ origin' = (IF cmd.step = "writing" THEN {} ELSE origin) /\ spared' = spared
      /\ tears' = tears
  BY DEF Kill, disk
<1>2. cmd'.step # "writing" /\ cmd'.text = <<>>
  BY <1>1 DEF Idle, Running
<1>3. Texts' /\ Machine'
  BY <1>1, <1>2, FileFacts DEF FInv, Texts, Machine
<1>4. CASE cmd.step = "writing"
  BY <1>1, <1>3, <1>4 DEF StepOK, FInv, Origins, Stands, Restores, KeepsLines
<1>5. CASE cmd.step # "writing"
  BY <1>1, <1>2, <1>3, <1>5, FileAlone, FileFacts
<1> QED BY <1>4, <1>5

LEMMA EditStep ==
  ASSUME FInv, UserEdit
  PROVE  StepOK
<1>1. file.text \in Seq(Token) /\ Closed(file.text) /\ cmd.step = "idle" /\ Shown = file
  BY FileFacts DEF FInv, Texts, UserEdit, Shown
<1>2. PICK text \in Seq(Token) :
        Closed(text) /\ (Shape(file.text) => Shape(text)) /\ Edited(text)
  <2>1. CASE InsertLine
    BY <1>1, <2>1, InsertOK DEF InsertLine
  <2>2. CASE DeleteLine
    BY <1>1, <2>2, DeleteOK DEF DeleteLine
  <2> QED BY <2>1, <2>2 DEF UserEdit
<1>3. /\ file' = FileOf(text) /\ origin' = {} /\ cmd' = cmd
      /\ vault' = vault /\ keys' = keys /\ spared' = spared /\ tears' = tears
  BY <1>2 DEF Edited
<1>4. Texts'
  BY <1>1, <1>2, <1>3, FileFacts DEF FInv, Texts
<1>5. Stands
  <2>1. Shown' = FileOf(text) /\ Shown'.text = text
    BY <1>1, <1>3, FileFacts DEF Shown
  <2> QED BY <1>1, <1>2, <2>1 DEF Stands
<1> QED BY <1>3, <1>4, <1>5 DEF StepOK, FInv, Origins, Machine, Restores, KeepsLines

LEMMA FileInit == Init => FInv /\ Shape(Shown.text)
<1> SUFFICES ASSUME Init PROVE FInv /\ Shape(Shown.text)
  OBVIOUS
<1>1. /\ cmd.step = "idle" /\ cmd.text = <<>> /\ tears = 0
      /\ vault = "none" /\ keys = {} /\ spared = FALSE
  BY DEF Init, Idle, Running
<1>2. PICK l \in Line : \E f \in {Absent, FileOf(<<Shebang, "NL">>), FileOf(<<Shebang, "NL", l>>)} :
        \/ file = f /\ origin = {}
        \/ file = FileOf(Under(f.text, "v1")) /\ origin = {f}
  BY DEF Init
<1>3. PICK f \in {Absent, FileOf(<<Shebang, "NL">>), FileOf(<<Shebang, "NL", l>>)} :
        \/ file = f /\ origin = {}
        \/ file = FileOf(Under(f.text, "v1")) /\ origin = {f}
  BY <1>2
<1>4. f \in File /\ (f.there \/ f.text = <<>>) /\ Plain(f.text)
  <2>1. CASE f = Absent
    BY <2>1, FileFacts DEF Plain
  <2>2. CASE f = FileOf(<<Shebang, "NL">>)
    <3>1. <<Shebang, "NL">> \in Seq(Token)
      BY DEF Token
    <3>2. Plain(<<Shebang, "NL">>)
      BY DEF Plain, Shebang
    <3> QED BY <2>2, <3>1, <3>2, FileFacts
  <2>3. CASE f = FileOf(<<Shebang, "NL", l>>)
    <3>1. <<Shebang, "NL", l>> \in Seq(Token) /\ l \notin {"BEGIN", "END"}
      BY NotOwn DEF Token
    <3>2. Plain(<<Shebang, "NL", l>>)
      BY <3>1 DEF Plain, Shebang
    <3> QED BY <2>3, <3>1, <3>2, FileFacts
  <2> QED BY <1>3, <2>1, <2>2, <2>3
<1>5. /\ f.text \in Seq(Token) /\ Closed(f.text) /\ Shape(f.text)
      /\ Under(f.text, "v1") \in Seq(Token) /\ Closed(Under(f.text, "v1"))
      /\ Shape(Under(f.text, "v1"))
  <2>1. f.text \in Seq(Token)
    BY <1>4, FileFacts
  <2>2. Under(f.text, "v1") \in Seq(Token) /\ Shape(Under(f.text, "v1"))
    BY <1>4, <2>1, UnderIs
  <2> QED BY <1>4, <2>1, <2>2, ShapeClosed DEF Shape
<1>6. /\ file \in File /\ (file.there \/ file.text = <<>>) /\ Closed(file.text)
      /\ Shape(file.text) /\ Shown = file
  BY <1>1, <1>3, <1>4, <1>5, FileFacts DEF Shown
<1>7. Origins
  <2>1. CASE origin = {}
    BY <2>1 DEF Origins
  <2>2. CASE file = FileOf(Under(f.text, "v1")) /\ origin = {f}
    <3>1. Shown.text = Under(f.text, "v1")
      BY <1>5, <1>6, <2>2, FileFacts
    <3> QED BY <1>4, <2>2, <3>1 DEF Origins
  <2> QED BY <1>3, <2>1, <2>2
<1>8. Machine
  <2>1. 0 \in 0..MaxTears
    BY UninstallAssumption DEF UninstallAssumption
  <2>2. spared \in BOOLEAN /\ keys \subseteq Id
    BY <1>1, Zenon
  <2>3. vault \in {"listed", "unlisted", "none"}
    BY <1>1, Zenon
  <2>4. KeysGoFirst
    BY <1>1, Zenon DEF KeysGoFirst
  <2> QED BY <1>1, <2>1, <2>2, <2>3, <2>4 DEF Machine
<1> QED BY <1>1, <1>6, <1>7, <1>8, FileFacts DEF FInv, Texts

LEMMA FileNext == HInv /\ HInv' /\ FInv /\ [Next]_vars => StepOK
<1> SUFFICES ASSUME HInv, HInv', FInv, [Next]_vars PROVE StepOK
  OBVIOUS
<1>1. CmdOK /\ CmdOK'
  BY DEF HInv
<1>2. Texts /\ Machine /\ cmd.text \in Seq(Token)
  BY DEF FInv, Texts
<1>3. CASE UNCHANGED vars
  <2>1. file' = file /\ cmd' = cmd /\ vault' = vault /\ keys' = keys
        /\ spared' = spared /\ origin' = origin /\ tears' = tears
    BY <1>3 DEF vars, disk
  <2>2. Shown' = Shown /\ Texts' /\ Machine'
    BY <1>2, <2>1 DEF Shown, Texts, Machine
  <2> QED BY <2>1, <2>2, FileUntouched
<1>4. CASE InstallGitHook
  BY <1>4, InstallStep
<1>5. CASE Unhook
  BY <1>5, UnhookStep DEF Unhook
<1>6. CASE Write
  BY <1>6, WriteStep
<1>7. ASSUME NEW op \in {"uninstall", "uninstall_keys"}, Uninstall(op)
      PROVE  StepOK
  <2>1. cmd.step = "idle" /\ spared' = spared /\ origin' = origin /\ tears' = tears
    BY <1>7 DEF Uninstall
  <2>2. CASE UninstallGitHook(op)
    BY <2>1, <2>2, UnhookStep
  <2>3. CASE cmd' = After(op) /\ UNCHANGED disk
    <3>1. Machine' /\ file' = file
      BY <1>2, <2>1, <2>3 DEF disk, Machine
    <3>2. cmd'.step # "writing" /\ cmd'.text \in Seq(Token)
      BY <2>3, AfterIs, FileFacts
    <3> QED BY <2>1, <3>1, <3>2, FileAlone
  <2> QED BY <1>7, <2>2, <2>3 DEF Uninstall
<1>8. VaultNext.step = "vault" /\ VaultNext.text = cmd.text
  BY <1>1 DEF CmdOK, VaultNext
<1>9. CASE RemoveKey
  <2>1. PICK failing \in BOOLEAN : RemoveKeyStep(failing)
    BY <1>9 DEF RemoveKey
  <2>2. cmd.step = "keys" /\ file' = file /\ vault' = vault /\ origin' = origin
        /\ tears' = tears
    BY <1>9 DEF RemoveKey
  <2>3. keys' \subseteq Id /\ spared' \in BOOLEAN
    BY <1>2, <2>1 DEF RemoveKeyStep, Machine
  <2>4. cmd'.step # "writing" /\ cmd'.text = cmd.text
    <3>1. CASE cmd' = VaultNext
      BY <1>8, <3>1
    <3>2. CASE cmd' = [cmd EXCEPT !.next = cmd.next + 1]
      BY <1>1, <2>2, <3>2 DEF CmdOK
    <3> QED BY <2>1, <3>1, <3>2 DEF RemoveKeyStep
  <2> QED BY <1>2, <2>2, <2>3, <2>4, FileAlone DEF Machine
<1>10. CASE RemoveSome
  <2>1. /\ cmd.step # "writing" /\ cmd' = VaultNext /\ file' = file /\ origin' = origin
        /\ vault' = "unlisted" /\ keys' = keys /\ tears' = tears
        /\ spared' = (spared \/ cmd.op = "uninstall")
    BY <1>10 DEF RemoveSome, KeysDone
  <2>2. Machine'
    BY <1>2, <2>1 DEF Machine
  <2> QED BY <1>2, <1>8, <2>1, <2>2, FileAlone
<1>11. CASE RemoveVault
  <2>1. /\ cmd.step # "writing" /\ cmd' = Idle /\ file' = file /\ origin' = origin
        /\ vault' = "none" /\ keys' = keys /\ tears' = tears
        /\ spared' = (spared \/ cmd.op = "uninstall")
    BY <1>11 DEF RemoveVault, KeysDone
  <2>2. Machine'
    BY <1>2, <2>1 DEF Machine
  <2>3. cmd'.step # "writing" /\ cmd'.text \in Seq(Token)
    BY <2>1, FileFacts DEF Idle, Running
  <2> QED BY <2>1, <2>2, <2>3, FileAlone
<1>12. CASE Kill
  BY <1>12, KillStep
<1>13. CASE SetUp
  <2>1. /\ cmd.step = "idle" /\ cmd' = cmd /\ file' = file /\ origin' = origin
        /\ vault' = "listed" /\ spared' = FALSE /\ tears' = tears
    BY <1>13 DEF SetUp
  <2>2. Machine'
    BY <1>2, <1>13, <2>1 DEF Machine, SetUp
  <2> QED BY <1>2, <2>1, <2>2, FileAlone
<1>14. CASE UserEdit
  BY <1>14, EditStep
<1>15. CASE WriteSome
  BY <1>15, WriteSomeStep
<1> QED
  BY <1>3, <1>4, <1>5, <1>6, <1>7, <1>9, <1>10, <1>11, <1>12, <1>13, <1>14, <1>15
  DEF Next

LEMMA FileSafe == Spec => [](HInv /\ FInv)
<1>2. Init => FInv
  BY FileInit
<1>1. HInv /\ HInv' /\ FInv /\ [Next]_vars => FInv'
  BY FileNext DEF StepOK
<1> QED BY <1>1, <1>2, UninstallSteps, PTL DEF Spec

(* The file, the command that is writing it, the keychain and the vault    *)
(* hold what their types say.                                              *)
THEOREM TypeOKThm == Spec => []TypeOK
<1>1. HInv /\ FInv => TypeOK
  <2> SUFFICES ASSUME HInv, FInv PROVE TypeOK
    OBVIOUS
  <2>1. origin \subseteq File
    BY DEF FInv, Origins
  <2> QED BY <2>1 DEF HInv, CmdOK, FInv, Texts, Machine, TypeOK
<1> QED BY <1>1, FileSafe, PTL

(* What the files say of a block, in the words of the proofs.              *)
LEMMA StandsAloneIs ==
  ASSUME NEW text \in Seq(Token)
  PROVE  StandsAlone(text) <=> Shape(text)
<1>0. DOMAIN text = 1..Len(text) /\ Len(text) \in Nat
  BY Domains
<1>1. CASE Plain(text)
  BY <1>1 DEF Plain, Shape, StandsAlone
<1>2. ASSUME NEW b \in Nat, Whole(text, b) PROVE StandsAlone(text)
  <2>1. b \in DOMAIN text
    BY <1>0, <1>2 DEF Whole
  <2> QED BY <1>2, <2>1 DEF Whole, StandsAlone
<1>3. ASSUME StandsAlone(text), ~Plain(text) PROVE Shape(text)
  <2>1. PICK i \in DOMAIN text : text[i] \in {"BEGIN", "END"}
    BY <1>3 DEF Plain
  <2>2. PICK b \in DOMAIN text :
          /\ b > 1 => text[b - 1] = "NL"
          /\ b + 3 <= Len(text)
          /\ text[b] = "BEGIN" /\ text[b + 1] \in {"v1", "v2"}
          /\ text[b + 2] = "END" /\ text[b + 3] = "NL"
          /\ \A j \in DOMAIN text : text[j] \in {"BEGIN", "END"} => j \in {b, b + 2}
    BY <1>3, <2>1 DEF StandsAlone
  <2>3. Whole(text, b) /\ b \in Nat
    BY <1>0, <2>2 DEF Whole
  <2> QED BY <2>3 DEF Shape
<1> QED BY <1>1, <1>2, <1>3 DEF Shape

LEMMA ShownText == HInv /\ FInv => Shown.text \in Seq(Token) /\ Closed(Shown.text)
BY FileFacts DEF FInv, Texts, Shown

(* git.go keeps its block whole and alone on its lines, whatever is in the *)
(* file and however often it is installed, upgraded and removed: only a    *)
(* write that is cut short leaves anything else.                           *)
THEOREM BlockStandsAloneThm == Spec => BlockStandsAlone
<1>1. Init => StandsAlone(Shown.text)
  <2> SUFFICES ASSUME Init PROVE StandsAlone(Shown.text)
    OBVIOUS
  <2>1. FInv /\ Shape(Shown.text)
    BY FileInit
  <2>2. Shown.text \in Seq(Token)
    BY <2>1, FileFacts DEF FInv, Texts, Shown
  <2> QED BY <2>1, <2>2, StandsAloneIs
<1>2. HInv /\ HInv' /\ FInv /\ FInv' /\ [Next]_vars
        => [StandsAlone(Shown.text) => StandsAlone(Shown'.text) \/ Kill]_vars
  <2> SUFFICES ASSUME HInv, HInv', FInv, FInv', [Next]_vars
               PROVE  StandsAlone(Shown.text) => StandsAlone(Shown'.text) \/ Kill
    OBVIOUS
  <2>1. Stands
    BY FileNext DEF StepOK
  <2>2. Shown.text \in Seq(Token) /\ Shown'.text \in Seq(Token)
    BY FileFacts DEF FInv, Texts, Shown
  <2> QED BY <2>1, <2>2, StandsAloneIs DEF Stands
<1> QED BY <1>1, <1>2, FileSafe, PTL DEF Spec, BlockStandsAlone

(* However often a write of git.go has been cut short and the hook been    *)
(* installed over what was left: a file with an end marker in it is one    *)
(* that stripCifraBlock takes every marker out of.                         *)
THEOREM ComesOffThm == Spec => []ComesOff
<1>1. HInv /\ FInv => ComesOff
  <2> SUFFICES ASSUME HInv, FInv, Contains(Shown.text, "END")
               PROVE  /\ ~Contains(StripCifraBlock(Shown.text), "BEGIN")
                      /\ ~Contains(StripCifraBlock(Shown.text), "END")
    BY DEF ComesOff
  <2>1. Shown.text \in Seq(Token) /\ Closed(Shown.text)
    BY ShownText
  <2>2. Plain(StripCifraBlock(Shown.text))
    BY <2>1, ClosedHasBlock, StripClears
  <2> QED BY <2>2 DEF Plain, Contains
<1> QED BY <1>1, FileSafe, PTL

(* git.go restores the file byte for byte when it takes its block off, its *)
(* own or the one of an earlier release, for every text the user may have  *)
(* had in it.                                                              *)
THEOREM RestoredExactlyThm == Spec => RestoredExactly
<1>1. HInv /\ HInv' /\ FInv /\ [Next]_vars
        => [Installed(Shown.text) /\ ~Installed(Shown'.text)
              => \A f \in origin' : Shown' = Restored(f)]_vars
  BY FileNext DEF StepOK, Restores
<1> QED BY <1>1, FileSafe, PTL DEF Spec, RestoredExactly

(* The user's lines outlive every step of every command, as lines of their *)
(* own and in their order; but for a write that is cut short, a line below *)
(* the block that is run into the one above it, and one written below half *)
(* a block that another was appended to.                                   *)
THEOREM UserLinesKeptThm == Spec => UserLinesKept
<1>1. HInv /\ HInv' /\ FInv /\ [Next]_vars
        => [~KeepsOwn(Shown.text, Shown'.text)
              => UserEdit \/ Kill \/ Joins(Shown.text) \/ Encloses(Shown.text)]_vars
  BY FileNext DEF StepOK, KeepsLines
<1> QED BY <1>1, FileSafe, PTL DEF Spec, UserLinesKept
=============================================================================
