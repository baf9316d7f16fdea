--------------------------- MODULE PrivacyShield ----------------------------
(***************************************************************************)
(* The AI Privacy Shield: the hooks cifra runs before and after each tool  *)
(* call of an AI agent (internal/hook: preuse.go, postuse.go), the file of *)
(* protected patterns they read while `cifra protect` rewrites it in place *)
(* (internal/protect), and the audit log they all append to                *)
(* (internal/audit).  Tool calls made in parallel have their hooks run in  *)
(* parallel, each in a process of its own.                                 *)
(*                                                                         *)
(* Which patterns a call's path, or each word of its command, matches is   *)
(* an input; so is whether its command is a `cifra cat`, `export`, `add`   *)
(* or `set` without --force.  One protect command runs at a time.          *)
(***************************************************************************)
EXTENDS AuditLog, Masking

CONSTANTS Call,        \* the tool calls
          Tool,        \* Tool[c]: "file", "bash" or "other"
          Words,       \* Words[c]: the patterns each word of c matches
          Pattern,     \* the patterns a user may register
          Output,      \* Output[c]: what c's tool may answer
          Names,       \* the env secrets, in the store's order
          Id,          \* recipients
          Recipients,  \* .cifra/recipients, in order
          Wraps,       \* Wraps[n]: the recipients whose keys open secret n
          MaxEdits,    \* bound: protect commands
          MaxFailures  \* bound: appends to the log that fail

ASSUME CallAssumption ==
  /\ Tool \in [Call -> {"file", "bash", "other"}]
  /\ Words \in [Call -> Seq(SUBSET Pattern)]
  /\ \A c \in Call : Output[c] \subseteq Seq(Token)
  /\ Names \in Seq(Secret)
  /\ Recipients \in Seq(Id)
  /\ Wraps \in [Secret -> SUBSET Id]
ASSUME BoundAssumption == MaxEdits \in Nat /\ MaxFailures \in Nat

VARIABLES patterns,    \* .cifra/private-paths, line by line
          edit,        \* the protect command that is running
          edits,       \* protect commands started so far
          log,         \* .cifra/ai-secure.log, line by line
          ragged,      \* the log's last line has no newline
          call,        \* call[c]: how far the hooks of c have got
          registered,  \* history: the patterns protect commands left behind
          spoiled,     \* history: a protect command stopped in mid-write
          failures,    \* appends to the log that failed
          forked       \* history: two appends followed one entry

files   == <<patterns, log, ragged>>
history == <<registered, spoiled, failures, forked>>

torn == failures > 0
vars    == <<files, edit, edits, call, history>>

Listed(list) == {list[i] : i \in DOMAIN list}
Keys == SUBSET Listed(Recipients)

(* op, pattern: the command line; list: what is to be saved; lines: how    *)
(* many lines of it are written.                                           *)
Edit == [step : {"idle", "loaded", "writing"}, op : {"add", "remove"},
         pattern : Pattern, list : Seq(Pattern), lines : Nat]

(* stage: before or after the tool; entries: what the hook has to log;     *)
(* done: how much of it is logged; prev: the hash it chains to; text: what *)
(* the model gets to see; due: history, the call touches what was          *)
(* registered when it was checked; hand: history, the recipients whose     *)
(* keys postuse had at hand.                                               *)
Hook == [step : {"new", "report", "append", "blocked", "run", "shown"},
         stage : {"pre", "post"}, done : Nat, due : BOOLEAN, hand : Keys]
Fresh == [step |-> "new", stage |-> "pre", entries |-> <<>>, done |-> 0,
          prev |-> NoHash, text |-> <<>>, due |-> FALSE, hand |-> {}]

TypeOK ==
  /\ patterns \in Seq(Pattern)
  /\ edit.step # "idle" => edit \in Edit /\ edit.lines <= Len(edit.list)
  /\ edits \in 0..MaxEdits
  /\ ragged \in BOOLEAN /\ (ragged => log # <<>>)
  /\ \A i \in DOMAIN log : log[i] = Garbage \/ log[i] = NewEntry(log[i].what, log[i].prev)
  /\ \A c \in Call :
       /\ [step |-> call[c].step, stage |-> call[c].stage, done |-> call[c].done,
           due |-> call[c].due, hand |-> call[c].hand] \in Hook
       /\ call[c].done <= Len(call[c].entries)
       /\ call[c].step \in {"report", "append"} => call[c].done < Len(call[c].entries)
  /\ registered \subseteq Pattern
  /\ spoiled \in BOOLEAN /\ failures \in 0..MaxFailures /\ forked \in BOOLEAN

NoEdit == [step |-> "idle"]

Init ==
  /\ patterns = <<>> /\ log = <<>> /\ ragged = FALSE
  /\ edit = NoEdit /\ edits = 0
  /\ call = [c \in Call |-> Fresh]
  /\ registered = {}
  /\ spoiled = FALSE /\ failures = 0 /\ forked = FALSE

-----------------------------------------------------------------------------
(* cifra protect add and remove: load the patterns; when there is          *)
(* something to change, truncate the file and write it line by line.       *)
AddPatternAlone(list, p) == <<p>>
AddPattern(list, p) == Append(list, p)
(* The members of keep among the elements of list, in their order.         *)
FilteredUpTo(list, keep) ==
  LET filtered[i \in 0..Len(list)] ==
        IF i = 0 THEN <<>>
        ELSE IF list[i] \in keep THEN Append(filtered[i - 1], list[i])
        ELSE filtered[i - 1]
  IN filtered
Filtered(list, keep) == FilteredUpTo(list, keep)[Len(list)]
RemovePattern(list, p) == Filtered(list, Pattern \ {p})

Load(op, p) ==
  /\ edit.step = "idle"
  /\ edits < MaxEdits
  /\ edits' = edits + 1
  /\ IF (op = "add") = (p \in Listed(patterns))
     THEN UNCHANGED edit
     ELSE edit' = [step |-> "loaded", op |-> op, pattern |-> p, lines |-> 0,
                   list |-> IF op = "add" THEN AddPattern(patterns, p)
                                          ELSE RemovePattern(patterns, p)]
  /\ UNCHANGED <<files, call, history>>

Truncate ==
  /\ edit.step = "loaded"
  /\ patterns' = <<>>
  /\ edit' = [edit EXCEPT !.step = "writing"]
  /\ UNCHANGED <<log, ragged, edits, call, history>>

WriteLine ==
  /\ edit.step = "writing"
  /\ edit.lines < Len(edit.list)
  /\ patterns' = Append(patterns, edit.list[edit.lines + 1])
  /\ edit' = [edit EXCEPT !.lines = @ + 1]
  /\ UNCHANGED <<log, ragged, edits, call, history>>

Saved ==
  /\ edit.step = "writing"
  /\ edit.lines = Len(edit.list)
  /\ edit' = NoEdit
  /\ registered' = IF edit.op = "add" THEN registered \cup {edit.pattern}
                                      ELSE registered \ {edit.pattern}
  /\ UNCHANGED <<files, edits, call, spoiled, failures, forked>>

(* The command is killed, or a write fails (one that has written nothing   *)
(* leaves nothing).                                                        *)
StopEdit ==
  /\ edit.step = "writing"
  /\ edit' = NoEdit
  /\ spoiled' = TRUE
  /\ UNCHANGED <<files, edits, call, registered, failures, forked>>

-----------------------------------------------------------------------------
(* cifra hook preuse.                                                      *)

Update(c, h) == call' = [call EXCEPT ![c] = h]

(* MatchesAny takes the first pattern of the file that matches, for the    *)
(* first word of a command that matches any.  An error to load the         *)
(* patterns counts as no pattern.                                          *)
Touches(c) == UNION {Words[c][i] : i \in DOMAIN Words[c]}
FirstMatch(word) ==
  LET Hits == {i \in DOMAIN patterns : patterns[i] \in word}
  IN IF Hits = {} THEN <<>>
     ELSE <<patterns[CHOOSE i \in Hits : \A j \in Hits : i <= j]>>
Matched(c) ==
  LET Hits == {i \in DOMAIN Words[c] : FirstMatch(Words[c][i]) # <<>>}
  IN IF Hits = {} THEN <<>>
     ELSE FirstMatch(Words[c][CHOOSE i \in Hits : \A j \in Hits : i <= j])

(* A file tool, then a shell command, on a protected path is blocked and   *)
(* logged; a shell command for a secret's value is blocked only.           *)
Calm == edit.step # "writing" /\ ~spoiled
Due(c) == /\ Tool[c] \in {"file", "bash"}
          /\ Touches(c) \cap registered # {}
          /\ Calm
Preuse(c, sensitive) ==
  /\ call[c].step = "new"
  /\ LET hit == Tool[c] \in {"file", "bash"} /\ Matched(c) # <<>>
     IN Update(c, [call[c] EXCEPT
          !.due = Due(c),
          !.entries = IF hit THEN <<<<c, Matched(c)[1]>>>> ELSE <<>>,
          !.step = IF hit THEN "report"
                   ELSE IF Tool[c] = "bash" /\ sensitive THEN "blocked"
                   ELSE "run"])
  /\ UNCHANGED <<files, edit, edits, history>>

-----------------------------------------------------------------------------
(* AppendEntry: read the last hash, append an entry that chains to it.     *)
(* Whether that worked changes nothing for the tool call.                  *)
ReadLast(c) ==
  /\ call[c].step = "report"
  /\ Update(c, [call[c] EXCEPT !.step = "append", !.prev = LastHash(log)])
  /\ forked' = (forked \/ \E d \in Call : call[d].step = "append")
  /\ UNCHANGED <<files, edit, edits, registered, spoiled, failures>>

ReportedAgain(c) == [call[c] EXCEPT !.done = @ + 1, !.prev = NoHash, !.step = "report"]
Reported(c) ==
  LET h == call[c]
      done == h.done + 1
  IN [h EXCEPT !.done = done, !.prev = NoHash,
               !.step = IF done < Len(h.entries) THEN "report"
                        ELSE IF h.stage = "pre" THEN "blocked" ELSE "shown"]
Pending(c) == NewEntry(call[c].entries[call[c].done + 1], call[c].prev)

(* What the file holds once c has written: the mutant writes back the      *)
(* lines it chains to instead of appending.                                *)
AppendedOver(c) ==
  IF call[c].prev = NoHash THEN <<Pending(c)>> ELSE AddLine(log, ragged, Pending(c))
Appended(c) == AddLine(log, ragged, Pending(c))

AppendEntry(c) ==
  /\ call[c].step = "append"
  /\ log' = Appended(c)
  /\ ragged' = FALSE
  /\ Update(c, Reported(c))
  /\ UNCHANGED <<patterns, edit, edits, history>>

(* The log cannot be opened, or the write is cut short: before the line's  *)
(* end, or before its newline.                                             *)
FailToAppend(c) ==
  /\ call[c].step = "append"
  /\ failures < MaxFailures
  /\ \/ UNCHANGED <<log, ragged>>
     \/ /\ \E line \in {Garbage, Pending(c)} : log' = AddLine(log, ragged, line)
        /\ ragged' = TRUE
  /\ failures' = failures + 1
  /\ Update(c, Reported(c))
  /\ UNCHANGED <<patterns, edit, edits, registered, spoiled, forked>>

-----------------------------------------------------------------------------
(* cifra hook postuse.  The key it takes is the first listed recipient's   *)
(* that the agent has cached, else the first that CIFRA_PASSPHRASE opens   *)
(* in the keychain.  A key the agent has zeroed meanwhile is taken too,    *)
(* but opens nothing: it counts as none here.                              *)
FirstKey(ids) ==
  LET Hits == {i \in DOMAIN Recipients : Recipients[i] \in ids}
  IN IF Hits = {} THEN {}
     ELSE {Recipients[CHOOSE i \in Hits : \A j \in Hits : i <= j]}
FindMaskingKey(cached, zeroed, unsealed) ==
  IF FirstKey(cached) # {} THEN FirstKey(cached) \ zeroed ELSE FirstKey(unsealed)

(* The entries that key opens; the others are passed over.                 *)
LoadSecretsForMasking(key) == Filtered(Names, {n \in Secret : key \cap Wraps[n] # {}})

(* The tool runs, and its response is scanned for the secrets loaded.      *)
(* With nothing to mask it goes to the model as it is; so it does when the *)
(* store or the recipients do not load, like without a key.                *)
Postuse(c, out, cached, zeroed, unsealed) ==
  /\ call[c].step = "run"
  /\ LET text    == Json(out)
         secrets == LoadSecretsForMasking(FindMaskingKey(cached, zeroed, unsealed))
         found   == MaskedNames(text, secrets)
     IN Update(c, [call[c] EXCEPT
          !.stage = "post", !.done = 0,
          !.hand = IF zeroed = {} THEN cached \cup unsealed ELSE {},
          !.entries = [i \in DOMAIN found |-> <<c, found[i]>>],
          !.text = IF found = <<>> THEN text ELSE MaskSecrets(text, secrets),
          !.step = IF found = <<>> THEN "shown" ELSE "report"])
  /\ UNCHANGED <<files, edit, edits, history>>

HookStep(c) ==
  \/ \E sensitive \in BOOLEAN : Preuse(c, sensitive)
  \/ ReadLast(c) \/ AppendEntry(c) \/ FailToAppend(c)
  \/ \E out \in Output[c], cached, unsealed \in Keys :
       \E zeroed \in SUBSET cached : Postuse(c, out, cached, zeroed, unsealed)
Protect ==
  \/ \E op \in {"add", "remove"}, p \in Pattern : Load(op, p)
  \/ Truncate \/ WriteLine \/ Saved \/ StopEdit
Next == Protect \/ \E c \in Call : HookStep(c)

Spec == Init /\ [][Next]_vars
-----------------------------------------------------------------------------
(* A file tool or shell command on a path some protect command has         *)
(* registered does not run, whatever else is registered and removed at the *)
(* same time, unless the hook read the patterns while they were being      *)
(* rewritten or after a rewrite that stopped half-way.                     *)
CoveredIsBlocked == \A c \in Call : call[c].due => call[c].step \notin {"run", "shown"}

(* Every entry a hook has written is in the log to stay, however many      *)
(* hooks append at the same time: a call blocked for its path, a secret    *)
(* masked in a response.  A failed append can take the last entry with it. *)
ReportsKept ==
  \A c \in Call : \A k \in 1..call[c].done :
    torn \/ \E i \in DOMAIN log : log[i] # Garbage /\ log[i].what = call[c].entries[k]

(* As long as no append has failed, every entry chains to an earlier one;  *)
(* and as long as no two hooks appended at once, `cifra audit log verify`  *)
(* finds the chain intact.  After a failed append the log either still     *)
(* verifies or can no longer be read at all.                               *)
ChainHolds ==
  /\ ~torn => \A i \in DOMAIN log :
                log[i].prev \in {NoHash} \cup {log[j].hash : j \in 1..(i - 1)}
  /\ ~forked /\ Parses(log) => VerifyChain(log)

(* A secret that every key at hand opens, and there is one, is not left    *)
(* whole, plain or in base64, in what the model sees, whatever other       *)
(* secrets the response contains, opened by that key or not: for values    *)
(* JSON writes as they are, and unless the agent has zeroed the key.       *)
OutputMasked ==
  \A c \in Call : call[c].step = "shown" /\ call[c].hand # {} =>
    \A k \in DOMAIN Names : Value[Names[k]] # <<>> /\ call[c].hand \subseteq Wraps[Names[k]] =>
      /\ SurvivesJson(Names[k]) => ~Occurs(Value[Names[k]], call[c].text)
      /\ ~Occurs(Base64[Names[k]], call[c].text)
=============================================================================
