------------------------------ MODULE Masking -------------------------------
(***************************************************************************)
(* maskSecrets (internal/hook/postuse.go): the values of the vault's env   *)
(* secrets, and their base64 forms, are replaced in a tool's response by   *)
(* placeholders.  A text is a sequence of tokens; a placeholder is one     *)
(* token.                                                                  *)
(***************************************************************************)
EXTENDS Naturals, Sequences

CONSTANTS Token,       \* what responses and secrets are made of
          Secret,      \* the env secrets
          Value,       \* Value[n]: the plaintext of secret n
          Base64,      \* Base64[n]: its encoding
          Escape,      \* tokens JSON writes with a backslash before them
          Backslash

Placeholder == Secret \X {"base64", "plain"}
Text == Seq(Token \cup Placeholder)

(* No secret contains, or is part of, a placeholder; an encoding is empty  *)
(* only where the value is.                                                *)
ASSUME SecretAssumption ==
  /\ Value \in [Secret -> Seq(Token)]
  /\ Base64 \in [Secret -> Seq(Token)]
  /\ \A n \in Secret : Value[n] # <<>> => Base64[n] # <<>>
ASSUME TokenAssumption == Backslash \in Token /\ Placeholder \cap Token = {}

OccursAt(s, text, i) ==
  i + Len(s) - 1 <= Len(text) /\ \A k \in DOMAIN s : text[i + k - 1] = s[k]
Occurs(s, text) == \E i \in 1..Len(text) : OccursAt(s, text, i)

(* strings.ReplaceAll, for an s that is not empty.                         *)
ReplaceOnce(text, s, token) ==
  IF ~Occurs(s, text) THEN text
  ELSE LET i == CHOOSE i \in 1..Len(text) :
                  /\ OccursAt(s, text, i)
                  /\ \A j \in 1..(i - 1) : ~OccursAt(s, text, j)
       IN SubSeq(text, 1, i - 1) \o <<token>> \o SubSeq(text, i + Len(s), Len(text))
ReplacedFrom(text, s, token) ==
  LET from[i \in 1..(Len(text) + Len(s))] ==
        IF i > Len(text) THEN <<>>
        ELSE IF OccursAt(s, text, i) THEN <<token>> \o from[i + Len(s)]
        ELSE <<text[i]>> \o from[i + 1]
  IN from
ReplaceAll(text, s, token) == ReplacedFrom(text, s, token)[1]

(* The tool's response reaches the hook, and leaves it, as JSON text.      *)
JsonUpTo(text) ==
  LET written[i \in 0..Len(text)] ==
        IF i = 0 THEN <<>>
        ELSE written[i - 1] \o (IF text[i] \in Escape THEN <<Backslash, text[i]>>
                                                     ELSE <<text[i]>>)
  IN written
Json(text) == JsonUpTo(text)[Len(text)]
SurvivesJson(n) == \A i \in DOMAIN Value[n] : Value[n][i] \notin Escape

(* One secret: its encoding first, then its value; an empty one is skipped.*)
MaskOne(text, n) ==
  IF Value[n] = <<>> THEN text
  ELSE ReplaceAll(ReplaceAll(text, Base64[n], <<n, "base64">>), Value[n], <<n, "plain">>)

(* Every secret, in the order of the store; and the names that were found. *)
MaskedUpTo(text, names) ==
  LET after[k \in 0..Len(names)] ==
        IF k = 0 THEN text ELSE MaskOne(after[k - 1], names[k])
  IN after
MaskSecrets(text, names) == MaskedUpTo(text, names)[Len(names)]
FoundUpTo(after, names) ==
  LET found[k \in 0..Len(names)] ==
        IF k = 0 THEN <<>>
        ELSE IF after[k] # after[k - 1] THEN Append(found[k - 1], names[k])
        ELSE found[k - 1]
  IN found
MaskedNames(text, names) == FoundUpTo(MaskedUpTo(text, names), names)[Len(names)]
=============================================================================
