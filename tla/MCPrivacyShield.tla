-------------------------- MODULE MCPrivacyShield ---------------------------
(* Two calls made in parallel: a file tool, and a shell command that may   *)
(* be blocked for two of its words or answer with two secrets, one value a *)
(* part of the other, and a value JSON escapes.  The shorter secret has    *)
(* not been re-wrapped for the second recipient yet.                       *)
EXTENDS PrivacyShield, TLC

CONSTANTS read, shell, src, etc, short, long, quoted, s, t, q, z1, z2, z3,
          alice, bob

MCTool == (read :> "file") @@ (shell :> "bash")
MCWords == (read :> <<{src}>>) @@ (shell :> <<{}, {etc}, {src, etc}>>)
MCValue == (short :> <<s>>) @@ (long :> <<s, t>>) @@ (quoted :> <<q>>)
MCBase64 == (short :> <<z1>>) @@ (long :> <<z2>>) @@ (quoted :> <<z3>>)
MCOutput == (read :> {<<t, z3>>}) @@ (shell :> {<<s, t, s, s, z2, q>>})
MCNames == <<long, short, quoted>>
MCRecipients == <<bob, alice>>
MCWraps == (short :> {alice}) @@ (long :> {alice, bob}) @@ (quoted :> {alice, bob})
=============================================================================
