----------------------------- MODULE MCHookFile -----------------------------
(* Two lines of the user's, and a vault of two recipients.                 *)
EXTENDS HookFile

CONSTANTS me, bob
MCListed == <<bob, me>>
=============================================================================
