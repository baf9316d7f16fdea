---------------------------- MODULE MCVaultSync -----------------------------
(* VaultSync for two members, each with a clone and an identity.           *)
EXTENDS VaultSync, TLC

CONSTANTS alice, bob, a, b, x, y

MCHome == (alice :> {a}) @@ (bob :> {b})

(* Renaming secrets. *)
MCSymmetry == Permutations(Name)
=============================================================================
