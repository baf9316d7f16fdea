---------------------------- MODULE AtomicStore -----------------------------
(***************************************************************************)
(* What SaveStore promises (internal/vault/secrets.go): the secrets store  *)
(* is replaced as a whole or not at all.  Readers see one saved version at *)
(* a time; a save that fails, or whose process is killed, leaves the       *)
(* version that was there; after a power loss the store is one that had    *)
(* been there whole, never a mixture.                                      *)
(***************************************************************************)
EXTENDS Naturals

VARIABLES current,  \* the version readers see
          durable,  \* the version a power loss would leave
          pending   \* the version being saved, 0 for none

vars == <<current, durable, pending>>

Init == current = 0 /\ durable = 0 /\ pending = 0

Begin ==
  /\ pending = 0
  /\ pending' \in Nat \ {0}
  /\ UNCHANGED <<current, durable>>

Succeed ==
  /\ pending # 0
  /\ current' = pending
  /\ pending' = 0
  /\ UNCHANGED durable

GiveUp ==
  /\ pending # 0
  /\ pending' = 0
  /\ UNCHANGED <<current, durable>>

Settle ==
  /\ durable' = current
  /\ UNCHANGED <<current, pending>>

PowerLoss ==
  /\ current' = durable
  /\ pending' = 0
  /\ UNCHANGED durable

Next == Begin \/ Succeed \/ GiveUp \/ Settle \/ PowerLoss

Spec == Init /\ [][Next]_vars
=============================================================================
