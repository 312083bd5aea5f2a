------------------------- MODULE OwnershipDecision -------------------------
(***************************************************************************)
(* What the take-ownership setup task promises (spec.md 4.4): presented    *)
(* with an owner secret, it either accepts because the TPM is already      *)
(* owned with that secret, or accepts after changing an empty owner        *)
(* password to the secret, or fails leaving the TPM untouched.  It never   *)
(* replaces a non-empty owner password.  An operator may clear the TPM     *)
(* between requests; a request may be abandoned (the process ends) before *)
(* it is decided, and a decided one forgotten when the process ends.      *)
(***************************************************************************)
CONSTANTS OwnerAuths, Empty

VARIABLES
    owner,      \* the TPM owner password
    pending,    \* the owner secret of the current request
    outcome     \* "idle" with no request, "none" while the request is
                \* undecided, then "ok" or "failed"

vars == <<owner, pending, outcome>>

Init ==
    /\ owner \in OwnerAuths
    /\ pending \in OwnerAuths
    /\ outcome \in {"idle", "none"}

Request(s) ==
    /\ outcome # "none"
    /\ pending' = s
    /\ outcome' = "none"
    /\ UNCHANGED owner

Decide ==
    /\ outcome = "none"
    /\ \/ /\ owner = pending
          /\ outcome' = "ok"
          /\ UNCHANGED owner
       \/ /\ owner = Empty
          /\ pending # Empty
          /\ owner' = pending
          /\ outcome' = "ok"
       \/ /\ outcome' = "failed"
          /\ UNCHANGED owner
    /\ UNCHANGED pending

Abandon ==
    /\ outcome = "none"
    /\ outcome' = "idle"
    /\ UNCHANGED <<owner, pending>>

Forget ==
    /\ outcome \in {"ok", "failed"}
    /\ outcome' = "idle"
    /\ UNCHANGED <<owner, pending>>

Clear ==
    /\ outcome # "none"
    /\ owner' = Empty
    /\ UNCHANGED <<pending, outcome>>

Next ==
    \/ \E s \in OwnerAuths : Request(s)
    \/ Decide
    \/ Abandon
    \/ Forget
    \/ Clear

Spec == Init /\ [][Next]_vars
=============================================================================
