--------------------------- MODULE TakeOwnership ---------------------------
(***************************************************************************)
(* The take-ownership setup task (src/tasks/take_ownership.go).  Run      *)
(* checks the supplied TPM_OWNER_SECRET with IsOwnedWithAuth and takes     *)
(* ownership only when the TPM still has the empty owner password;        *)
(* Validate re-checks the secret.  Each method opens and closes its own    *)
(* TPM context, so each is one atomic step.                                *)
(***************************************************************************)
EXTENDS TpmProvider

VARIABLES
    tpmOwner,       \* the TPM owner password
    ownerSecret,    \* TakeOwnership.ownerSecretKey (TPM_OWNER_SECRET)
    toState         \* "run", "validate", "validated", "run_failed",
                    \* "validate_failed", or "idle" when the task is not running

toVars == <<tpmOwner, ownerSecret, toState>>

TypeOK ==
    /\ tpmOwner \in OwnerAuths
    /\ ownerSecret \in OwnerAuths
    /\ toState \in {"idle", "run", "validate", "validated",
                    "run_failed", "validate_failed"}

\* Mutant of Run: the clear-TPM branch tests owned instead of !owned, so
\* an unowned TPM with a non-empty secret falls through to success.
RunInvertedBranch ==
    /\ toState = "run"
    /\ \/ /\ \E e \in RuntimeFailure : e
          /\ toState' = "run_failed"
          /\ UNCHANGED tpmOwner
       \/ /\ IsOwnedWithAuth(tpmOwner, ownerSecret)
          /\ toState' = "validate"
          /\ UNCHANGED tpmOwner
       \/ /\ ~IsOwnedWithAuth(tpmOwner, ownerSecret)
          /\ ownerSecret = Empty
          /\ toState' = "run_failed"
          /\ UNCHANGED tpmOwner
       \/ /\ ~IsOwnedWithAuth(tpmOwner, ownerSecret)
          /\ ownerSecret # Empty
          /\ toState' = "validate"
          /\ UNCHANGED tpmOwner
    /\ UNCHANGED ownerSecret

\* Run(): one disjunct per way out of the method.
Run ==
    /\ toState = "run"
    /\ \/ \* NewTpmProvider, IsOwnedWithAuth(secret), IsOwnedWithAuth("")
          \* or TakeOwnership returns an error
          /\ \E e \in RuntimeFailure : e
          /\ toState' = "run_failed"
          /\ UNCHANGED tpmOwner
       \/ \* owned with the supplied secret: nothing to do
          /\ IsOwnedWithAuth(tpmOwner, ownerSecret)
          /\ toState' = "validate"
          /\ UNCHANGED tpmOwner
       \/ \* the empty secret does not authorise: refuse to change passwords
          /\ ~IsOwnedWithAuth(tpmOwner, ownerSecret)
          /\ ownerSecret = Empty
          /\ toState' = "run_failed"
          /\ UNCHANGED tpmOwner
       \/ \* a non-empty secret, but the TPM is not clear
          /\ ~IsOwnedWithAuth(tpmOwner, ownerSecret)
          /\ ownerSecret # Empty
          /\ ~IsOwnedWithAuth(tpmOwner, Empty)
          /\ toState' = "run_failed"
          /\ UNCHANGED tpmOwner
       \/ \* the TPM is clear: TakeOwnership(secret)
          /\ ~IsOwnedWithAuth(tpmOwner, ownerSecret)
          /\ ownerSecret # Empty
          /\ IsOwnedWithAuth(tpmOwner, Empty)
          /\ CanTakeOwnership(tpmOwner)
          /\ tpmOwner' = ownerSecret
          /\ toState' = "validate"
    /\ UNCHANGED ownerSecret

\* Validate(): IsOwnedWithAuth(secret) must succeed and return true.
Validate ==
    /\ toState = "validate"
    /\ \/ /\ \E e \in RuntimeFailure : e
          /\ toState' = "validate_failed"
       \/ /\ IsOwnedWithAuth(tpmOwner, ownerSecret)
          /\ toState' = "validated"
       \/ /\ ~IsOwnedWithAuth(tpmOwner, ownerSecret)
          /\ toState' = "validate_failed"
    /\ UNCHANGED <<tpmOwner, ownerSecret>>

-----------------------------------------------------------------------------
(* The task on its own: an operator re-runs it with any secret, and may    *)
(* clear the TPM between runs.                                             *)

Finished == toState \in {"validated", "run_failed", "validate_failed"}

Rerun(s) ==
    /\ Finished
    /\ ownerSecret' = s
    /\ toState' = "run"
    /\ UNCHANGED tpmOwner

OperatorClear ==
    /\ Finished
    /\ tpmOwner' = Empty
    /\ UNCHANGED <<ownerSecret, toState>>

Init ==
    /\ tpmOwner \in OwnerAuths
    /\ ownerSecret \in OwnerAuths
    /\ toState = "run"

Next ==
    \/ Run
    \/ Validate
    \/ \E s \in OwnerAuths : Rerun(s)
    \/ OperatorClear

Spec == Init /\ [][Next]_toVars

-----------------------------------------------------------------------------
(* Refinement: the task implements the decision table of spec.md 4.4.     *)
(* The request being decided is the secret of the current run; the run's  *)
(* outcome is "ok" once Run returned nil, whatever Validate later says.   *)

RunOutcome ==
    CASE toState = "idle" -> "idle"
      [] toState = "run" -> "none"
      [] toState = "run_failed" -> "failed"
      [] OTHER -> "ok"

Decision == INSTANCE OwnershipDecision
    WITH owner <- tpmOwner, pending <- ownerSecret, outcome <- RunOutcome

\* Every behaviour of Run, Validate and re-runs is a behaviour of the
\* decision table: Run reports success only when the TPM ends up owned
\* with the supplied secret, and changes the owner password only from "".
OwnershipRefinement == Decision!Spec
=============================================================================
