--------------------------- MODULE OperatorControl ---------------------------
(***************************************************************************)
(* SQLiteOperatorControl                                                   *)
(* (src/src/quantum_trader/adapters/sqlite_operator_control.py): the       *)
(* durable pause switch (last row of control_states) and the action        *)
(* records keyed by one-use approval.  Every method is one transaction.    *)
(* An approval carries its action and its validity window; time is a       *)
(* bounded counter, and every call passes its own reading of it.           *)
(***************************************************************************)
EXTENDS Naturals, FiniteSets

CONSTANTS Approvals,    \* approval IDs that were issued
          ActionOf,     \* approval ID -> OperatorAction
          IssuedAt,     \* approval ID -> issued_at
          ExpiresAt     \* approval ID -> expires_at

VARIABLES paused,   \* current_state().paused
          records   \* action_records: approval ID -> state, "unused" = no row

controlVars == <<paused, records>>

OperatorAction == {"resume", "cancel_owned_orders", "flatten_owned_positions"}

RecordState == {"unused", "in_progress", "completed", "failed"}

ASSUME ApprovalConstants ==
  /\ ActionOf \in [Approvals -> OperatorAction]
  /\ IssuedAt \in [Approvals -> Nat]
  /\ ExpiresAt \in [Approvals -> Nat]
  /\ \A a \in Approvals : IssuedAt[a] < ExpiresAt[a]

ControlTypeOK ==
  /\ paused \in BOOLEAN
  /\ records \in [Approvals -> RecordState]

\* A new store starts paused and without records.
ControlInit ==
  /\ paused = TRUE
  /\ records = [a \in Approvals |-> "unused"]

InProgress == {a \in Approvals : records[a] = "in_progress"}

\* OperatorApproval.verify: the action and the half-open validity window.
Verified(a, action, now) ==
  /\ ActionOf[a] = action
  /\ IssuedAt[a] <= now
  /\ now < ExpiresAt[a]

\* pause appends a paused row unconditionally.
Pause ==
  /\ paused' = TRUE
  /\ UNCHANGED records

\* Mutant: resume ignores an action in progress.
MutResumeAccepts(a, now) ==
  /\ Verified(a, "resume", now)
  /\ records[a] = "unused"
  /\ paused

ResumeAccepts(a, now) ==
  /\ Verified(a, "resume", now)
  /\ records[a] = "unused"
  /\ paused
  /\ InProgress = {}

Resume(a, now) ==
  /\ ResumeAccepts(a, now)
  /\ records' = [records EXCEPT ![a] = "completed"]
  /\ paused' = FALSE

\* Mutant: a consumed approval can begin another action.
MutBeginAccepts(a, action, now) ==
  /\ action # "resume"
  /\ Verified(a, action, now)
  /\ paused
  /\ InProgress = {}

BeginAccepts(a, action, now) ==
  /\ action # "resume"
  /\ Verified(a, action, now)
  /\ records[a] = "unused"
  /\ paused
  /\ InProgress = {}

BeginAction(a, action, now) ==
  /\ BeginAccepts(a, action, now)
  /\ records' = [records EXCEPT ![a] = "in_progress"]
  /\ UNCHANGED paused

CompleteAction(a, succeeded) ==
  /\ records[a] = "in_progress"
  /\ records' = [records EXCEPT ![a] = IF succeeded THEN "completed" ELSE "failed"]
  /\ UNCHANGED paused
=============================================================================
