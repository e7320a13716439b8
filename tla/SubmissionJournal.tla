-------------------------- MODULE SubmissionJournal --------------------------
(***************************************************************************)
(* The submissions table of SQLiteBrokerJournal                            *)
(* (src/src/quantum_trader/adapters/sqlite_broker_journal.py): one row per *)
(* deterministic client order ID.  Every public method is one              *)
(* BEGIN IMMEDIATE transaction, so every operator below describes an       *)
(* atomic update; a method that raises rolls back and changes nothing.     *)
(* The broker order ID column is left out: it is set exactly in the states *)
(* acknowledged and reconciled, and the broker keeps one order per client  *)
(* order ID, so the client ID determines it.                               *)
(***************************************************************************)
EXTENDS Naturals, FiniteSets

CONSTANTS Orders,    \* deterministic client order IDs
          Payloads,  \* canonical payload digests
          Digests,   \* attempt_sha256 values handed in by callers
          None       \* SQL NULL

VARIABLES subState,   \* column state; "absent" when there is no row
          subReason,  \* column reason
          subPayload  \* column requested_payload_sha256

journalVars == <<subState, subReason, subPayload>>

SubmissionState ==
  {"persisted", "started", "acknowledged", "ambiguous", "reconciled", "rejected"}

\* Fixed reason strings written by the executor.
Reasons == {"operator_paused_after_persist", "operator_paused_before_submit",
            "broker_rejected_submission", "recovery_confirmed_not_started",
            "submission_outcome_ambiguous"}

ASSUME JournalConstants ==
  /\ None \notin Payloads \cup Digests \cup Reasons
  /\ Digests \cap Reasons = {}

AllowedTransitions(state) ==
  CASE state = "persisted"    -> {"started", "rejected"}
    [] state = "started"      -> {"acknowledged", "ambiguous", "rejected"}
    [] state = "ambiguous"    -> {"reconciled", "rejected"}
    [] state = "acknowledged" -> {"reconciled"}
    [] OTHER                  -> {}

TerminalStates == {"reconciled", "rejected"}

JournalTypeOK ==
  /\ subState \in [Orders -> SubmissionState \cup {"absent"}]
  /\ subReason \in [Orders -> Digests \cup Reasons \cup {None}]
  /\ subPayload \in [Orders -> Payloads \cup {None}]

JournalInit ==
  /\ subState = [c \in Orders |-> "absent"]
  /\ subReason = [c \in Orders |-> None]
  /\ subPayload = [c \in Orders |-> None]

Known == {c \in Orders : subState[c] # "absent"}

\* Mutant: the query leaves out ambiguous rows.
MutUnresolved == {c \in Known : subState[c] \notin TerminalStates \cup {"ambiguous"}}

Unresolved == {c \in Known : subState[c] \notin TerminalStates}

\* persist_approved_order inserts a row, or accepts an existing row with the
\* same content whatever its state; other content raises.
PersistAccepts(c, payload) ==
  subState[c] = "absent" \/ subPayload[c] = payload

PersistApprovedOrder(c, payload) ==
  /\ PersistAccepts(c, payload)
  /\ IF subState[c] = "absent"
       THEN /\ subState' = [subState EXCEPT ![c] = "persisted"]
            /\ subPayload' = [subPayload EXCEPT ![c] = payload]
            /\ UNCHANGED subReason
       ELSE UNCHANGED journalVars

\* Mutant: repeating a state is accepted whatever the reason.
MutTransitionAccepts(c, state, reason) ==
  /\ subState[c] # "absent"
  /\ state = subState[c] \/ state \in AllowedTransitions(subState[c])

\* transition_submission: repeating the current state is accepted only with
\* the same reason; any other state must be allowed from the current one.
TransitionAccepts(c, state, reason) ==
  /\ subState[c] # "absent"
  /\ IF state = subState[c]
       THEN subReason[c] = reason
       ELSE state \in AllowedTransitions(subState[c])

TransitionSubmission(c, state, reason) ==
  /\ TransitionAccepts(c, state, reason)
  /\ subState' = [subState EXCEPT ![c] = state]
  /\ subReason' = [subReason EXCEPT ![c] = reason]
  /\ UNCHANGED subPayload

\* Mutant: a rejected row can be resolved.
MutResolutionsAccepted(resolved) ==
  \A c \in resolved : subState[c] # "absent"

\* The submission part of apply_reconciliation: resolutions are written
\* without consulting the transition table, but a rejected row aborts the
\* whole transaction.
ResolutionsAccepted(resolved) ==
  \A c \in resolved : subState[c] \notin {"absent", "rejected"}

ApplyResolutions(resolved) ==
  /\ ResolutionsAccepted(resolved)
  /\ subState' = [c \in Orders |-> IF c \in resolved THEN "reconciled" ELSE subState[c]]
  /\ subReason' = [c \in Orders |-> IF c \in resolved THEN None ELSE subReason[c]]
  /\ UNCHANGED subPayload
=============================================================================
