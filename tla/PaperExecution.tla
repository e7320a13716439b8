---------------------------- MODULE PaperExecution ----------------------------
(***************************************************************************)
(* The crash-safe paper order path: PaperOrderExecutor.execute_once and    *)
(* recover_submission, the pre-trade assessment's durable effects, the     *)
(* submission part of PaperReconciler.reconcile, PaperOperatorActions, and *)
(* AlpacaPaperBroker.submit_once / cancel_order, against an external       *)
(* broker that may delay, lose, reject or fail requests.                   *)
(*                                                                         *)
(* A process is one running call.  Attempts are calls of execute_once;     *)
(* Recoverers and Operators call their services again and again.  Calls of *)
(* different processes share the two SQLite files and interleave between   *)
(* any two transactions, reads or network requests.  A step of a process   *)
(* is one transaction, one durable read or one network request with the    *)
(* branching that follows it.                                              *)
(***************************************************************************)
EXTENDS SubmissionJournal, OperatorControl

CONSTANTS Attempts,        \* calls of execute_once
          Recoverers,      \* processes calling recover_submission
          Operators,       \* processes calling PaperOperatorActions
          AttemptOrder,    \* attempt -> client order ID of its order
          AttemptPayload,  \* attempt -> payload digest of its order
          AttemptDigest,   \* attempt -> attempt_sha256
          Times,           \* timestamps a caller may pass
          Serialized       \* TRUE: a call starts only when no other call runs

Procs == Attempts \cup Recoverers \cup Operators

ASSUME ExecutionConstants ==
  /\ AttemptOrder \in [Attempts -> Orders]
  /\ AttemptPayload \in [Attempts -> Payloads]
  /\ AttemptDigest \in [Attempts -> Digests]
  /\ Times \subseteq Nat
  /\ Serialized \in BOOLEAN
  /\ Attempts \cap Recoverers = {}
  /\ Attempts \cap Operators = {}
  /\ Recoverers \cap Operators = {}
  /\ None \notin Orders \cup Approvals

\* The caller's contract: an attempt digest names one attempt.
ASSUME UniqueDigests ==
  \A a, b \in Attempts : AttemptDigest[a] = AttemptDigest[b] => a = b

VARIABLES
  pc,       \* where each call is
  target,   \* recoverer -> client order ID it was asked to recover
  entry,    \* recoverer -> state of the journal row it read
  grant,    \* operator -> approval it was handed
  ret,      \* reconcile: where the running reconcile returns to
  suspect,  \* reconcile: open owned orders not explained so far
  left,     \* reconcile: unresolved rows to look up; cancel: orders to cancel
  found,    \* reconcile: unresolved rows located at the broker
  clean,    \* reconcile: no issue so far, then report.ready
  venue,    \* external broker: client order ID -> "none", "open" or "closed"
  wire,     \* attempts whose POST is on its way to the broker
  reply,    \* attempt -> what became of its POST as far as it knows
  posts     \* client order ID -> number of POSTs ever sent

callVars == <<target, entry, grant>>
reconVars == <<ret, suspect, left, found, clean>>
venueVars == <<venue, wire, reply, posts>>
vars == <<pc, callVars, reconVars, venueVars, journalVars, controlVars>>

ReconLabels == {"r_open", "r_known", "r_unresolved", "r_lookup"}
AttemptLabels ==
  {"idle", "x_known", "x_assess", "x_decide", "x_require", "x_persist",
   "x_check1", "x_unsent1", "x_start", "x_check2", "x_unsent2", "x_lookup",
   "x_post", "x_await", "x_relookup", "x_ack", "x_refused", "x_ambiguous",
   "x_final", "x_pause", "done"}
RecoverLabels == {"idle", "v_read", "v_lookup", "v_reject", "v_ack", "v_final"}
OperatorLabels ==
  {"idle", "o_resume", "k_begin", "k_list", "k_cancel",
   "k_complete", "k_fail"}
Returns == {"x_decide", "x_final", "v_final", "o_resume", "k_complete"}
Replies == {"none", "ok", "rejected", "error", "timeout"}

PcTypeOK ==
  /\ pc \in [Procs -> ReconLabels \cup AttemptLabels \cup RecoverLabels \cup OperatorLabels]
  /\ \A a \in Attempts : pc[a] \in ReconLabels \cup AttemptLabels
  /\ \A v \in Recoverers : pc[v] \in ReconLabels \cup RecoverLabels
  /\ \A o \in Operators : pc[o] \in ReconLabels \cup OperatorLabels

CallTypeOK ==
  /\ target \in [Recoverers -> Orders \cup {None}]
  /\ entry \in [Recoverers -> SubmissionState \cup {"absent"}]
  /\ grant \in [Operators -> Approvals \cup {None}]

ReconTypeOK ==
  /\ ret \in [Procs -> Returns \cup {None}]
  /\ suspect \in [Procs -> SUBSET Orders]
  /\ left \in [Procs -> SUBSET Orders]
  /\ found \in [Procs -> SUBSET Orders]
  /\ clean \in [Procs -> BOOLEAN]

VenueTypeOK ==
  /\ venue \in [Orders -> {"none", "open", "closed"}]
  /\ wire \subseteq Attempts
  /\ reply \in [Attempts -> Replies]
  /\ posts \in [Orders -> Nat]

\* Every variable holds the kind of value the program can put there, and
\* every call is at a step of its own service.
TypeOK ==
  /\ JournalTypeOK
  /\ ControlTypeOK
  /\ PcTypeOK
  /\ CallTypeOK
  /\ ReconTypeOK
  /\ VenueTypeOK

Init ==
  /\ JournalInit
  /\ ControlInit
  /\ pc = [p \in Procs |-> "idle"]
  /\ target = [p \in Recoverers |-> None]
  /\ entry = [p \in Recoverers |-> "absent"]
  /\ grant = [p \in Operators |-> None]
  /\ ret = [p \in Procs |-> None]
  /\ suspect = [p \in Procs |-> {}]
  /\ left = [p \in Procs |-> {}]
  /\ found = [p \in Procs |-> {}]
  /\ clean = [p \in Procs |-> TRUE]
  /\ venue = [c \in Orders |-> "none"]
  /\ wire = {}
  /\ reply = [a \in Attempts |-> "none"]
  /\ posts = [c \in Orders |-> 0]

-----------------------------------------------------------------------------
(* Processes *)

Resting(p) == pc[p] \in {"idle", "done"}

MayStart(p) ==
  /\ pc[p] = "idle"
  /\ Serialized => \A q \in Procs : Resting(q)

Goto(p, label) == pc' = [pc EXCEPT ![p] = label]

\* Mutant: a recovery or operator service that cannot be called again.
MutEndOf(p) == "done"

EndOf(p) == IF p \in Attempts THEN "done" ELSE "idle"

\* The call returns or raises: its local variables are gone.
Leave(p) ==
  /\ Goto(p, EndOf(p))
  /\ target' = [q \in Recoverers |-> IF q = p THEN None ELSE target[q]]
  /\ entry' = [q \in Recoverers |-> IF q = p THEN "absent" ELSE entry[q]]
  /\ grant' = [q \in Operators |-> IF q = p THEN None ELSE grant[q]]
  /\ ret' = [ret EXCEPT ![p] = None]
  /\ suspect' = [suspect EXCEPT ![p] = {}]
  /\ left' = [left EXCEPT ![p] = {}]
  /\ found' = [found EXCEPT ![p] = {}]
  /\ clean' = [clean EXCEPT ![p] = TRUE]

\* A process dies between two durable steps; a request already on the wire
\* stays there.  The same step covers an exception that leaves the call
\* without any handler: integrity failures, a locked database, an expired
\* context or a failed read before the submission was claimed.
Crash(p) ==
  /\ ~Resting(p)
  /\ Leave(p)
  /\ UNCHANGED <<venueVars, journalVars, controlVars>>

-----------------------------------------------------------------------------
(* PaperReconciler.reconcile, as a subroutine of every service *)

StartReconcile(p, label) ==
  /\ Goto(p, "r_open")
  /\ ret' = [ret EXCEPT ![p] = label]
  /\ clean' = [clean EXCEPT ![p] = TRUE]
  /\ UNCHANGED <<suspect, left, found>>

\* list_open_orders
ReconcileOpenOrders(p) ==
  /\ pc[p] = "r_open"
  /\ Goto(p, "r_known")
  /\ suspect' = [suspect EXCEPT ![p] = {c \in Orders : venue[c] = "open"}]
  /\ UNCHANGED <<callVars, ret, left, found, clean, venueVars, journalVars, controlVars>>

\* Mutant: only unresolved rows count as known.
MutReconcileKnown(p) ==
  /\ pc[p] = "r_known"
  /\ Goto(p, "r_unresolved")
  /\ suspect' = [suspect EXCEPT ![p] = @ \ Unresolved]
  /\ UNCHANGED <<callVars, ret, left, found, clean, venueVars, journalVars, controlVars>>

\* known_client_order_ids
ReconcileKnown(p) ==
  /\ pc[p] = "r_known"
  /\ Goto(p, "r_unresolved")
  /\ suspect' = [suspect EXCEPT ![p] = @ \ Known]
  /\ UNCHANGED <<callVars, ret, left, found, clean, venueVars, journalVars, controlVars>>

\* unresolved_submissions
ReconcileUnresolved(p) ==
  /\ pc[p] = "r_unresolved"
  /\ Goto(p, "r_lookup")
  /\ left' = [left EXCEPT ![p] = Unresolved]
  /\ UNCHANGED <<callVars, ret, suspect, found, clean, venueVars, journalVars, controlVars>>

\* Mutants: a missing order counts as located; a missing order is no issue.
MutReconcileLookupTrusts(p) ==
  /\ pc[p] = "r_lookup"
  /\ \E c \in left[p] :
       /\ left' = [left EXCEPT ![p] = @ \ {c}]
       /\ found' = [found EXCEPT ![p] = @ \cup {c}]
  /\ UNCHANGED <<pc, callVars, ret, suspect, clean, venueVars, journalVars, controlVars>>

MutReconcileLookupSilent(p) ==
  /\ pc[p] = "r_lookup"
  /\ \E c \in left[p] :
       /\ left' = [left EXCEPT ![p] = @ \ {c}]
       /\ found' = [found EXCEPT ![p] = IF venue[c] = "none" THEN @ ELSE @ \cup {c}]
  /\ UNCHANGED <<pc, callVars, ret, suspect, clean, venueVars, journalVars, controlVars>>

\* get_order_by_client_id for one unresolved row: located, or an issue.
ReconcileLookup(p) ==
  /\ pc[p] = "r_lookup"
  /\ \E c \in left[p] :
       /\ left' = [left EXCEPT ![p] = @ \ {c}]
       /\ IF venue[c] = "none"
            THEN clean' = [clean EXCEPT ![p] = FALSE] /\ UNCHANGED found
            ELSE found' = [found EXCEPT ![p] = @ \cup {c}] /\ UNCHANGED clean
  /\ UNCHANGED <<pc, callVars, ret, suspect, venueVars, journalVars, controlVars>>

\* Ownership, fill, position and account evidence (FillReconciliation) may
\* add issues of its own; the report and the resolutions then commit in one
\* transaction and reconcile returns the report.
ReconcileApply(p) ==
  /\ pc[p] = "r_lookup"
  /\ left[p] = {}
  /\ ApplyResolutions(found[p])
  /\ \E otherIssues \in BOOLEAN :
       clean' = [clean EXCEPT ![p] = @ /\ suspect[p] \subseteq found[p] /\ ~otherIssues]
  /\ Goto(p, ret[p])
  /\ ret' = [ret EXCEPT ![p] = None]
  /\ suspect' = [suspect EXCEPT ![p] = {}]
  /\ found' = [found EXCEPT ![p] = {}]
  /\ UNCHANGED <<callVars, left, venueVars, controlVars>>

\* A read fails, pagination stalls, or the transaction conflicts and rolls
\* back.  After an acknowledgement the executor pauses, a kill action
\* records its failure, and every other caller lets the exception out.
ReconcileFail(p) ==
  /\ pc[p] \in ReconLabels
  /\ ret[p] \in {"x_final", "k_complete"}
  /\ Goto(p, IF ret[p] = "x_final" THEN "x_pause" ELSE "k_fail")
  /\ ret' = [ret EXCEPT ![p] = None]
  /\ suspect' = [suspect EXCEPT ![p] = {}]
  /\ left' = [left EXCEPT ![p] = {}]
  /\ found' = [found EXCEPT ![p] = {}]
  /\ UNCHANGED <<callVars, clean, venueVars, journalVars, controlVars>>

ReconcileStep(p) ==
  \/ ReconcileOpenOrders(p)
  \/ ReconcileKnown(p)
  \/ ReconcileUnresolved(p)
  \/ ReconcileLookup(p)
  \/ ReconcileApply(p)
  \/ ReconcileFail(p)

-----------------------------------------------------------------------------
(* PaperOrderExecutor.execute_once *)

\* unresolved_submissions: any unresolved row pauses and blocks.
ExecuteStart(a) ==
  /\ MayStart(a)
  /\ Goto(a, IF Unresolved # {} THEN "x_pause" ELSE "x_known")
  /\ UNCHANGED <<callVars, reconVars, venueVars, journalVars, controlVars>>

\* submission_by_client_id: an existing row blocks.
ExecuteKnown(a) ==
  /\ pc[a] = "x_known"
  /\ IF AttemptOrder[a] \in Known
       THEN Leave(a)
       ELSE Goto(a, "x_assess") /\ UNCHANGED <<callVars, reconVars>>
  /\ UNCHANGED <<venueVars, journalVars, controlVars>>

\* PaperPreTradeController.assess reads the pause before anything else.
ExecuteAssess(a) ==
  /\ pc[a] = "x_assess"
  /\ IF paused
       THEN Leave(a)
       ELSE StartReconcile(a, "x_decide") /\ UNCHANGED callVars
  /\ UNCHANGED <<venueVars, journalVars, controlVars>>

\* A clean reconciliation lets the market controls decide.
ExecuteDecide(a) ==
  /\ pc[a] = "x_decide"
  /\ \/ Leave(a)
     \/ clean[a] /\ Goto(a, "x_require") /\ UNCHANGED <<callVars, reconVars>>
  /\ UNCHANGED <<venueVars, journalVars, controlVars>>

ExecuteRequireUnpaused(a) ==
  /\ pc[a] = "x_require"
  /\ IF paused
       THEN Leave(a)
       ELSE Goto(a, "x_persist") /\ UNCHANGED <<callVars, reconVars>>
  /\ UNCHANGED <<venueVars, journalVars, controlVars>>

ExecutePersist(a) ==
  /\ pc[a] = "x_persist"
  /\ IF PersistAccepts(AttemptOrder[a], AttemptPayload[a])
       THEN /\ PersistApprovedOrder(AttemptOrder[a], AttemptPayload[a])
            /\ Goto(a, "x_check1")
            /\ UNCHANGED <<callVars, reconVars>>
       ELSE Leave(a) /\ UNCHANGED journalVars
  /\ UNCHANGED <<venueVars, controlVars>>

\* The two pause checks around the claim.
ExecuteCheckPause(a, at, unpaused, whenPaused) ==
  /\ pc[a] = at
  /\ Goto(a, IF paused THEN whenPaused ELSE unpaused)
  /\ UNCHANGED <<callVars, reconVars, venueVars, journalVars, controlVars>>

ExecuteRejectUnsent(a, at, reason) ==
  /\ pc[a] = at
  /\ IF TransitionAccepts(AttemptOrder[a], "rejected", reason)
       THEN TransitionSubmission(AttemptOrder[a], "rejected", reason)
       ELSE UNCHANGED journalVars
  /\ Leave(a)
  /\ UNCHANGED <<venueVars, controlVars>>

\* Mutant: the claim is only made in memory.
MutExecuteClaim(a) ==
  /\ pc[a] = "x_start"
  /\ Goto(a, "x_check2")
  /\ UNCHANGED <<callVars, reconVars, venueVars, journalVars, controlVars>>

\* The exclusive claim: started with the attempt digest as reason.
ExecuteClaim(a) ==
  /\ pc[a] = "x_start"
  /\ IF TransitionAccepts(AttemptOrder[a], "started", AttemptDigest[a])
       THEN /\ TransitionSubmission(AttemptOrder[a], "started", AttemptDigest[a])
            /\ Goto(a, "x_check2")
            /\ UNCHANGED <<callVars, reconVars>>
       ELSE Leave(a) /\ UNCHANGED journalVars
  /\ UNCHANGED <<venueVars, controlVars>>

\* submit_once looks the client ID up before it sends anything.
SubmitLookup(a) ==
  /\ pc[a] = "x_lookup"
  /\ Goto(a, IF venue[AttemptOrder[a]] = "none" THEN "x_post" ELSE "x_ack")
  /\ UNCHANGED <<callVars, reconVars, venueVars, journalVars, controlVars>>

SubmitPost(a) ==
  /\ pc[a] = "x_post"
  /\ Goto(a, "x_await")
  /\ wire' = wire \cup {a}
  /\ posts' = [posts EXCEPT ![AttemptOrder[a]] = @ + 1]
  /\ UNCHANGED <<venue, reply, callVars, reconVars, journalVars, controlVars>>

\* The response arrives, or the connection times out first.
SubmitResponse(a) ==
  /\ pc[a] = "x_await"
  /\ \/ /\ reply[a] = "none"
        /\ reply' = [reply EXCEPT ![a] = "timeout"]
        /\ Goto(a, "x_relookup")
     \/ /\ reply[a] # "none"
        /\ Goto(a, IF reply[a] = "ok" THEN "x_ack" ELSE "x_relookup")
        /\ UNCHANGED reply
  /\ UNCHANGED <<venue, wire, posts, callVars, reconVars, journalVars, controlVars>>

\* Mutant: a timeout is taken for success.
MutSubmitRelookup(a) ==
  /\ pc[a] = "x_relookup"
  /\ Goto(a, IF venue[AttemptOrder[a]] # "none" \/ reply[a] = "timeout" THEN "x_ack"
             ELSE IF reply[a] = "rejected" THEN "x_refused"
             ELSE "x_ambiguous")
  /\ UNCHANGED <<callVars, reconVars, venueVars, journalVars, controlVars>>

\* After a timeout or a non-success status the client ID decides; only a
\* definite status with no order behind it is a rejection.
SubmitRelookup(a) ==
  /\ pc[a] = "x_relookup"
  /\ Goto(a, IF venue[AttemptOrder[a]] # "none" THEN "x_ack"
             ELSE IF reply[a] = "rejected" THEN "x_refused"
             ELSE "x_ambiguous")
  /\ UNCHANGED <<callVars, reconVars, venueVars, journalVars, controlVars>>

\* An expired context, a denied request budget, a failed lookup, a changed
\* identity or a malformed response inside submit_once.
SubmitFail(a) ==
  /\ pc[a] \in {"x_lookup", "x_post", "x_await", "x_relookup"}
  /\ Goto(a, "x_ambiguous")
  /\ UNCHANGED <<callVars, reconVars, venueVars, journalVars, controlVars>>

\* acknowledged, then reconcile; a conflict or a store error is ambiguous.
ExecuteAcknowledge(a) ==
  /\ pc[a] = "x_ack"
  /\ \/ /\ TransitionSubmission(AttemptOrder[a], "acknowledged", None)
        /\ StartReconcile(a, "x_final")
     \/ /\ Goto(a, "x_ambiguous")
        /\ UNCHANGED <<reconVars, journalVars>>
  /\ UNCHANGED <<callVars, venueVars, controlVars>>

\* A definite rejection is recorded, then paused; a conflict escapes.
ExecuteRefused(a) ==
  /\ pc[a] = "x_refused"
  /\ IF TransitionAccepts(AttemptOrder[a], "rejected", "broker_rejected_submission")
       THEN /\ TransitionSubmission(AttemptOrder[a], "rejected", "broker_rejected_submission")
            /\ Goto(a, "x_pause")
            /\ UNCHANGED <<callVars, reconVars>>
       ELSE Leave(a) /\ UNCHANGED journalVars
  /\ UNCHANGED <<venueVars, controlVars>>

\* _record_ambiguous pauses whether or not the journal accepts the state.
ExecuteAmbiguous(a) ==
  /\ pc[a] = "x_ambiguous"
  /\ \/ TransitionSubmission(AttemptOrder[a], "ambiguous", "submission_outcome_ambiguous")
     \/ UNCHANGED journalVars
  /\ Goto(a, "x_pause")
  /\ UNCHANGED <<callVars, reconVars, venueVars, controlVars>>

ExecuteFinal(a) ==
  /\ pc[a] = "x_final"
  /\ IF subState[AttemptOrder[a]] = "reconciled" /\ clean[a]
       THEN Leave(a)
       ELSE Goto(a, "x_pause") /\ UNCHANGED <<callVars, reconVars>>
  /\ UNCHANGED <<venueVars, journalVars, controlVars>>

ExecutePause(a) ==
  /\ pc[a] = "x_pause"
  /\ Pause
  /\ Leave(a)
  /\ UNCHANGED <<venueVars, journalVars>>

ExecuteStep(a) ==
  \/ ExecuteStart(a)
  \/ ExecuteKnown(a)
  \/ ExecuteAssess(a)
  \/ ExecuteDecide(a)
  \/ ExecuteRequireUnpaused(a)
  \/ ExecutePersist(a)
  \/ ExecuteCheckPause(a, "x_check1", "x_start", "x_unsent1")
  \/ ExecuteRejectUnsent(a, "x_unsent1", "operator_paused_after_persist")
  \/ ExecuteClaim(a)
  \/ ExecuteCheckPause(a, "x_check2", "x_lookup", "x_unsent2")
  \/ ExecuteRejectUnsent(a, "x_unsent2", "operator_paused_before_submit")
  \/ SubmitLookup(a)
  \/ SubmitPost(a)
  \/ SubmitResponse(a)
  \/ SubmitRelookup(a)
  \/ SubmitFail(a)
  \/ ExecuteAcknowledge(a)
  \/ ExecuteRefused(a)
  \/ ExecuteAmbiguous(a)
  \/ ExecuteFinal(a)
  \/ ExecutePause(a)

-----------------------------------------------------------------------------
(* PaperOrderExecutor.recover_submission: it never sends a POST *)

RecoverStart(v, c) ==
  /\ MayStart(v)
  /\ Goto(v, "v_read")
  /\ target' = [target EXCEPT ![v] = c]
  /\ Pause
  /\ UNCHANGED <<entry, grant, reconVars, venueVars, journalVars>>

\* An unknown row, another payload or a rejected row ends the call.
RecoverRead(v, expected) ==
  /\ pc[v] = "v_read"
  /\ IF subState[target[v]] \in {"absent", "rejected"} \/ subPayload[target[v]] # expected
       THEN Leave(v)
       ELSE /\ Goto(v, "v_lookup")
            /\ entry' = [entry EXCEPT ![v] = subState[target[v]]]
            /\ UNCHANGED <<target, grant, reconVars>>
  /\ UNCHANGED <<venueVars, journalVars, controlVars>>

\* Mutants: absence rejects a started row too; an ambiguous row is left
\* alone; an unsent row is left alone.
MutRecoverLookup(v, mayReject, mayReconcile) ==
  /\ pc[v] = "v_lookup"
  /\ \/ /\ venue[target[v]] = "none"
        /\ entry[v] \in mayReject
        /\ Goto(v, "v_reject")
        /\ UNCHANGED <<callVars, reconVars>>
     \/ /\ venue[target[v]] = "none"
        /\ entry[v] \notin mayReject
        /\ Leave(v)
     \/ /\ venue[target[v]] # "none"
        /\ entry[v] = "started"
        /\ Goto(v, "v_ack")
        /\ UNCHANGED <<callVars, reconVars>>
     \/ /\ venue[target[v]] # "none"
        /\ entry[v] # "started"
        /\ IF entry[v] \in mayReconcile
             THEN StartReconcile(v, "v_final") /\ UNCHANGED callVars
             ELSE Leave(v)
  /\ UNCHANGED <<venueVars, journalVars, controlVars>>

MutRecoverRejectsStarted(v) == MutRecoverLookup(v, {"persisted", "started"}, SubmissionState)
MutRecoverIgnoresAmbiguous(v) == MutRecoverLookup(v, {"persisted"}, SubmissionState \ {"ambiguous"})
MutRecoverIgnoresPersisted(v) == MutRecoverLookup(v, {}, SubmissionState)

\* What happens next is decided by the state read before the lookup.
RecoverLookup(v) ==
  /\ pc[v] = "v_lookup"
  /\ \/ /\ venue[target[v]] = "none"
        /\ entry[v] = "persisted"
        /\ Goto(v, "v_reject")
        /\ UNCHANGED <<callVars, reconVars>>
     \/ /\ venue[target[v]] = "none"
        /\ entry[v] # "persisted"
        /\ Leave(v)
     \/ /\ venue[target[v]] # "none"
        /\ entry[v] = "started"
        /\ Goto(v, "v_ack")
        /\ UNCHANGED <<callVars, reconVars>>
     \/ /\ venue[target[v]] # "none"
        /\ entry[v] # "started"
        /\ StartReconcile(v, "v_final")
        /\ UNCHANGED callVars
  /\ UNCHANGED <<venueVars, journalVars, controlVars>>

RecoverReject(v) ==
  /\ pc[v] = "v_reject"
  /\ IF TransitionAccepts(target[v], "rejected", "recovery_confirmed_not_started")
       THEN TransitionSubmission(target[v], "rejected", "recovery_confirmed_not_started")
       ELSE UNCHANGED journalVars
  /\ Leave(v)
  /\ UNCHANGED <<venueVars, controlVars>>

RecoverAcknowledge(v) ==
  /\ pc[v] = "v_ack"
  /\ IF TransitionAccepts(target[v], "acknowledged", None)
       THEN /\ TransitionSubmission(target[v], "acknowledged", None)
            /\ StartReconcile(v, "v_final")
            /\ UNCHANGED callVars
       ELSE Leave(v) /\ UNCHANGED journalVars
  /\ UNCHANGED <<venueVars, controlVars>>

\* reconciled or still unresolved: the call ends either way, paused.
RecoverFinal(v) ==
  /\ pc[v] = "v_final"
  /\ Leave(v)
  /\ UNCHANGED <<venueVars, journalVars, controlVars>>

RecoverStep(v) ==
  \/ \E c \in Orders : RecoverStart(v, c)
  \/ \E expected \in Payloads : RecoverRead(v, expected)
  \/ RecoverLookup(v)
  \/ RecoverReject(v)
  \/ RecoverAcknowledge(v)
  \/ RecoverFinal(v)

-----------------------------------------------------------------------------
(* PaperOperatorActions *)

OperatorPause(o) ==
  /\ MayStart(o)
  /\ Pause
  /\ UNCHANGED <<pc, callVars, reconVars, venueVars, journalVars>>

\* resume_paper_assessments reconciles first ...
ResumeStart(o, approval) ==
  /\ MayStart(o)
  /\ grant' = [grant EXCEPT ![o] = approval]
  /\ StartReconcile(o, "o_resume")
  /\ UNCHANGED <<target, entry, venueVars, journalVars, controlVars>>

\* ... and commits the resume on the strength of that report.
ResumeCommit(o, now) ==
  /\ pc[o] = "o_resume"
  /\ IF clean[o] /\ ResumeAccepts(grant[o], now)
       THEN Resume(grant[o], now)
       ELSE UNCHANGED controlVars
  /\ Leave(o)
  /\ UNCHANGED <<venueVars, journalVars>>

\* cancel_owned_orders pauses before it validates anything.
KillStart(o, approval) ==
  /\ MayStart(o)
  /\ Pause
  /\ grant' = [grant EXCEPT ![o] = approval]
  /\ Goto(o, "k_begin")
  /\ UNCHANGED <<target, entry, reconVars, venueVars, journalVars>>

KillBegin(o, now) ==
  /\ pc[o] = "k_begin"
  /\ IF BeginAccepts(grant[o], "cancel_owned_orders", now)
       THEN /\ BeginAction(grant[o], "cancel_owned_orders", now)
            /\ Goto(o, "k_list")
            /\ UNCHANGED <<callVars, reconVars>>
       ELSE Leave(o) /\ UNCHANGED controlVars
  /\ UNCHANGED <<venueVars, journalVars>>

KillList(o) ==
  /\ pc[o] = "k_list"
  /\ left' = [left EXCEPT ![o] = {c \in Orders : venue[c] = "open"}]
  /\ Goto(o, "k_cancel")
  /\ UNCHANGED <<callVars, ret, suspect, found, clean, venueVars, journalVars, controlVars>>

\* cancel_order: DELETE, then the order's status is read back; only a
\* terminal status counts, whether the cancel or a fill won.
KillCancel(o) ==
  /\ pc[o] = "k_cancel"
  /\ \E c \in left[o], after \in {"open", "closed"} :
       /\ venue[c] = "closed" => after = "closed"
       /\ venue' = [venue EXCEPT ![c] = after]
       /\ left' = [left EXCEPT ![o] = IF after = "closed" THEN @ \ {c} ELSE {}]
       /\ Goto(o, IF after = "closed" THEN "k_cancel" ELSE "k_fail")
  /\ UNCHANGED <<callVars, ret, suspect, found, clean, wire, reply, posts,
                 journalVars, controlVars>>

\* The second listing must show no owned open order.
KillResidual(o) ==
  /\ pc[o] = "k_cancel"
  /\ left[o] = {}
  /\ IF \E c \in Orders : venue[c] = "open"
       THEN Goto(o, "k_fail") /\ UNCHANGED reconVars
       ELSE StartReconcile(o, "k_complete")
  /\ UNCHANGED <<callVars, venueVars, journalVars, controlVars>>

\* The context check or a broker call fails, or the success record cannot be
\* written; an order may already be gone.
KillError(o) ==
  /\ pc[o] \in {"k_list", "k_cancel", "k_complete"}
  /\ Goto(o, "k_fail")
  /\ left' = [left EXCEPT ![o] = {}]
  /\ UNCHANGED <<callVars, ret, suspect, found, clean, venueVars, journalVars, controlVars>>

\* A record somebody else closed makes complete_action raise.
KillComplete(o) ==
  /\ pc[o] \in {"k_complete", "k_fail"}
  /\ IF records[grant[o]] = "in_progress"
       THEN CompleteAction(grant[o], pc[o] = "k_complete")
       ELSE UNCHANGED controlVars
  /\ Leave(o)
  /\ UNCHANGED <<venueVars, journalVars>>

\* The explicit failure record an operator writes for an action whose process
\* is gone; the store cannot tell whether it really is.
CloseInterrupted(o, approval) ==
  /\ MayStart(o)
  /\ CompleteAction(approval, FALSE)
  /\ UNCHANGED <<pc, callVars, reconVars, venueVars, journalVars>>

OperatorStep(o) ==
  \/ OperatorPause(o)
  \/ \E approval \in Approvals : ResumeStart(o, approval)
  \/ \E now \in Times : ResumeCommit(o, now)
  \/ \E approval \in Approvals : KillStart(o, approval)
  \/ \E now \in Times : KillBegin(o, now)
  \/ KillList(o)
  \/ KillCancel(o)
  \/ KillResidual(o)
  \/ KillError(o)
  \/ KillComplete(o)
  \/ \E approval \in Approvals : CloseInterrupted(o, approval)

-----------------------------------------------------------------------------
(* The external broker, as the adapter's responses show it *)

Deliver(a, answer) ==
  reply' = IF pc[a] = "x_await" THEN [reply EXCEPT ![a] = answer] ELSE reply

\* The order is created; the response may still be an error.
VenueAccept(a) ==
  /\ a \in wire
  /\ wire' = wire \ {a}
  /\ venue' = [venue EXCEPT ![AttemptOrder[a]] = IF @ = "none" THEN "open" ELSE @]
  /\ \E answer \in {"ok", "error"} : Deliver(a, answer)
  /\ UNCHANGED <<pc, callVars, reconVars, posts, journalVars, controlVars>>

\* The request is refused, fails, or is lost on the way.
VenueRefuse(a) ==
  /\ a \in wire
  /\ wire' = wire \ {a}
  /\ \E answer \in {"rejected", "error", "none"} : Deliver(a, answer)
  /\ UNCHANGED <<pc, venue, callVars, reconVars, posts, journalVars, controlVars>>

\* An open order fills or expires.
VenueClose(c) ==
  /\ venue[c] = "open"
  /\ venue' = [venue EXCEPT ![c] = "closed"]
  /\ UNCHANGED <<pc, wire, reply, posts, callVars, reconVars, journalVars, controlVars>>

VenueStep ==
  \/ \E a \in Attempts : VenueAccept(a) \/ VenueRefuse(a)
  \/ \E c \in Orders : VenueClose(c)

Next ==
  \/ \E a \in Attempts : ExecuteStep(a)
  \/ \E v \in Recoverers : RecoverStep(v)
  \/ \E o \in Operators : OperatorStep(o)
  \/ \E p \in Procs : ReconcileStep(p) \/ Crash(p)
  \/ VenueStep

Spec == Init /\ [][Next]_vars

-----------------------------------------------------------------------------
(* Safety *)

\* FAILURE_INJECTION.md: one client order ID causes at most one POST, over
\* every interleaving of attempts, recoveries, crashes and late requests.
AtMostOneSubmission == \A c \in Orders : posts[c] <= 1

\* A POST is only ever sent after the row was durably claimed as started.
ClaimBeforeSubmission ==
  \A c \in Orders : posts[c] > 0 => subState[c] \notin {"absent", "persisted"}

\* acknowledged and reconciled are evidence: the order exists at the broker.
AcknowledgedOrderExists ==
  \A c \in Orders : subState[c] \in {"acknowledged", "reconciled"} => venue[c] # "none"

\* A row that reached reconciled or rejected never changes state again, not
\* even by a reconciliation that read the row while it was unresolved.
TerminalIsFinal ==
  [][\A c \in Orders : subState[c] \in TerminalStates => subState'[c] = subState[c]]_vars

\* Because open orders are listed before the known IDs are read, reconcile
\* never reports one of its own orders as unexplained_owned_order.
NoFalseUnexplainedOrder ==
  \A p \in Procs : pc[p] \in {"r_unresolved", "r_lookup"} => suspect[p] = {}

\* A kill action in progress holds the system paused, and is alone.
KillHoldsPause ==
  /\ InProgress # {} => paused
  /\ Cardinality(InProgress) <= 1

\* An approval is consumed once: a record never disappears, and a completed
\* or failed one never changes.
ApprovalsUsedOnce ==
  [][\A g \in Approvals :
       /\ records[g] # "unused" => records'[g] # "unused"
       /\ records[g] \in {"completed", "failed"} => records'[g] = records[g]]_vars

\* A rejected row means that no order exists and none can still arrive
\* (FAILURE_INJECTION.md: rejected goes with zero submissions or with a
\* definite broker rejection).
RejectedNeverLive ==
  \A c \in Orders : subState[c] = "rejected" =>
     venue[c] = "none" /\ \A a \in wire : AttemptOrder[a] # c

\* FAILURE_INJECTION.md: unresolved state blocks every new order globally,
\* so no two rows are ever between their insertion and a terminal state.
OneUnresolvedAtATime ==
  \A c, d \in Orders :
    {subState[c], subState[d]} \subseteq SubmissionState \ {"reconciled", "rejected"} => c = d

\* resume_paper_assessments: the system resumes only with nothing unresolved.
ResumeOnlyResolved == [][paused /\ ~paused' => Unresolved = {}]_vars

-----------------------------------------------------------------------------
(* The inductive invariant behind the safety properties *)

\* A call inside reconcile returns to a step of its own service, and a
\* recovery works on the order it was asked for.
CallsInv ==
  /\ \A a \in Attempts : pc[a] \in ReconLabels => ret[a] \in {"x_decide", "x_final"}
  /\ \A v \in Recoverers : pc[v] \in ReconLabels => ret[v] = "v_final"
  /\ \A o \in Operators : pc[o] \in ReconLabels => ret[o] \in {"o_resume", "k_complete"}
  /\ \A v \in Recoverers :
       pc[v] \in {"v_read", "v_lookup", "v_reject", "v_ack"} => target[v] \in Orders

\* Steps between a claim and the POST it licenses, and the steps from which
\* an attempt may still come to claim its order.
PreSend == {"x_check2", "x_lookup", "x_post"}
PreClaim == {"idle", "x_known", "x_assess", "x_decide", "x_require", "x_persist",
             "x_check1", "x_start"}
MayClaim(a) == pc[a] \in PreClaim \/ (pc[a] \in ReconLabels /\ ret[a] = "x_decide")

\* At most one attempt holds the licence to send an order, it has not been
\* used, and a started row names an attempt that is past its claim.
ClaimInv ==
  /\ \A a \in Attempts : pc[a] \in PreSend =>
       /\ subState[AttemptOrder[a]] \notin {"absent", "persisted"}
       /\ posts[AttemptOrder[a]] = 0
  /\ \A a, b \in Attempts :
       pc[a] \in PreSend /\ pc[b] \in PreSend /\ AttemptOrder[a] = AttemptOrder[b] => a = b
  /\ \A c \in Orders : subState[c] \in {"absent", "persisted"} => posts[c] = 0
  /\ \A c \in Orders : posts[c] <= 1
  /\ \A c \in Orders : subState[c] = "started" =>
       \E a \in Attempts : AttemptDigest[a] = subReason[c] /\ ~MayClaim(a)

\* Whoever is about to record an order as acknowledged or reconciled has
\* seen it at the broker, which received it in a POST.
EvidenceInv ==
  /\ \A c \in Orders : venue[c] # "none" => posts[c] = 1
  /\ \A a \in wire : posts[AttemptOrder[a]] = 1
  /\ \A a \in Attempts : pc[a] = "x_ack" \/ reply[a] = "ok" => venue[AttemptOrder[a]] # "none"
  /\ \A v \in Recoverers : pc[v] = "v_ack" => venue[target[v]] # "none"
  /\ \A p \in Procs : \A c \in found[p] : venue[c] # "none"
  /\ \A o \in Operators : pc[o] = "k_cancel" => \A c \in left[o] : venue[c] # "none"
  /\ AcknowledgedOrderExists

\* The inductive invariant: types, call discipline, exclusive claims and
\* broker evidence.
IInv == TypeOK /\ CallsInv /\ ClaimInv /\ EvidenceInv

-----------------------------------------------------------------------------
(* What one call at a time adds: the inductive invariant of a Serialized   *)
(* system, in which nothing a call has read of the journal changes before  *)
(* it writes.                                                              *)

Alone == \A p, q \in Procs : ~Resting(p) /\ ~Resting(q) => p = q

\* execute_once between its first read and its insert.
BeforeInsert(a) ==
  \/ pc[a] \in {"x_known", "x_assess", "x_decide", "x_require", "x_persist"}
  \/ pc[a] \in ReconLabels /\ ret[a] = "x_decide"

\* What an attempt has read of its row is still so, and once its POST is
\* definitely refused nothing of the order is on its way.
AttemptInv(a) ==
  LET c == AttemptOrder[a]
  IN  /\ BeforeInsert(a) => Unresolved = {} /\ (pc[a] # "x_known" => c \notin Known)
      /\ pc[a] \in {"x_check1", "x_unsent1", "x_start"} => subState[c] = "persisted"
      /\ pc[a] \in PreSend \cup {"x_unsent2"} => subState[c] = "started" /\ posts[c] = 0
      /\ pc[a] \in {"x_await", "x_relookup"} => \A b \in wire : AttemptOrder[b] = c => b = a
      /\ pc[a] = "x_refused" => venue[c] = "none" /\ \A b \in wire : AttemptOrder[b] # c

\* The same of a recovery; a clean reconcile will resolve every row, and a
\* clean report means that it did.
RecoveryInv(v) ==
  /\ pc[v] = "v_lookup" => subState[target[v]] = entry[v]
  /\ pc[v] = "v_reject" => subState[target[v]] = "persisted"

CleanInv(p) ==
  /\ pc[p] = "r_lookup" /\ clean[p] => Unresolved \subseteq left[p] \cup found[p]
  /\ pc[p] = "o_resume" /\ clean[p] => Unresolved = {}

\* A refusal answers the one POST of its attempt.
ReplyInv ==
  \A a \in Attempts : /\ MayClaim(a) \/ pc[a] \in PreSend => reply[a] = "none"
                      /\ reply[a] = "rejected" => a \notin wire

SerialInv ==
  /\ Alone
  /\ \A a \in Attempts : AttemptInv(a)
  /\ \A v \in Recoverers : RecoveryInv(v)
  /\ \A p \in Procs : CleanInv(p)
  /\ ReplyInv
  /\ RejectedNeverLive
  /\ OneUnresolvedAtATime

-----------------------------------------------------------------------------
(* Liveness *)

\* A call that has started takes its next step.
Running(p) ==
  /\ ~Resting(p)
  /\ \/ p \in Attempts /\ ExecuteStep(p)
     \/ p \in Recoverers /\ RecoverStep(p)
     \/ p \in Operators /\ OperatorStep(p)
     \/ ReconcileStep(p)

\* An order that reached the broker is eventually reconciled, whatever
\* crashed in between.
LiveOrderReconciled ==
  \A c \in Orders : venue[c] # "none" ~> subState[c] = "reconciled"

\* A row whose executor died before the claim does not block for ever.
PersistedRowResolved ==
  \A c \in Orders : subState[c] = "persisted" ~> subState[c] # "persisted"

-----------------------------------------------------------------------------
(* The contract this implements, with the durable rows, the POST counter   *)
(* and the broker's book as its state.                                     *)

Outcome(state) ==
  IF state = "reconciled" THEN "resolved" ELSE IF state = "rejected" THEN "rejected" ELSE "open"

Contract == INSTANCE SubmissionContract WITH
  durable <- Known,
  sends <- posts,
  exists <- {c \in Orders : venue[c] # "none"},
  outcome <- [c \in Orders |-> Outcome(subState[c])]

\* Every step of the order path is a step of the contract or invisible to it.
ImplementsContract == Contract!Spec
=============================================================================
