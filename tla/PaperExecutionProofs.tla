------------------------ MODULE PaperExecutionProofs ------------------------
(***************************************************************************)
(* Proof of the inductive invariant of the paper order path, for any       *)
(* number of attempts, recoverers, operators, orders and payloads, and of  *)
(* the safety properties it implies.  IInv has four parts: TypeOK; the     *)
(* calls each process is in (CallsInv); who may send which request         *)
(* (ClaimInv); and that what a process was told about the broker is true   *)
(* (EvidenceInv).  Each part has one lemma per kind of process.            *)
(***************************************************************************)
EXTENDS PaperExecution, TLAPS

USE ExecutionConstants, JournalConstants

\* Moving a process to a step of its own kind keeps its program counter
\* typed.
LEMMA GotoTypes ==
  ASSUME PcTypeOK, NEW p \in Procs, NEW label,
         p \in Attempts => label \in ReconLabels \cup AttemptLabels,
         p \in Recoverers => label \in ReconLabels \cup RecoverLabels,
         p \in Operators => label \in ReconLabels \cup OperatorLabels,
         Goto(p, label)
  PROVE  PcTypeOK'
BY DEF PcTypeOK, Goto, Procs

\* A process that leaves a call clears what the call held, and stays typed.
LEMMA LeaveTypes ==
  ASSUME PcTypeOK, CallTypeOK, ReconTypeOK, NEW p \in Procs, Leave(p)
  PROVE  PcTypeOK' /\ CallTypeOK' /\ ReconTypeOK'
<1>1. PcTypeOK'
  BY GotoTypes DEF Leave, EndOf, Procs, AttemptLabels, RecoverLabels, OperatorLabels
<1>2. CallTypeOK'
  BY DEF Leave, CallTypeOK
<1>3. ReconTypeOK'
  BY DEF Leave, ReconTypeOK
<1> QED BY <1>1, <1>2, <1>3

\* Entering reconcile with a place to return to keeps the types.
LEMMA StartReconcileTypes ==
  ASSUME PcTypeOK, ReconTypeOK, NEW p \in Procs, NEW label \in Returns,
         StartReconcile(p, label)
  PROVE  PcTypeOK' /\ ReconTypeOK'
<1>1. PcTypeOK'
  BY GotoTypes DEF StartReconcile, ReconLabels
<1>2. ReconTypeOK'
  BY DEF StartReconcile, ReconTypeOK
<1> QED BY <1>1, <1>2

\* An accepted transition of a row writes a state of the schema.
LEMMA TransitionTypes ==
  ASSUME JournalTypeOK, NEW c, NEW state \in SubmissionState,
         NEW reason \in Digests \cup Reasons \cup {None},
         TransitionSubmission(c, state, reason)
  PROVE  JournalTypeOK'
BY DEF JournalTypeOK, TransitionSubmission

\* persist writes a whole row of the schema, or nothing.
LEMMA PersistTypes ==
  ASSUME JournalTypeOK, NEW c \in Orders, NEW payload \in Payloads,
         PersistApprovedOrder(c, payload)
  PROVE  JournalTypeOK'
BY DEF JournalTypeOK, PersistApprovedOrder, journalVars, SubmissionState

\* The resolutions of apply_reconciliation write states of the schema.
LEMMA ApplyTypes ==
  ASSUME JournalTypeOK, NEW resolved, ApplyResolutions(resolved)
  PROVE  JournalTypeOK'
BY DEF JournalTypeOK, ApplyResolutions, SubmissionState

\* What a step leaves alone keeps its type.
LEMMA UnchangedTypes ==
  /\ JournalTypeOK /\ UNCHANGED journalVars => JournalTypeOK'
  /\ ControlTypeOK /\ UNCHANGED controlVars => ControlTypeOK'
  /\ CallTypeOK /\ UNCHANGED callVars => CallTypeOK'
  /\ ReconTypeOK /\ UNCHANGED reconVars => ReconTypeOK'
  /\ VenueTypeOK /\ UNCHANGED venueVars => VenueTypeOK'
<1>1. JournalTypeOK /\ UNCHANGED journalVars => JournalTypeOK'
  BY DEF JournalTypeOK, journalVars
<1>2. ControlTypeOK /\ UNCHANGED controlVars => ControlTypeOK'
  BY DEF ControlTypeOK, controlVars
<1>3. CallTypeOK /\ UNCHANGED callVars => CallTypeOK'
  BY DEF CallTypeOK, callVars
<1>4. ReconTypeOK /\ UNCHANGED reconVars => ReconTypeOK'
  BY DEF ReconTypeOK, reconVars
<1>5. VenueTypeOK /\ UNCHANGED venueVars => VenueTypeOK'
  BY DEF VenueTypeOK, venueVars
<1> QED BY <1>1, <1>2, <1>3, <1>4, <1>5

\* The operations of the operator store keep its rows typed.
LEMMA ControlTypes ==
  ASSUME ControlTypeOK
  PROVE  /\ Pause => ControlTypeOK'
         /\ \A g, now : Resume(g, now) => ControlTypeOK'
         /\ \A g, action, now : BeginAction(g, action, now) => ControlTypeOK'
         /\ \A g, ok : CompleteAction(g, ok) => ControlTypeOK'
BY DEF ControlTypeOK, Pause, Resume, BeginAction, CompleteAction, RecordState

\* Types are preserved by every step of execute_once.
LEMMA AttemptTypes ==
  ASSUME TypeOK, CallsInv, NEW a \in Attempts, ExecuteStep(a)
  PROVE  TypeOK'
<1> USE UnchangedTypes DEF TypeOK
<1> a \in Procs /\ AttemptOrder[a] \in Orders
  BY DEF Procs
<1>1. CASE ExecuteStart(a)
  BY <1>1, GotoTypes DEF ExecuteStart, AttemptLabels
<1>2. CASE ExecuteKnown(a)
  BY <1>2, GotoTypes, LeaveTypes DEF ExecuteKnown, AttemptLabels
<1>3. CASE ExecuteAssess(a)
  BY <1>3, LeaveTypes, StartReconcileTypes DEF ExecuteAssess, Returns
<1>4. CASE ExecuteDecide(a)
  BY <1>4, GotoTypes, LeaveTypes DEF ExecuteDecide, AttemptLabels
<1>5. CASE ExecuteRequireUnpaused(a)
  BY <1>5, GotoTypes, LeaveTypes DEF ExecuteRequireUnpaused, AttemptLabels
<1>6. CASE ExecutePersist(a)
  BY <1>6, GotoTypes, LeaveTypes, PersistTypes DEF ExecutePersist, AttemptLabels
<1>7. CASE ExecuteCheckPause(a, "x_check1", "x_start", "x_unsent1")
  BY <1>7, GotoTypes DEF ExecuteCheckPause, AttemptLabels
<1>8. CASE ExecuteRejectUnsent(a, "x_unsent1", "operator_paused_after_persist")
  BY <1>8, LeaveTypes, TransitionTypes DEF ExecuteRejectUnsent, SubmissionState, Reasons
<1>9. CASE ExecuteClaim(a)
  BY <1>9, GotoTypes, LeaveTypes, TransitionTypes
     DEF ExecuteClaim, AttemptLabels, SubmissionState
<1>10. CASE ExecuteCheckPause(a, "x_check2", "x_lookup", "x_unsent2")
  BY <1>10, GotoTypes DEF ExecuteCheckPause, AttemptLabels
<1>11. CASE ExecuteRejectUnsent(a, "x_unsent2", "operator_paused_before_submit")
  BY <1>11, LeaveTypes, TransitionTypes DEF ExecuteRejectUnsent, SubmissionState, Reasons
<1>12. CASE SubmitLookup(a)
  BY <1>12, GotoTypes DEF SubmitLookup, AttemptLabels
<1>13. CASE SubmitPost(a)
  <2>1. VenueTypeOK'
    BY <1>13 DEF SubmitPost, VenueTypeOK
  <2> QED BY <2>1, <1>13, GotoTypes DEF SubmitPost, AttemptLabels
<1>14. CASE SubmitResponse(a)
  <2>1. VenueTypeOK'
    BY <1>14 DEF SubmitResponse, VenueTypeOK, Replies
  <2>2. PcTypeOK'
    BY <1>14, GotoTypes DEF SubmitResponse, AttemptLabels
  <2> QED BY <2>1, <2>2, <1>14 DEF SubmitResponse
<1>15. CASE SubmitRelookup(a)
  BY <1>15, GotoTypes DEF SubmitRelookup, AttemptLabels
<1>16. CASE SubmitFail(a)
  BY <1>16, GotoTypes DEF SubmitFail, AttemptLabels
<1>17. CASE ExecuteAcknowledge(a)
  BY <1>17, GotoTypes, StartReconcileTypes, TransitionTypes
     DEF ExecuteAcknowledge, AttemptLabels, SubmissionState, Returns
<1>18. CASE ExecuteRefused(a)
  BY <1>18, GotoTypes, LeaveTypes, TransitionTypes
     DEF ExecuteRefused, AttemptLabels, SubmissionState, Reasons
<1>19. CASE ExecuteAmbiguous(a)
  BY <1>19, GotoTypes, TransitionTypes
     DEF ExecuteAmbiguous, AttemptLabels, SubmissionState, Reasons
<1>20. CASE ExecuteFinal(a)
  BY <1>20, GotoTypes, LeaveTypes DEF ExecuteFinal, AttemptLabels
<1>21. CASE ExecutePause(a)
  BY <1>21, LeaveTypes, ControlTypes DEF ExecutePause
<1> QED
  BY <1>1, <1>2, <1>3, <1>4, <1>5, <1>6, <1>7, <1>8, <1>9, <1>10, <1>11, <1>12, <1>13,
     <1>14, <1>15, <1>16, <1>17, <1>18, <1>19, <1>20, <1>21 DEF ExecuteStep

\* Types are preserved by every step of recover.
LEMMA RecoverTypes ==
  ASSUME TypeOK, CallsInv, NEW v \in Recoverers, RecoverStep(v)
  PROVE  TypeOK'
<1> USE UnchangedTypes DEF TypeOK
<1> v \in Procs /\ v \notin Attempts
  BY DEF Procs
<1>1. ASSUME NEW c \in Orders, RecoverStart(v, c) PROVE TypeOK'
  <2>1. CallTypeOK'
    BY <1>1 DEF RecoverStart, CallTypeOK
  <2> QED BY <2>1, <1>1, GotoTypes, ControlTypes DEF RecoverStart, RecoverLabels
<1>2. ASSUME NEW expected \in Payloads, RecoverRead(v, expected) PROVE TypeOK'
  <2>1. CASE Leave(v)
    BY <2>1, <1>2, LeaveTypes DEF RecoverRead
  <2>2. CASE ~Leave(v)
    <3>1. target[v] \in Orders
      BY <1>2 DEF RecoverRead, CallsInv
    <3>2. CallTypeOK'
      BY <1>2, <2>2, <3>1 DEF RecoverRead, CallTypeOK, JournalTypeOK
    <3> QED BY <3>2, <2>2, <1>2, GotoTypes DEF RecoverRead, RecoverLabels
  <2> QED BY <2>1, <2>2
<1>3. CASE RecoverLookup(v)
  BY <1>3, GotoTypes, LeaveTypes, StartReconcileTypes DEF RecoverLookup, RecoverLabels, Returns
<1>4. CASE RecoverReject(v)
  BY <1>4, LeaveTypes, TransitionTypes DEF RecoverReject, SubmissionState, Reasons
<1>5. CASE RecoverAcknowledge(v)
  BY <1>5, LeaveTypes, StartReconcileTypes, TransitionTypes
     DEF RecoverAcknowledge, SubmissionState, Returns
<1>6. CASE RecoverFinal(v)
  BY <1>6, LeaveTypes DEF RecoverFinal
<1> QED BY <1>1, <1>2, <1>3, <1>4, <1>5, <1>6 DEF RecoverStep

\* Types are preserved by every step of the operator actions.
LEMMA OperatorTypes ==
  ASSUME TypeOK, CallsInv, NEW o \in Operators, OperatorStep(o)
  PROVE  TypeOK'
<1> USE UnchangedTypes DEF TypeOK
<1> o \in Procs /\ o \notin Attempts /\ o \notin Recoverers
  BY DEF Procs
<1>0. PcTypeOK /\ UNCHANGED pc => PcTypeOK'
  BY DEF PcTypeOK
<1>1. CASE OperatorPause(o)
  BY <1>0, <1>1, ControlTypes DEF OperatorPause
<1>2. ASSUME NEW g \in Approvals, ResumeStart(o, g) PROVE TypeOK'
  <2>1. CallTypeOK'
    BY <1>2 DEF ResumeStart, CallTypeOK
  <2> QED BY <2>1, <1>2, StartReconcileTypes DEF ResumeStart, Returns
<1>3. ASSUME NEW now \in Times, ResumeCommit(o, now) PROVE TypeOK'
  BY <1>3, LeaveTypes, ControlTypes DEF ResumeCommit
<1>4. ASSUME NEW g \in Approvals, KillStart(o, g) PROVE TypeOK'
  <2>1. CallTypeOK'
    BY <1>4 DEF KillStart, CallTypeOK
  <2> QED BY <2>1, <1>4, GotoTypes, ControlTypes DEF KillStart, OperatorLabels
<1>5. ASSUME NEW now \in Times, KillBegin(o, now) PROVE TypeOK'
  BY <1>5, GotoTypes, LeaveTypes, ControlTypes DEF KillBegin, OperatorLabels
<1>6. CASE KillList(o)
  <2>1. ReconTypeOK'
    BY <1>6 DEF KillList, ReconTypeOK
  <2> QED BY <2>1, <1>6, GotoTypes DEF KillList, OperatorLabels
<1>7. CASE KillCancel(o)
  <2>1. ReconTypeOK'
    BY <1>7 DEF KillCancel, ReconTypeOK
  <2>2. VenueTypeOK'
    BY <1>7 DEF KillCancel, VenueTypeOK
  <2> QED BY <2>1, <2>2, <1>7, GotoTypes DEF KillCancel, OperatorLabels
<1>8. CASE KillResidual(o)
  BY <1>8, GotoTypes, StartReconcileTypes DEF KillResidual, OperatorLabels, Returns
<1>9. CASE KillError(o)
  <2>1. ReconTypeOK'
    BY <1>9 DEF KillError, ReconTypeOK
  <2> QED BY <2>1, <1>9, GotoTypes DEF KillError, OperatorLabels
<1>10. CASE KillComplete(o)
  BY <1>10, LeaveTypes, ControlTypes DEF KillComplete
<1>11. ASSUME NEW g \in Approvals, CloseInterrupted(o, g) PROVE TypeOK'
  BY <1>0, <1>11, ControlTypes DEF CloseInterrupted
<1> QED
  BY <1>1, <1>2, <1>3, <1>4, <1>5, <1>6, <1>7, <1>8, <1>9, <1>10, <1>11 DEF OperatorStep

\* Types are preserved by every step of reconcile, whoever called it.
LEMMA ReconcileTypes ==
  ASSUME TypeOK, CallsInv, NEW p \in Procs, ReconcileStep(p)
  PROVE  TypeOK'
<1> USE UnchangedTypes DEF TypeOK
<1>0. PcTypeOK /\ UNCHANGED pc => PcTypeOK'
  BY DEF PcTypeOK
<1>1. CASE ReconcileOpenOrders(p)
  <2>1. ReconTypeOK'
    BY <1>1 DEF ReconcileOpenOrders, ReconTypeOK
  <2> QED BY <2>1, <1>1, GotoTypes DEF ReconcileOpenOrders, ReconLabels
<1>2. CASE ReconcileKnown(p)
  <2>1. ReconTypeOK'
    BY <1>2 DEF ReconcileKnown, ReconTypeOK
  <2> QED BY <2>1, <1>2, GotoTypes DEF ReconcileKnown, ReconLabels
<1>3. CASE ReconcileUnresolved(p)
  <2>1. ReconTypeOK'
    BY <1>3 DEF ReconcileUnresolved, ReconTypeOK, Unresolved, Known
  <2> QED BY <2>1, <1>3, GotoTypes DEF ReconcileUnresolved, ReconLabels
<1>4. CASE ReconcileLookup(p)
  <2>1. ReconTypeOK'
    <3>1. PICK c \in left[p] :
            /\ left' = [left EXCEPT ![p] = @ \ {c}]
            /\ \/ found' = found
               \/ found' = [found EXCEPT ![p] = @ \cup {c}]
            /\ \/ clean' = clean
               \/ clean' = [clean EXCEPT ![p] = FALSE]
      BY <1>4 DEF ReconcileLookup
    <3>2. c \in Orders
      BY <3>1 DEF ReconTypeOK
    <3>3. ret' = ret /\ suspect' = suspect
      BY <1>4 DEF ReconcileLookup
    <3>4. left' \in [Procs -> SUBSET Orders] /\ clean' \in [Procs -> BOOLEAN]
      BY <3>1 DEF ReconTypeOK
    <3>5. found' \in [Procs -> SUBSET Orders]
      BY <3>1, <3>2 DEF ReconTypeOK
    <3> QED BY <3>3, <3>4, <3>5 DEF ReconTypeOK
  <2> QED BY <1>0, <2>1, <1>4 DEF ReconcileLookup
<1>5. CASE ReconcileApply(p)
  <2>1. ReconTypeOK'
    BY <1>5 DEF ReconcileApply, ReconTypeOK
  <2>2. PcTypeOK'
    BY <1>5, GotoTypes
       DEF ReconcileApply, CallsInv, ReconLabels, AttemptLabels, RecoverLabels, OperatorLabels
  <2> QED BY <2>1, <2>2, <1>5, ApplyTypes DEF ReconcileApply
<1>6. CASE ReconcileFail(p)
  <2>1. ReconTypeOK'
    BY <1>6 DEF ReconcileFail, ReconTypeOK
  <2>2. PcTypeOK'
    <3>1. CASE ret[p] = "x_final"
      <4>1. p \in Attempts /\ p \notin Recoverers /\ p \notin Operators
        BY <1>6, <3>1 DEF ReconcileFail, CallsInv, Procs
      <4> QED BY <1>6, <3>1, <4>1, GotoTypes DEF ReconcileFail, AttemptLabels
    <3>2. CASE ret[p] = "k_complete"
      <4>1. p \in Operators /\ p \notin Recoverers /\ p \notin Attempts
        BY <1>6, <3>2 DEF ReconcileFail, CallsInv, Procs
      <4> QED BY <1>6, <3>2, <4>1, GotoTypes DEF ReconcileFail, OperatorLabels
    <3> QED BY <1>6, <3>1, <3>2 DEF ReconcileFail
  <2> QED BY <2>1, <2>2, <1>6 DEF ReconcileFail
<1> QED BY <1>1, <1>2, <1>3, <1>4, <1>5, <1>6 DEF ReconcileStep

\* Types are preserved by the crash of a process.
LEMMA CrashTypes ==
  ASSUME TypeOK, NEW p \in Procs, Crash(p)
  PROVE  TypeOK'
BY UnchangedTypes, LeaveTypes DEF Crash, TypeOK

\* Types are preserved by the broker's own steps.
LEMMA VenueTypes ==
  ASSUME TypeOK, VenueStep
  PROVE  TypeOK'
<1> USE UnchangedTypes DEF TypeOK
<1>0. PcTypeOK /\ UNCHANGED pc => PcTypeOK'
  BY DEF PcTypeOK
<1>1. ASSUME NEW a \in Attempts, VenueAccept(a) PROVE TypeOK'
  <2>1. VenueTypeOK'
    BY <1>1 DEF VenueAccept, Deliver, VenueTypeOK, Replies
  <2> QED BY <1>0, <2>1, <1>1 DEF VenueAccept
<1>2. ASSUME NEW a \in Attempts, VenueRefuse(a) PROVE TypeOK'
  <2>1. VenueTypeOK'
    BY <1>2 DEF VenueRefuse, Deliver, VenueTypeOK, Replies
  <2> QED BY <1>0, <2>1, <1>2 DEF VenueRefuse
<1>3. ASSUME NEW c \in Orders, VenueClose(c) PROVE TypeOK'
  <2>1. VenueTypeOK'
    BY <1>3 DEF VenueClose, VenueTypeOK
  <2> QED BY <1>0, <2>1, <1>3 DEF VenueClose
<1> QED BY <1>1, <1>2, <1>3 DEF VenueStep

-----------------------------------------------------------------------------
\* What a step of p leaves alone: where the other calls are, where they
\* return to, what they collected and which order they recover.
Frame(p) ==
  /\ \A q \in Procs \ {p} : /\ pc'[q] = pc[q]
                            /\ ret'[q] = ret[q]
                            /\ found'[q] = found[q]
                            /\ left'[q] = left[q]
                            /\ suspect'[q] = suspect[q]
  /\ \A v \in Recoverers \ {p} : target'[v] = target[v]

\* A move of one process touches no other process.
LEMMA MoveFrame ==
  ASSUME TypeOK, NEW p \in Procs, NEW label
  PROVE  /\ Goto(p, label) /\ UNCHANGED <<callVars, reconVars>> => Frame(p)
         /\ Leave(p) => Frame(p)
         /\ StartReconcile(p, label) /\ UNCHANGED callVars => Frame(p)
<1> USE DEF TypeOK, PcTypeOK, ReconTypeOK, CallTypeOK
<1>1. Goto(p, label) /\ UNCHANGED <<callVars, reconVars>> => Frame(p)
  BY DEF Goto, callVars, reconVars, Frame
<1>2. Leave(p) => Frame(p)
  BY DEF Leave, Goto, Frame
<1>3. StartReconcile(p, label) /\ UNCHANGED callVars => Frame(p)
  BY DEF StartReconcile, Goto, callVars, Frame
<1> QED BY <1>1, <1>2, <1>3

\* A step of execute_once touches the local state of its own process only.
LEMMA AttemptFrame ==
  ASSUME TypeOK, NEW a \in Attempts, ExecuteStep(a)
  PROVE  Frame(a)
<1> a \in Procs
  BY DEF Procs
<1> QED
  BY MoveFrame
     DEF ExecuteStep, ExecuteStart, ExecuteKnown, ExecuteAssess, ExecuteDecide,
         ExecuteRequireUnpaused, ExecutePersist, ExecuteCheckPause, ExecuteRejectUnsent,
         ExecuteClaim, SubmitLookup, SubmitPost, SubmitResponse, SubmitRelookup, SubmitFail,
         ExecuteAcknowledge, ExecuteRefused, ExecuteAmbiguous, ExecuteFinal, ExecutePause

\* So does a step of recover.
LEMMA RecoverFrame ==
  ASSUME TypeOK, NEW v \in Recoverers, RecoverStep(v)
  PROVE  Frame(v)
<1> USE MoveFrame DEF TypeOK, PcTypeOK, CallTypeOK
<1> v \in Procs
  BY DEF Procs
<1>1. ASSUME NEW c \in Orders, RecoverStart(v, c) PROVE Frame(v)
  BY <1>1 DEF RecoverStart, Goto, reconVars, Frame
<1>2. ASSUME NEW expected \in Payloads, RecoverRead(v, expected) PROVE Frame(v)
  <2>1. CASE Leave(v)
    BY <2>1
  <2>2. CASE ~Leave(v)
    BY <1>2, <2>2 DEF RecoverRead, Goto, reconVars, Frame
  <2> QED BY <2>1, <2>2
<1>3. CASE RecoverLookup(v)
  BY <1>3 DEF RecoverLookup
<1>4. CASE RecoverReject(v) \/ RecoverAcknowledge(v) \/ RecoverFinal(v)
  BY <1>4 DEF RecoverReject, RecoverAcknowledge, RecoverFinal
<1> QED BY <1>1, <1>2, <1>3, <1>4 DEF RecoverStep

\* So does a step of an operator action.
LEMMA OperatorFrame ==
  ASSUME TypeOK, NEW o \in Operators, OperatorStep(o)
  PROVE  Frame(o)
<1> USE MoveFrame
<1> o \in Procs
  BY DEF Procs
<1>1. CASE OperatorPause(o) \/ (\E g \in Approvals : CloseInterrupted(o, g))
  BY <1>1 DEF OperatorPause, CloseInterrupted, callVars, reconVars, Frame
<1>2. ASSUME NEW g \in Approvals, ResumeStart(o, g) PROVE Frame(o)
  BY <1>2 DEF ResumeStart, StartReconcile, Goto, Frame, TypeOK, PcTypeOK, ReconTypeOK
<1>3. CASE \E now \in Times : ResumeCommit(o, now) \/ KillBegin(o, now)
  BY <1>3 DEF ResumeCommit, KillBegin
<1>4. ASSUME NEW g \in Approvals, KillStart(o, g) PROVE Frame(o)
  BY <1>4 DEF KillStart, Goto, Frame, reconVars, TypeOK, PcTypeOK
<1>5. CASE KillList(o) \/ KillError(o)
  BY <1>5 DEF KillList, KillError, Goto, Frame, callVars, TypeOK, PcTypeOK, ReconTypeOK
<1>6. CASE KillCancel(o)
  BY <1>6 DEF KillCancel, Goto, Frame, callVars, TypeOK, PcTypeOK, ReconTypeOK
<1>7. CASE KillResidual(o) \/ KillComplete(o)
  BY <1>7 DEF KillResidual, KillComplete
<1> QED BY <1>1, <1>2, <1>3, <1>4, <1>5, <1>6, <1>7 DEF OperatorStep

\* So does a step of reconcile.
LEMMA ReconcileFrame ==
  ASSUME TypeOK, NEW p \in Procs, ReconcileStep(p)
  PROVE  Frame(p)
<1> USE DEF TypeOK, PcTypeOK, ReconTypeOK, Goto, callVars, Frame
<1>1. CASE ReconcileOpenOrders(p) \/ ReconcileKnown(p) \/ ReconcileUnresolved(p)
  BY <1>1 DEF ReconcileOpenOrders, ReconcileKnown, ReconcileUnresolved
<1>2. CASE ReconcileLookup(p)
  BY <1>2 DEF ReconcileLookup
<1>3. CASE ReconcileApply(p)
  BY <1>3 DEF ReconcileApply
<1>4. CASE ReconcileFail(p)
  BY <1>4 DEF ReconcileFail
<1> QED BY <1>1, <1>2, <1>3, <1>4 DEF ReconcileStep

\* So does a crash.
LEMMA CrashFrame ==
  ASSUME TypeOK, NEW p \in Procs, Crash(p)
  PROVE  Frame(p)
BY MoveFrame DEF Crash

-----------------------------------------------------------------------------
\* The call discipline of one process.
CallOK(p) ==
  /\ p \in Attempts /\ pc[p] \in ReconLabels => ret[p] \in {"x_decide", "x_final"}
  /\ p \in Recoverers /\ pc[p] \in ReconLabels => ret[p] = "v_final"
  /\ p \in Operators /\ pc[p] \in ReconLabels => ret[p] \in {"o_resume", "k_complete"}
  /\ p \in Recoverers /\ pc[p] \in {"v_read", "v_lookup", "v_reject", "v_ack"} =>
       target[p] \in Orders

\* A framed step that keeps the call of its own process in order keeps all
\* calls in order.
LEMMA CallsStep ==
  ASSUME CallsInv, NEW p \in Procs, Frame(p), CallOK(p)'
  PROVE  CallsInv'
BY DEF CallsInv, Frame, CallOK, Procs

\* The calls of an attempt stay in order.
LEMMA AttemptCalls ==
  ASSUME TypeOK, CallsInv, NEW a \in Attempts, ExecuteStep(a)
  PROVE  CallsInv'
<1> a \in Procs /\ a \notin Recoverers /\ a \notin Operators
  BY DEF Procs
<1> USE DEF TypeOK, PcTypeOK, ReconTypeOK
<1>1. pc'[a] \in ReconLabels => ret'[a] \in {"x_decide", "x_final"}
  <2>1. CASE ExecuteAssess(a)
    BY <2>1 DEF ExecuteAssess, Leave, StartReconcile, Goto, EndOf, ReconLabels
  <2>2. CASE ExecuteAcknowledge(a)
    BY <2>2 DEF ExecuteAcknowledge, StartReconcile, Goto, ReconLabels
  <2>3. CASE ~ExecuteAssess(a) /\ ~ExecuteAcknowledge(a)
    BY <2>3
       DEF ExecuteStep, ExecuteStart, ExecuteKnown, ExecuteDecide, ExecuteRequireUnpaused,
           ExecutePersist, ExecuteCheckPause, ExecuteRejectUnsent, ExecuteClaim, SubmitLookup,
           SubmitPost, SubmitResponse, SubmitRelookup, SubmitFail, ExecuteRefused,
           ExecuteAmbiguous, ExecuteFinal, ExecutePause, Leave, Goto, EndOf, ReconLabels
  <2> QED BY <2>1, <2>2, <2>3
<1> QED BY <1>1, AttemptFrame, CallsStep DEF CallOK

\* The calls of a recovery stay in order.
LEMMA RecoverCalls ==
  ASSUME TypeOK, CallsInv, NEW v \in Recoverers, RecoverStep(v)
  PROVE  CallsInv'
<1> v \in Procs /\ v \notin Attempts /\ v \notin Operators
  BY DEF Procs
<1> USE DEF TypeOK, PcTypeOK, ReconTypeOK, CallTypeOK, Leave, Goto, EndOf, ReconLabels, CallOK
<1> SUFFICES CallOK(v)'
  BY RecoverFrame, CallsStep
<1>1. ASSUME NEW c \in Orders, RecoverStart(v, c) PROVE CallOK(v)'
  BY <1>1 DEF RecoverStart
<1>2. ASSUME NEW expected \in Payloads, RecoverRead(v, expected) PROVE CallOK(v)'
  BY <1>2 DEF RecoverRead, CallsInv
<1>3. CASE RecoverLookup(v)
  BY <1>3 DEF RecoverLookup, StartReconcile, CallsInv, callVars
<1>4. CASE RecoverReject(v) \/ RecoverFinal(v)
  BY <1>4 DEF RecoverReject, RecoverFinal
<1>5. CASE RecoverAcknowledge(v)
  BY <1>5 DEF RecoverAcknowledge, StartReconcile
<1> QED BY <1>1, <1>2, <1>3, <1>4, <1>5 DEF RecoverStep

\* The calls of an operator action stay in order.
LEMMA OperatorCalls ==
  ASSUME TypeOK, CallsInv, NEW o \in Operators, OperatorStep(o)
  PROVE  CallsInv'
<1> o \in Procs /\ o \notin Attempts /\ o \notin Recoverers
  BY DEF Procs
<1> USE DEF TypeOK, PcTypeOK, ReconTypeOK, Goto, ReconLabels, CallOK
<1> SUFFICES CallOK(o)'
  BY OperatorFrame, CallsStep
<1>1. CASE OperatorPause(o) \/ (\E g \in Approvals : CloseInterrupted(o, g))
  BY <1>1 DEF OperatorPause, CloseInterrupted, reconVars, CallsInv
<1>2. CASE (\E g \in Approvals : ResumeStart(o, g)) \/ KillResidual(o)
  BY <1>2 DEF ResumeStart, KillResidual, StartReconcile
<1>3. CASE \E now \in Times : ResumeCommit(o, now) \/ KillBegin(o, now)
  BY <1>3 DEF ResumeCommit, KillBegin, Leave, EndOf
<1>4. CASE \E g \in Approvals : KillStart(o, g)
  BY <1>4 DEF KillStart
<1>5. CASE KillList(o) \/ KillCancel(o) \/ KillError(o)
  BY <1>5 DEF KillList, KillCancel, KillError
<1>6. CASE KillComplete(o)
  BY <1>6 DEF KillComplete, Leave, EndOf
<1> QED BY <1>1, <1>2, <1>3, <1>4, <1>5, <1>6 DEF OperatorStep

\* The calls of reconcile stay in order.
LEMMA ReconcileCalls ==
  ASSUME TypeOK, CallsInv, NEW p \in Procs, ReconcileStep(p)
  PROVE  CallsInv'
<1> USE DEF TypeOK, PcTypeOK, ReconTypeOK, Goto, ReconLabels, CallOK, CallsInv
<1> SUFFICES CallOK(p)'
  BY ReconcileFrame, CallsStep
<1>1. CASE ReconcileOpenOrders(p) \/ ReconcileKnown(p) \/ ReconcileUnresolved(p)
  BY <1>1 DEF ReconcileOpenOrders, ReconcileKnown, ReconcileUnresolved
<1>2. CASE ReconcileLookup(p)
  BY <1>2 DEF ReconcileLookup
<1>3. CASE ReconcileApply(p)
  BY <1>3 DEF ReconcileApply
<1>4. CASE ReconcileFail(p)
  BY <1>4 DEF ReconcileFail
<1> QED BY <1>1, <1>2, <1>3, <1>4 DEF ReconcileStep

\* A crash leaves no call half open.
LEMMA CrashCalls ==
  ASSUME TypeOK, CallsInv, NEW p \in Procs, Crash(p)
  PROVE  CallsInv'
<1>1. CallOK(p)'
  BY DEF Crash, Leave, Goto, EndOf, ReconLabels, CallOK, TypeOK, PcTypeOK
<1> QED BY <1>1, CrashFrame, CallsStep

\* The broker's steps do not touch the calls.
LEMMA VenueCalls ==
  ASSUME CallsInv, VenueStep
  PROVE  CallsInv'
BY DEF VenueStep, VenueAccept, VenueRefuse, VenueClose, callVars, reconVars, CallsInv

-----------------------------------------------------------------------------
\* How every step but a claim may change a row.
RowStep ==
  \A c \in Orders :
    \/ subState'[c] = subState[c] /\ subReason'[c] = subReason[c]
    \/ subState[c] = "absent" /\ subState'[c] = "persisted"
    \/ subState'[c] \notin {"absent", "persisted", "started"}

\* Every write to the journal is a legal move of each row: this is what the
\* transition table is for.
LEMMA RowSteps ==
  ASSUME JournalTypeOK
  PROVE  /\ UNCHANGED journalVars => RowStep
         /\ \A c \in Orders, payload \in Payloads : PersistApprovedOrder(c, payload) => RowStep
         /\ \A c \in Orders, state \in {"acknowledged", "ambiguous", "rejected"} : \A reason :
              TransitionSubmission(c, state, reason) => RowStep
         /\ \A resolved : ApplyResolutions(resolved) => RowStep
<1> USE DEF JournalTypeOK, RowStep
<1>1. UNCHANGED journalVars => RowStep
  BY DEF journalVars
<1>2. \A c \in Orders, payload \in Payloads : PersistApprovedOrder(c, payload) => RowStep
  BY DEF PersistApprovedOrder, journalVars
<1>3. \A c \in Orders, state \in {"acknowledged", "ambiguous", "rejected"} : \A reason :
        TransitionSubmission(c, state, reason) => RowStep
  BY DEF TransitionSubmission
<1>4. \A resolved : ApplyResolutions(resolved) => RowStep
  BY DEF ApplyResolutions
<1> QED BY <1>1, <1>2, <1>3, <1>4

\* Legal row moves without a POST keep the claim invariant, if the holders of
\* claims stay the same.
LEMMA ClaimStep ==
  ASSUME TypeOK, ClaimInv, RowStep, posts' = posts,
         \A a \in Attempts : pc'[a] \in PreSend => pc[a] \in PreSend,
         \A a \in Attempts : MayClaim(a)' => MayClaim(a)
  PROVE  ClaimInv'
<1> \A a \in Attempts : AttemptOrder[a] \in Orders
  OBVIOUS
<1>1. \A a \in Attempts : pc'[a] \in PreSend =>
        /\ subState'[AttemptOrder[a]] \notin {"absent", "persisted"}
        /\ posts'[AttemptOrder[a]] = 0
  BY DEF ClaimInv, RowStep
<1>2. \A a, b \in Attempts :
        pc'[a] \in PreSend /\ pc'[b] \in PreSend /\ AttemptOrder[a] = AttemptOrder[b] => a = b
  BY DEF ClaimInv
<1>3. \A c \in Orders : subState'[c] \in {"absent", "persisted"} => posts'[c] = 0
  BY DEF ClaimInv, RowStep
<1>4. \A c \in Orders : posts'[c] <= 1
  BY DEF ClaimInv
<1>5. \A c \in Orders : subState'[c] = "started" =>
        \E a \in Attempts : AttemptDigest[a] = subReason'[c] /\ ~MayClaim(a)'
  BY DEF ClaimInv, RowStep
<1> QED BY <1>1, <1>2, <1>3, <1>4, <1>5 DEF ClaimInv

\* Steps of a process that is not an attempt.
LEMMA OtherClaim ==
  ASSUME TypeOK, ClaimInv, NEW p \in Procs, p \notin Attempts, Frame(p), RowStep, posts' = posts
  PROVE  ClaimInv'
<1>1. \A a \in Attempts : pc'[a] = pc[a] /\ ret'[a] = ret[a]
  BY DEF Frame, Procs
<1> QED BY <1>1, ClaimStep DEF MayClaim

\* Steps of an attempt that neither claims nor sends.
LEMMA SameClaim ==
  ASSUME TypeOK, ClaimInv, NEW a \in Attempts, Frame(a), RowStep, posts' = posts,
         pc'[a] \in PreSend => pc[a] \in PreSend,
         MayClaim(a)' => MayClaim(a)
  PROVE  ClaimInv'
<1>1. \A b \in Attempts : b # a => pc'[b] = pc[b] /\ ret'[b] = ret[b]
  BY DEF Frame, Procs
<1> QED BY <1>1, ClaimStep DEF MayClaim

\* Of two attempts on one client order ID only one transition to started is
\* accepted.
LEMMA ExclusiveClaim ==
  ASSUME TypeOK, ClaimInv, NEW a \in Attempts, Frame(a), ExecuteClaim(a)
  PROVE  ClaimInv'
<1> DEFINE c == AttemptOrder[a]
<1> a \in Procs /\ c \in Orders
  BY DEF Procs
<1>1. \A b \in Attempts : b # a => pc'[b] = pc[b] /\ ret'[b] = ret[b]
  BY DEF Frame, Procs
<1>2. MayClaim(a) /\ pc[a] \notin PreSend
  BY DEF ExecuteClaim, MayClaim, PreClaim, PreSend
<1>3. CASE Leave(a) /\ UNCHANGED journalVars
  <2>1. pc'[a] = "done"
    BY <1>3 DEF Leave, Goto, EndOf, TypeOK, PcTypeOK
  <2>2. RowStep /\ posts' = posts
    BY <1>3, RowSteps DEF ExecuteClaim, venueVars, TypeOK
  <2> QED BY <2>1, <2>2, <1>2, SameClaim DEF PreSend
<1>4. CASE /\ TransitionAccepts(c, "started", AttemptDigest[a])
           /\ TransitionSubmission(c, "started", AttemptDigest[a])
           /\ Goto(a, "x_check2")
  \* A row started by this attempt is a row of an attempt past its claim.
  <2>1. subState[c] # "started"
    <3>1. SUFFICES ASSUME subState[c] = "started" PROVE FALSE
      OBVIOUS
    <3>2. subReason[c] = AttemptDigest[a]
      BY <1>4, <3>1 DEF TransitionAccepts
    <3>3. PICK b \in Attempts : AttemptDigest[b] = subReason[c] /\ ~MayClaim(b)
      BY <3>1 DEF ClaimInv
    <3>4. b = a
      BY <3>2, <3>3, UniqueDigests
    <3> QED BY <3>3, <3>4, <1>2
  <2>2. subState[c] = "persisted"
    BY <1>4, <2>1 DEF TransitionAccepts, AllowedTransitions, TypeOK, JournalTypeOK, SubmissionState
  <2>3. posts' = posts /\ posts[c] = 0
    BY <2>2 DEF ExecuteClaim, venueVars, ClaimInv
  <2>4. /\ subState'[c] = "started" /\ subReason'[c] = AttemptDigest[a]
        /\ \A d \in Orders : d # c => subState'[d] = subState[d] /\ subReason'[d] = subReason[d]
    BY <1>4 DEF TransitionSubmission, TypeOK, JournalTypeOK
  <2>5. pc'[a] = "x_check2"
    BY <1>4 DEF Goto, TypeOK, PcTypeOK
  <2>6. ~MayClaim(a)'
    BY <2>5 DEF MayClaim, PreClaim, ReconLabels
  <2>7. \A b \in Attempts : b # a => (MayClaim(b)' <=> MayClaim(b))
    BY <1>1 DEF MayClaim
  <2>8. \A b \in Attempts : b # a /\ pc'[b] \in PreSend => AttemptOrder[b] # c
    BY <1>1, <2>2 DEF ClaimInv
  <2>9. \A b \in Attempts : pc'[b] \in PreSend =>
          /\ subState'[AttemptOrder[b]] \notin {"absent", "persisted"}
          /\ posts'[AttemptOrder[b]] = 0
    BY <1>1, <2>3, <2>4, <2>8 DEF ClaimInv
  <2>10. \A b, d \in Attempts :
          pc'[b] \in PreSend /\ pc'[d] \in PreSend /\ AttemptOrder[b] = AttemptOrder[d] => b = d
    BY <1>1, <2>8 DEF ClaimInv
  <2>11. \A d \in Orders : subState'[d] \in {"absent", "persisted"} => posts'[d] = 0
    BY <2>3, <2>4 DEF ClaimInv
  <2>12. \A d \in Orders : posts'[d] <= 1
    BY <2>3 DEF ClaimInv
  <2>13. \A d \in Orders : subState'[d] = "started" =>
          \E b \in Attempts : AttemptDigest[b] = subReason'[d] /\ ~MayClaim(b)'
    <3>1. TAKE d \in Orders
    <3>2. CASE d = c
      BY <3>2, <2>4, <2>6
    <3>3. CASE d # c /\ subState'[d] = "started"
      <4>1. PICK b \in Attempts : AttemptDigest[b] = subReason[d] /\ ~MayClaim(b)
        BY <3>3, <2>4 DEF ClaimInv
      <4>2. b # a
        BY <4>1, <1>2
      <4> QED BY <4>1, <4>2, <2>4, <2>7, <3>3
    <3> QED BY <3>2, <3>3
  <2> QED BY <2>9, <2>10, <2>11, <2>12, <2>13 DEF ClaimInv
<1> QED BY <1>3, <1>4 DEF ExecuteClaim

\* The POST of the holder of the claim is the first one.
LEMMA SendClaim ==
  ASSUME TypeOK, ClaimInv, NEW a \in Attempts, Frame(a), SubmitPost(a)
  PROVE  ClaimInv'
<1> DEFINE c == AttemptOrder[a]
<1> a \in Procs /\ c \in Orders
  BY DEF Procs
<1>1. \A b \in Attempts : b # a => pc'[b] = pc[b] /\ ret'[b] = ret[b]
  BY DEF Frame, Procs
<1>2. pc[a] \in PreSend /\ pc'[a] = "x_await" /\ ~MayClaim(a)
  BY DEF SubmitPost, Goto, PreSend, MayClaim, PreClaim, ReconLabels, TypeOK, PcTypeOK
<1>3. posts[c] = 0 /\ posts'[c] = 1 /\ \A d \in Orders : d # c => posts'[d] = posts[d]
  BY <1>2 DEF SubmitPost, ClaimInv, TypeOK, VenueTypeOK
<1>4. subState' = subState /\ subReason' = subReason
  BY DEF SubmitPost, journalVars
<1>5. \A b \in Attempts : pc'[b] \in PreSend => b # a /\ pc[b] \in PreSend /\ AttemptOrder[b] # c
  BY <1>1, <1>2 DEF PreSend, ClaimInv
<1>6. \A b \in Attempts : MayClaim(b)' => MayClaim(b)
  BY <1>1, <1>2 DEF MayClaim, PreClaim, ReconLabels
<1>7. \A b \in Attempts : pc'[b] \in PreSend =>
        /\ subState'[AttemptOrder[b]] \notin {"absent", "persisted"}
        /\ posts'[AttemptOrder[b]] = 0
  BY <1>3, <1>4, <1>5 DEF ClaimInv
<1>8. \A b, d \in Attempts :
        pc'[b] \in PreSend /\ pc'[d] \in PreSend /\ AttemptOrder[b] = AttemptOrder[d] => b = d
  BY <1>5 DEF ClaimInv
<1>9. \A d \in Orders : subState'[d] \in {"absent", "persisted"} => posts'[d] = 0
  BY <1>2, <1>3, <1>4 DEF ClaimInv
<1>10. \A d \in Orders : posts'[d] <= 1
  BY <1>3 DEF ClaimInv
<1>11. \A d \in Orders : subState'[d] = "started" =>
        \E b \in Attempts : AttemptDigest[b] = subReason'[d] /\ ~MayClaim(b)'
  BY <1>4, <1>6 DEF ClaimInv
<1> QED BY <1>7, <1>8, <1>9, <1>10, <1>11 DEF ClaimInv

\* The claim invariant is preserved by every step of execute_once.
LEMMA AttemptClaim ==
  ASSUME TypeOK, ClaimInv, NEW a \in Attempts, ExecuteStep(a)
  PROVE  ClaimInv'
<1> a \in Procs /\ AttemptOrder[a] \in Orders /\ AttemptPayload[a] \in Payloads /\ JournalTypeOK
  BY DEF Procs, TypeOK
<1>1. CASE ExecuteClaim(a)
  BY <1>1, AttemptFrame, ExclusiveClaim
<1>2. CASE SubmitPost(a)
  BY <1>2, AttemptFrame, SendClaim
<1>3. CASE ~ExecuteClaim(a) /\ ~SubmitPost(a)
  <2>1. posts' = posts
    BY <1>3
       DEF ExecuteStep, ExecuteStart, ExecuteKnown, ExecuteAssess, ExecuteDecide,
           ExecuteRequireUnpaused, ExecutePersist, ExecuteCheckPause, ExecuteRejectUnsent,
           SubmitLookup, SubmitResponse, SubmitRelookup, SubmitFail, ExecuteAcknowledge,
           ExecuteRefused, ExecuteAmbiguous, ExecuteFinal, ExecutePause, venueVars
  <2>2. RowStep
    BY <1>3, RowSteps
       DEF ExecuteStep, ExecuteStart, ExecuteKnown, ExecuteAssess, ExecuteDecide,
           ExecuteRequireUnpaused, ExecutePersist, ExecuteCheckPause, ExecuteRejectUnsent,
           SubmitLookup, SubmitResponse, SubmitRelookup, SubmitFail, ExecuteAcknowledge,
           ExecuteRefused, ExecuteAmbiguous, ExecuteFinal, ExecutePause
  <2>3. /\ pc'[a] \in PreSend => pc[a] \in PreSend
        /\ MayClaim(a)' => MayClaim(a)
    <3> USE DEF Goto, Leave, EndOf, StartReconcile, PreSend, PreClaim, MayClaim, ReconLabels,
                TypeOK, PcTypeOK, ReconTypeOK
    <3>1. CASE ExecuteStart(a) \/ ExecuteKnown(a) \/ ExecuteAssess(a)
      BY <3>1 DEF ExecuteStart, MayStart, ExecuteKnown, ExecuteAssess
    <3>2. CASE ExecuteDecide(a) \/ ExecuteRequireUnpaused(a) \/ ExecutePersist(a)
      BY <3>2 DEF ExecuteDecide, ExecuteRequireUnpaused, ExecutePersist
    <3>3. CASE \/ ExecuteCheckPause(a, "x_check1", "x_start", "x_unsent1")
               \/ ExecuteCheckPause(a, "x_check2", "x_lookup", "x_unsent2")
      BY <3>3 DEF ExecuteCheckPause
    <3>4. CASE SubmitLookup(a) \/ SubmitResponse(a) \/ SubmitRelookup(a) \/ SubmitFail(a)
      BY <3>4 DEF SubmitLookup, SubmitResponse, SubmitRelookup, SubmitFail
    <3>5. CASE ExecuteAcknowledge(a) \/ ExecuteRefused(a) \/ ExecuteAmbiguous(a)
      BY <3>5 DEF ExecuteAcknowledge, ExecuteRefused, ExecuteAmbiguous
    <3>6. CASE \/ ExecuteRejectUnsent(a, "x_unsent1", "operator_paused_after_persist")
               \/ ExecuteRejectUnsent(a, "x_unsent2", "operator_paused_before_submit")
               \/ ExecuteFinal(a) \/ ExecutePause(a)
      BY <3>6 DEF ExecuteRejectUnsent, ExecuteFinal, ExecutePause
    <3> QED BY <1>3, <3>1, <3>2, <3>3, <3>4, <3>5, <3>6 DEF ExecuteStep
  <2> QED BY <2>1, <2>2, <2>3, AttemptFrame, SameClaim
<1> QED BY <1>1, <1>2, <1>3

\* The claim invariant is preserved by recover, which never claims.
LEMMA RecoverClaim ==
  ASSUME TypeOK, CallsInv, ClaimInv, NEW v \in Recoverers, RecoverStep(v)
  PROVE  ClaimInv'
<1> v \in Procs /\ v \notin Attempts /\ JournalTypeOK
  BY DEF Procs, TypeOK
<1>1. posts' = posts
  BY DEF RecoverStep, RecoverStart, RecoverRead, RecoverLookup, RecoverReject,
         RecoverAcknowledge, RecoverFinal, venueVars
<1>2. CASE RecoverReject(v) \/ RecoverAcknowledge(v)
  <2>1. target[v] \in Orders
    BY <1>2 DEF RecoverReject, RecoverAcknowledge, CallsInv
  <2>2. RowStep
    BY <1>2, <2>1, RowSteps DEF RecoverReject, RecoverAcknowledge
  <2> QED BY <1>1, <2>2, RecoverFrame, OtherClaim
<1>3. CASE ~RecoverReject(v) /\ ~RecoverAcknowledge(v)
  <2>1. RowStep
    BY <1>3, RowSteps DEF RecoverStep, RecoverStart, RecoverRead, RecoverLookup, RecoverFinal
  <2> QED BY <1>1, <2>1, RecoverFrame, OtherClaim
<1> QED BY <1>2, <1>3

\* The claim invariant is preserved by the operator actions.
LEMMA OperatorClaim ==
  ASSUME TypeOK, ClaimInv, NEW o \in Operators, OperatorStep(o)
  PROVE  ClaimInv'
<1> o \in Procs /\ o \notin Attempts /\ JournalTypeOK
  BY DEF Procs, TypeOK
<1>1. posts' = posts /\ UNCHANGED journalVars
  BY DEF OperatorStep, OperatorPause, ResumeStart, ResumeCommit, KillStart, KillBegin,
         KillList, KillCancel, KillResidual, KillError, KillComplete, CloseInterrupted, venueVars
<1>2. RowStep
  BY <1>1, RowSteps
<1> QED BY <1>1, <1>2, OperatorFrame, OtherClaim

\* The claim invariant is preserved by reconcile, whose resolutions only
\* close rows.
LEMMA ReconcileClaim ==
  ASSUME TypeOK, CallsInv, ClaimInv, NEW p \in Procs, ReconcileStep(p)
  PROVE  ClaimInv'
<1> JournalTypeOK
  BY DEF TypeOK
<1>1. posts' = posts
  BY DEF ReconcileStep, ReconcileOpenOrders, ReconcileKnown, ReconcileUnresolved,
         ReconcileLookup, ReconcileApply, ReconcileFail, venueVars
<1>2. RowStep
  BY RowSteps
     DEF ReconcileStep, ReconcileOpenOrders, ReconcileKnown, ReconcileUnresolved,
         ReconcileLookup, ReconcileApply, ReconcileFail
<1>3. CASE p \in Attempts
  <2> USE DEF Goto, PreSend, PreClaim, MayClaim, ReconLabels, TypeOK, PcTypeOK, ReconTypeOK
  <2>1. /\ pc'[p] \in PreSend => pc[p] \in PreSend
        /\ MayClaim(p)' => MayClaim(p)
    <3>1. CASE ReconcileOpenOrders(p) \/ ReconcileKnown(p) \/ ReconcileUnresolved(p)
      BY <3>1 DEF ReconcileOpenOrders, ReconcileKnown, ReconcileUnresolved
    <3>2. CASE ReconcileLookup(p)
      BY <3>2 DEF ReconcileLookup
    <3>3. CASE ReconcileApply(p)
      BY <3>3, <1>3 DEF ReconcileApply, CallsInv
    <3>4. CASE ReconcileFail(p)
      BY <3>4 DEF ReconcileFail
    <3> QED BY <3>1, <3>2, <3>3, <3>4 DEF ReconcileStep
  <2> QED BY <1>1, <1>2, <1>3, <2>1, ReconcileFrame, SameClaim
<1>4. CASE p \notin Attempts
  BY <1>1, <1>2, <1>4, ReconcileFrame, OtherClaim
<1> QED BY <1>3, <1>4

\* A crash drops a claim; the row it leaves behind cannot be claimed again.
LEMMA CrashClaim ==
  ASSUME TypeOK, ClaimInv, NEW p \in Procs, Crash(p)
  PROVE  ClaimInv'
<1> JournalTypeOK
  BY DEF TypeOK
<1>1. posts' = posts /\ RowStep
  BY RowSteps DEF Crash, venueVars
<1>2. CASE p \in Attempts
  <2>1. pc'[p] \notin PreSend /\ ~MayClaim(p)'
    BY <1>2 DEF Crash, Leave, Goto, EndOf, PreSend, MayClaim, PreClaim, ReconLabels,
               TypeOK, PcTypeOK
  <2> QED BY <1>1, <1>2, <2>1, CrashFrame, SameClaim
<1>3. CASE p \notin Attempts
  BY <1>1, <1>3, CrashFrame, OtherClaim
<1> QED BY <1>2, <1>3

\* The claim invariant is preserved by the broker's steps.
LEMMA VenueClaim ==
  ASSUME TypeOK, ClaimInv, VenueStep
  PROVE  ClaimInv'
<1>1. pc' = pc /\ ret' = ret /\ posts' = posts /\ UNCHANGED journalVars
  BY DEF VenueStep, VenueAccept, VenueRefuse, VenueClose, reconVars
<1>2. RowStep
  BY <1>1, RowSteps DEF TypeOK
<1> QED BY <1>1, <1>2, ClaimStep DEF MayClaim

-----------------------------------------------------------------------------
\* The evidence one process holds.
EvidenceOK(p) ==
  /\ p \in Attempts /\ (pc[p] = "x_ack" \/ reply[p] = "ok") => venue[AttemptOrder[p]] # "none"
  /\ p \in Recoverers /\ pc[p] = "v_ack" => venue[target[p]] # "none"
  /\ \A c \in found[p] : venue[c] # "none"
  /\ p \in Operators /\ pc[p] = "k_cancel" => \A c \in left[p] : venue[c] # "none"

\* Rows become evidence only for orders that exist.
RowEvidence ==
  \A c \in Orders : subState'[c] \in {"acknowledged", "reconciled"} =>
    subState[c] \in {"acknowledged", "reconciled"} \/ venue[c] # "none"

\* A row becomes acknowledged or reconciled only by the writes that carry
\* evidence.
LEMMA RowEvidences ==
  ASSUME JournalTypeOK
  PROVE  /\ UNCHANGED journalVars => RowEvidence
         /\ \A c \in Orders : \A payload : PersistApprovedOrder(c, payload) => RowEvidence
         /\ \A c \in Orders, state \in {"started", "ambiguous", "rejected"} : \A reason :
              TransitionSubmission(c, state, reason) => RowEvidence
         /\ \A c \in Orders : \A state, reason :
              venue[c] # "none" /\ TransitionSubmission(c, state, reason) => RowEvidence
         /\ \A resolved : ApplyResolutions(resolved) /\ (\A c \in resolved : venue[c] # "none")
              => RowEvidence
<1> USE DEF JournalTypeOK, RowEvidence
<1>1. UNCHANGED journalVars => RowEvidence
  BY DEF journalVars
<1>2. \A c \in Orders : \A payload : PersistApprovedOrder(c, payload) => RowEvidence
  BY DEF PersistApprovedOrder, journalVars
<1>3. \A c \in Orders, state \in {"started", "ambiguous", "rejected"} : \A reason :
        TransitionSubmission(c, state, reason) => RowEvidence
  BY DEF TransitionSubmission
<1>4. \A c \in Orders : \A state, reason :
        venue[c] # "none" /\ TransitionSubmission(c, state, reason) => RowEvidence
  BY DEF TransitionSubmission
<1>5. \A resolved : ApplyResolutions(resolved) /\ (\A c \in resolved : venue[c] # "none")
        => RowEvidence
  BY DEF ApplyResolutions
<1> QED BY <1>1, <1>2, <1>3, <1>4, <1>5

\* A framed step with evidence of its own keeps the evidence invariant.
LEMMA EvidenceStep ==
  ASSUME TypeOK, CallsInv, EvidenceInv, NEW p \in Procs, Frame(p), EvidenceOK(p)', RowEvidence,
         \A a \in Attempts \ {p} : reply'[a] = reply[a],
         \A c \in Orders : venue[c] # "none" => venue'[c] # "none",
         \A c \in Orders : venue'[c] # "none" => posts'[c] = 1,
         \A a \in wire' : posts'[AttemptOrder[a]] = 1
  PROVE  EvidenceInv'
<1>1. \A a \in Attempts : pc'[a] = "x_ack" \/ reply'[a] = "ok" => venue'[AttemptOrder[a]] # "none"
  BY DEF EvidenceInv, EvidenceOK, Frame, Procs
<1>2. \A v \in Recoverers : pc'[v] = "v_ack" => venue'[target'[v]] # "none"
  BY DEF EvidenceInv, EvidenceOK, Frame, Procs, CallsInv
<1>3. \A q \in Procs : \A c \in found'[q] : venue'[c] # "none"
  BY DEF EvidenceInv, EvidenceOK, Frame, TypeOK, ReconTypeOK
<1>4. \A o \in Operators : pc'[o] = "k_cancel" => \A c \in left'[o] : venue'[c] # "none"
  BY DEF EvidenceInv, EvidenceOK, Frame, Procs, TypeOK, ReconTypeOK
<1>5. AcknowledgedOrderExists'
  BY DEF EvidenceInv, AcknowledgedOrderExists, RowEvidence
<1> QED BY <1>1, <1>2, <1>3, <1>4, <1>5 DEF EvidenceInv

\* Steps that leave the broker's book and the requests alone.
LEMMA SameEvidence ==
  ASSUME TypeOK, CallsInv, EvidenceInv, NEW p \in Procs, Frame(p), EvidenceOK(p)', RowEvidence,
         UNCHANGED venueVars
  PROVE  EvidenceInv'
BY EvidenceStep DEF venueVars, EvidenceInv

\* A process that leaves its call holds no evidence, so it cannot hold a
\* false one.
LEMMA LeaveEvidence ==
  ASSUME TypeOK, EvidenceInv, NEW p \in Procs, Leave(p), UNCHANGED venueVars
  PROVE  EvidenceOK(p)'
BY DEF EvidenceInv, EvidenceOK, Leave, Goto, EndOf, venueVars, TypeOK, PcTypeOK, ReconTypeOK

\* A move to a step that holds no evidence of its own.
LEMMA MoveEvidence ==
  ASSUME TypeOK, EvidenceInv, NEW p \in Procs, UNCHANGED venueVars,
         pc'[p] \notin {"x_ack", "v_ack", "k_cancel"}, found'[p] = found[p]
  PROVE  EvidenceOK(p)'
BY DEF EvidenceInv, EvidenceOK, venueVars

\* The answers an attempt acts on name orders that the broker has.
LEMMA AttemptEvidence ==
  ASSUME TypeOK, CallsInv, ClaimInv, EvidenceInv, NEW a \in Attempts, ExecuteStep(a)
  PROVE  EvidenceInv'
<1> DEFINE c == AttemptOrder[a]
<1> a \in Procs /\ a \notin Recoverers /\ a \notin Operators /\ c \in Orders
    /\ AttemptPayload[a] \in Payloads /\ JournalTypeOK /\ Frame(a)
  BY AttemptFrame DEF Procs, TypeOK
<1> USE DEF Goto, TypeOK, PcTypeOK
<1>1. CASE SubmitPost(a)
  <2>1. posts[c] = 0 /\ posts'[c] = 1 /\ \A d \in Orders : d # c => posts'[d] = posts[d]
    BY <1>1 DEF SubmitPost, ClaimInv, PreSend, VenueTypeOK
  <2>2. venue' = venue /\ reply' = reply /\ found' = found /\ pc'[a] = "x_await"
    BY <1>1 DEF SubmitPost, reconVars
  <2>3. EvidenceOK(a)'
    BY <2>2 DEF EvidenceOK, EvidenceInv
  <2>4. \A d \in Orders : venue'[d] # "none" => posts'[d] = 1
    BY <2>1, <2>2 DEF EvidenceInv
  <2>5. \A b \in wire' : posts'[AttemptOrder[b]] = 1
    BY <1>1, <2>1 DEF SubmitPost, EvidenceInv, VenueTypeOK
  <2>6. RowEvidence
    BY <1>1, RowEvidences DEF SubmitPost
  <2> QED BY <2>2, <2>3, <2>4, <2>5, <2>6, EvidenceStep
<1>2. CASE SubmitResponse(a)
  <2>1. venue' = venue /\ wire' = wire /\ posts' = posts /\ found' = found
    BY <1>2 DEF SubmitResponse, reconVars
  <2>2. /\ \A b \in Attempts \ {a} : reply'[b] = reply[b]
        /\ pc'[a] = "x_ack" \/ reply'[a] = "ok" => reply[a] = "ok"
    BY <1>2 DEF SubmitResponse, VenueTypeOK
  <2>3. EvidenceOK(a)'
    BY <2>1, <2>2 DEF EvidenceOK, EvidenceInv
  <2>4. RowEvidence
    BY <1>2, RowEvidences DEF SubmitResponse
  <2> QED BY <2>1, <2>2, <2>3, <2>4, EvidenceStep DEF EvidenceInv
<1>3. CASE SubmitLookup(a) \/ SubmitRelookup(a)
  <2>1. EvidenceOK(a)'
    BY <1>3 DEF SubmitLookup, SubmitRelookup, EvidenceOK, EvidenceInv, venueVars, reconVars
  <2>2. RowEvidence /\ UNCHANGED venueVars
    BY <1>3, RowEvidences DEF SubmitLookup, SubmitRelookup
  <2> QED BY <2>1, <2>2, SameEvidence
<1>4. CASE ExecuteAcknowledge(a)
  <2>1. venue[c] # "none"
    BY <1>4 DEF ExecuteAcknowledge, EvidenceInv
  <2>2. RowEvidence /\ UNCHANGED venueVars
    BY <1>4, <2>1, RowEvidences DEF ExecuteAcknowledge
  <2>3. EvidenceOK(a)'
    BY <1>4, <2>2, MoveEvidence DEF ExecuteAcknowledge, StartReconcile, reconVars
  <2> QED BY <2>2, <2>3, SameEvidence
<1>5. CASE ~SubmitPost(a) /\ ~SubmitResponse(a) /\ ~SubmitLookup(a) /\ ~SubmitRelookup(a)
           /\ ~ExecuteAcknowledge(a)
  <2>1. UNCHANGED venueVars
    BY <1>5
       DEF ExecuteStep, ExecuteStart, ExecuteKnown, ExecuteAssess, ExecuteDecide,
           ExecuteRequireUnpaused, ExecutePersist, ExecuteCheckPause, ExecuteRejectUnsent,
           ExecuteClaim, SubmitFail, ExecuteRefused, ExecuteAmbiguous, ExecuteFinal, ExecutePause
  <2>2. RowEvidence
    BY <1>5, RowEvidences
       DEF ExecuteStep, ExecuteStart, ExecuteKnown, ExecuteAssess, ExecuteDecide,
           ExecuteRequireUnpaused, ExecutePersist, ExecuteCheckPause, ExecuteRejectUnsent,
           ExecuteClaim, SubmitFail, ExecuteRefused, ExecuteAmbiguous, ExecuteFinal, ExecutePause
  <2>3. \/ Leave(a)
        \/ pc'[a] \notin {"x_ack", "v_ack", "k_cancel"} /\ found'[a] = found[a]
    BY <1>5
       DEF ExecuteStep, ExecuteStart, ExecuteKnown, ExecuteAssess, ExecuteDecide,
           ExecuteRequireUnpaused, ExecutePersist, ExecuteCheckPause, ExecuteRejectUnsent,
           ExecuteClaim, SubmitFail, ExecuteRefused, ExecuteAmbiguous, ExecuteFinal,
           ExecutePause, StartReconcile, reconVars
  <2>4. EvidenceOK(a)'
    BY <2>1, <2>3, LeaveEvidence, MoveEvidence
  <2> QED BY <2>1, <2>2, <2>4, SameEvidence
<1> QED BY <1>1, <1>2, <1>3, <1>4, <1>5

\* So do the answers a recovery acts on.
LEMMA RecoverEvidence ==
  ASSUME TypeOK, CallsInv, EvidenceInv, NEW v \in Recoverers, RecoverStep(v)
  PROVE  EvidenceInv'
<1> v \in Procs /\ v \notin Attempts /\ v \notin Operators /\ JournalTypeOK /\ Frame(v)
  BY RecoverFrame DEF Procs, TypeOK
<1> USE DEF Goto, TypeOK, PcTypeOK
<1>1. UNCHANGED venueVars
  BY DEF RecoverStep, RecoverStart, RecoverRead, RecoverLookup, RecoverReject,
         RecoverAcknowledge, RecoverFinal
<1>2. CASE RecoverLookup(v)
  <2>1. RowEvidence
    BY <1>2, RowEvidences DEF RecoverLookup
  <2>2. EvidenceOK(v)'
    <3>1. CASE pc'[v] = "v_ack"
      <4>1. /\ target' = target
            /\ found' = found
            /\ venue[target[v]] # "none"
        BY <1>2, <3>1
           DEF RecoverLookup, Leave, EndOf, StartReconcile, callVars, reconVars
      <4> QED BY <1>1, <4>1 DEF EvidenceOK, EvidenceInv, venueVars
    <3>2. CASE pc'[v] # "v_ack"
      <4>1. Leave(v) \/ (pc'[v] \notin {"x_ack", "v_ack", "k_cancel"} /\ found'[v] = found[v])
        BY <1>2, <3>2 DEF RecoverLookup, StartReconcile, reconVars
      <4> QED BY <1>1, <4>1, LeaveEvidence, MoveEvidence
    <3> QED BY <3>1, <3>2
  <2> QED BY <1>1, <2>1, <2>2, SameEvidence
<1>3. CASE RecoverReject(v) \/ RecoverAcknowledge(v)
  <2>1. target[v] \in Orders /\ (RecoverAcknowledge(v) => venue[target[v]] # "none")
    BY <1>3 DEF RecoverReject, RecoverAcknowledge, CallsInv, EvidenceInv
  <2>2. RowEvidence
    BY <1>3, <2>1, RowEvidences DEF RecoverReject, RecoverAcknowledge
  <2>3. Leave(v) \/ (pc'[v] \notin {"x_ack", "v_ack", "k_cancel"} /\ found'[v] = found[v])
    BY <1>3 DEF RecoverReject, RecoverAcknowledge, StartReconcile
  <2>4. EvidenceOK(v)'
    BY <1>1, <2>3, LeaveEvidence, MoveEvidence
  <2> QED BY <1>1, <2>2, <2>4, SameEvidence
<1>4. CASE ~RecoverLookup(v) /\ ~RecoverReject(v) /\ ~RecoverAcknowledge(v)
  <2>1. RowEvidence
    BY <1>4, RowEvidences DEF RecoverStep, RecoverStart, RecoverRead, RecoverFinal
  <2>2. Leave(v) \/ (pc'[v] \notin {"x_ack", "v_ack", "k_cancel"} /\ found'[v] = found[v])
    BY <1>4 DEF RecoverStep, RecoverStart, RecoverRead, RecoverFinal, reconVars
  <2>3. EvidenceOK(v)'
    BY <1>1, <2>2, LeaveEvidence, MoveEvidence
  <2> QED BY <1>1, <2>1, <2>3, SameEvidence
<1> QED BY <1>2, <1>3, <1>4

\* So do the answers an operator action acts on.
LEMMA OperatorEvidence ==
  ASSUME TypeOK, CallsInv, EvidenceInv, NEW o \in Operators, OperatorStep(o)
  PROVE  EvidenceInv'
<1> o \in Procs /\ o \notin Attempts /\ o \notin Recoverers /\ JournalTypeOK /\ Frame(o)
  BY OperatorFrame DEF Procs, TypeOK
<1> USE DEF Goto, TypeOK, PcTypeOK
<1>1. RowEvidence
  BY RowEvidences
     DEF OperatorStep, OperatorPause, ResumeStart, ResumeCommit, KillStart, KillBegin,
         KillList, KillCancel, KillResidual, KillError, KillComplete, CloseInterrupted
<1>2. CASE KillCancel(o)
  <2>1. PICK c \in left[o], after \in {"open", "closed"} :
          /\ venue' = [venue EXCEPT ![c] = after]
          /\ left' = [left EXCEPT ![o] = IF after = "closed" THEN @ \ {c} ELSE {}]
    BY <1>2 DEF KillCancel
  <2>2. /\ pc[o] = "k_cancel" /\ found' = found
        /\ wire' = wire /\ posts' = posts /\ reply' = reply
    BY <1>2 DEF KillCancel
  <2>3. c \in Orders /\ venue[c] # "none"
    BY <2>1, <2>2 DEF ReconTypeOK, EvidenceInv
  <2>4. \A d \in Orders : venue'[d] # "none" <=> venue[d] # "none"
    BY <2>1, <2>3 DEF VenueTypeOK
  <2>5. left'[o] \subseteq left[o] /\ left[o] \subseteq Orders /\ found[o] \subseteq Orders
    BY <2>1 DEF ReconTypeOK
  <2>6. EvidenceOK(o)'
    BY <2>2, <2>4, <2>5 DEF EvidenceOK, EvidenceInv
  <2>7. /\ \A d \in Orders : venue'[d] # "none" => posts'[d] = 1
        /\ \A a \in wire' : posts'[AttemptOrder[a]] = 1
    BY <2>2, <2>4 DEF EvidenceInv
  <2> QED BY <1>1, <2>2, <2>4, <2>6, <2>7, EvidenceStep
<1>3. CASE KillList(o)
  <2>1. UNCHANGED venueVars
    BY <1>3 DEF KillList
  <2>2. \A c \in left'[o] : venue[c] # "none"
    BY <1>3 DEF KillList, ReconTypeOK
  <2>3. EvidenceOK(o)'
    BY <1>3, <2>1, <2>2 DEF KillList, EvidenceOK, EvidenceInv, venueVars
  <2> QED BY <1>1, <2>1, <2>3, SameEvidence
<1>4. CASE OperatorPause(o) \/ \E g \in Approvals : CloseInterrupted(o, g)
  <2>1. UNCHANGED <<pc, venueVars, callVars, reconVars>>
    BY <1>4 DEF OperatorPause, CloseInterrupted
  <2>2. EvidenceOK(o)'
    BY <2>1 DEF EvidenceOK, EvidenceInv, venueVars, callVars, reconVars
  <2> QED BY <1>1, <2>1, <2>2, SameEvidence
<1>5. CASE ~KillCancel(o) /\ ~KillList(o) /\ ~OperatorPause(o)
           /\ ~\E g \in Approvals : CloseInterrupted(o, g)
  <2>1. UNCHANGED venueVars
    BY <1>5
       DEF OperatorStep, ResumeStart, ResumeCommit, KillStart, KillBegin, KillResidual,
           KillError, KillComplete
  <2>2. Leave(o) \/ (pc'[o] \notin {"x_ack", "v_ack", "k_cancel"} /\ found'[o] = found[o])
    BY <1>5
       DEF OperatorStep, ResumeStart, ResumeCommit, KillStart, KillBegin, KillResidual,
           KillError, KillComplete, StartReconcile, reconVars
  <2>3. EvidenceOK(o)'
    BY <2>1, <2>2, LeaveEvidence, MoveEvidence
  <2> QED BY <1>1, <2>1, <2>3, SameEvidence
<1> QED BY <1>2, <1>3, <1>4, <1>5

\* So do the resolutions that reconcile collects.
LEMMA ReconcileEvidence ==
  ASSUME TypeOK, CallsInv, EvidenceInv, NEW p \in Procs, ReconcileStep(p)
  PROVE  EvidenceInv'
<1> JournalTypeOK /\ Frame(p)
  BY ReconcileFrame DEF TypeOK
<1> USE DEF Goto, TypeOK, PcTypeOK
<1>1. UNCHANGED venueVars
  BY DEF ReconcileStep, ReconcileOpenOrders, ReconcileKnown, ReconcileUnresolved,
         ReconcileLookup, ReconcileApply, ReconcileFail
<1>2. CASE ReconcileOpenOrders(p) \/ ReconcileKnown(p) \/ ReconcileUnresolved(p)
  <2>1. RowEvidence
    BY <1>2, RowEvidences DEF ReconcileOpenOrders, ReconcileKnown, ReconcileUnresolved
  <2>2. EvidenceOK(p)'
    BY <1>1, <1>2, MoveEvidence DEF ReconcileOpenOrders, ReconcileKnown, ReconcileUnresolved
  <2> QED BY <1>1, <2>1, <2>2, SameEvidence
<1>3. CASE ReconcileLookup(p)
  <2>1. RowEvidence
    BY <1>3, RowEvidences DEF ReconcileLookup
  <2>2. pc'[p] \notin {"x_ack", "v_ack", "k_cancel"}
    BY <1>3 DEF ReconcileLookup
  <2>3. \A c \in found'[p] : venue[c] # "none"
    BY <1>3 DEF ReconcileLookup, ReconTypeOK, EvidenceInv
  <2>4. EvidenceOK(p)'
    BY <1>1, <2>2, <2>3 DEF EvidenceOK, EvidenceInv, venueVars
  <2> QED BY <1>1, <2>1, <2>4, SameEvidence
<1>4. CASE ReconcileApply(p)
  <2>1. RowEvidence
    BY <1>4, RowEvidences DEF ReconcileApply, EvidenceInv
  <2>2. pc'[p] \notin {"x_ack", "v_ack", "k_cancel"} /\ found'[p] = {}
    BY <1>4 DEF ReconcileApply, CallsInv, ReconLabels, Procs, ReconTypeOK
  <2>3. EvidenceOK(p)'
    BY <1>1, <2>2 DEF EvidenceOK, EvidenceInv, venueVars
  <2> QED BY <1>1, <2>1, <2>3, SameEvidence
<1>5. CASE ReconcileFail(p)
  <2>1. RowEvidence
    BY <1>5, RowEvidences DEF ReconcileFail
  <2>2. pc'[p] \notin {"x_ack", "v_ack", "k_cancel"} /\ found'[p] = {}
    BY <1>5 DEF ReconcileFail, ReconTypeOK
  <2>3. EvidenceOK(p)'
    BY <1>1, <2>2 DEF EvidenceOK, EvidenceInv, venueVars
  <2> QED BY <1>1, <2>1, <2>3, SameEvidence
<1> QED BY <1>2, <1>3, <1>4, <1>5 DEF ReconcileStep

\* A crash only forgets evidence.
LEMMA CrashEvidence ==
  ASSUME TypeOK, CallsInv, EvidenceInv, NEW p \in Procs, Crash(p)
  PROVE  EvidenceInv'
<1>1. UNCHANGED venueVars /\ RowEvidence
  BY RowEvidences DEF Crash, TypeOK
<1>2. EvidenceOK(p)'
  BY <1>1, LeaveEvidence DEF Crash
<1> QED BY <1>1, <1>2, CrashFrame, SameEvidence

\* The broker never forgets an order, so evidence stays true.
LEMMA VenueEvidence ==
  ASSUME TypeOK, CallsInv, EvidenceInv, VenueStep
  PROVE  EvidenceInv'
<1>1. UNCHANGED <<pc, target, found, left, posts, subState>>
  BY DEF VenueStep, VenueAccept, VenueRefuse, VenueClose, callVars, reconVars, journalVars
<1>2. /\ \A c \in Orders : venue[c] # "none" => venue'[c] # "none"
      /\ \A c \in Orders : venue'[c] # "none" => posts[c] = 1
      /\ \A a \in Attempts : reply'[a] = "ok" => reply[a] = "ok" \/ venue'[AttemptOrder[a]] # "none"
      /\ wire' \subseteq wire
  <2> USE DEF TypeOK, VenueTypeOK, EvidenceInv
  <2>1. ASSUME NEW a \in Attempts, VenueAccept(a) PROVE <1>2!:
    BY <2>1 DEF VenueAccept, Deliver
  <2>2. ASSUME NEW a \in Attempts, VenueRefuse(a) PROVE <1>2!:
    BY <2>2 DEF VenueRefuse, Deliver
  <2>3. ASSUME NEW c \in Orders, VenueClose(c) PROVE <1>2!:
    BY <2>3 DEF VenueClose
  <2> QED BY <2>1, <2>2, <2>3 DEF VenueStep
<1>3. \A v \in Recoverers : pc'[v] = "v_ack" => venue'[target'[v]] # "none"
  BY <1>1, <1>2 DEF EvidenceInv, CallsInv
<1>4. \A p \in Procs : \A c \in found'[p] : venue'[c] # "none"
  BY <1>1, <1>2 DEF EvidenceInv, TypeOK, ReconTypeOK
<1>5. \A o \in Operators : pc'[o] = "k_cancel" => \A c \in left'[o] : venue'[c] # "none"
  BY <1>1, <1>2 DEF EvidenceInv, TypeOK, ReconTypeOK, Procs
<1>6. \A a \in Attempts : pc'[a] = "x_ack" \/ reply'[a] = "ok" => venue'[AttemptOrder[a]] # "none"
  BY <1>1, <1>2 DEF EvidenceInv
<1>7. AcknowledgedOrderExists'
  BY <1>1, <1>2 DEF EvidenceInv, AcknowledgedOrderExists
<1> QED BY <1>1, <1>2, <1>3, <1>4, <1>5, <1>6, <1>7 DEF EvidenceInv

-----------------------------------------------------------------------------
\* The invariant holds when the journal is empty.
LEMMA InitIInv ==
  ASSUME Init
  PROVE  IInv
<1> USE DEF Init, JournalInit, ControlInit
<1>1. TypeOK
  BY DEF TypeOK, JournalTypeOK, ControlTypeOK, RecordState, PcTypeOK, CallTypeOK, ReconTypeOK,
         VenueTypeOK, Procs, AttemptLabels, RecoverLabels, OperatorLabels, Replies
<1>2. CallsInv
  BY DEF CallsInv, ReconLabels, Procs
<1>3. ClaimInv
  BY DEF ClaimInv, PreSend, Procs
<1>4. EvidenceInv
  BY DEF EvidenceInv, AcknowledgedOrderExists, Procs
<1> QED BY <1>1, <1>2, <1>3, <1>4 DEF IInv

\* Every step preserves the invariant.
LEMMA NextIInv ==
  ASSUME IInv, [Next]_vars
  PROVE  IInv'
<1> TypeOK /\ CallsInv /\ ClaimInv /\ EvidenceInv
  BY DEF IInv
<1>1. ASSUME NEW a \in Attempts, ExecuteStep(a) PROVE IInv'
  BY <1>1, AttemptTypes, AttemptCalls, AttemptClaim, AttemptEvidence DEF IInv
<1>2. ASSUME NEW v \in Recoverers, RecoverStep(v) PROVE IInv'
  BY <1>2, RecoverTypes, RecoverCalls, RecoverClaim, RecoverEvidence DEF IInv
<1>3. ASSUME NEW o \in Operators, OperatorStep(o) PROVE IInv'
  BY <1>3, OperatorTypes, OperatorCalls, OperatorClaim, OperatorEvidence DEF IInv
<1>4. ASSUME NEW p \in Procs, ReconcileStep(p) PROVE IInv'
  BY <1>4, ReconcileTypes, ReconcileCalls, ReconcileClaim, ReconcileEvidence DEF IInv
<1>5. ASSUME NEW p \in Procs, Crash(p) PROVE IInv'
  BY <1>5, CrashTypes, CrashCalls, CrashClaim, CrashEvidence DEF IInv
<1>6. CASE VenueStep
  BY <1>6, VenueTypes, VenueCalls, VenueClaim, VenueEvidence DEF IInv
<1>7. CASE UNCHANGED vars
  BY <1>7
     DEF vars, callVars, reconVars, venueVars, journalVars, controlVars, IInv, TypeOK,
         JournalTypeOK, ControlTypeOK, PcTypeOK, CallTypeOK, ReconTypeOK, VenueTypeOK,
         CallsInv, ClaimInv, MayClaim, EvidenceInv, AcknowledgedOrderExists, InProgress
<1> QED BY <1>1, <1>2, <1>3, <1>4, <1>5, <1>6, <1>7 DEF Next

\* Every reachable state satisfies the inductive invariant: types, call
\* discipline, exclusive claims and broker evidence, whatever attempts,
\* recoveries, operators, crashes and the broker do.
THEOREM Invariant == Spec => []IInv
<1>1. Init => IInv
  BY InitIInv
<1>2. IInv /\ [Next]_vars => IInv'
  BY NextIInv
<1> QED BY <1>1, <1>2, PTL DEF Spec

\* Type correctness of the journal rows, the operator store, the calls and
\* the broker's book.
THEOREM TypeCorrect == Spec => []TypeOK
<1>1. IInv => TypeOK
  BY DEF IInv
<1> QED BY <1>1, Invariant, PTL

\* execute_once and recover_submission together send at most one POST per
\* client order ID, for any number of attempts, recoverers and crashes.
THEOREM SubmittedOnce == Spec => []AtMostOneSubmission
<1>1. IInv => AtMostOneSubmission
  BY DEF IInv, ClaimInv, AtMostOneSubmission
<1> QED BY <1>1, Invariant, PTL

\* No POST leaves before the row is durably started.
THEOREM ClaimedBeforeSubmitted == Spec => []ClaimBeforeSubmission
<1>1. IInv => ClaimBeforeSubmission
  BY DEF IInv, ClaimInv, ClaimBeforeSubmission, TypeOK, VenueTypeOK
<1> QED BY <1>1, Invariant, PTL

\* An acknowledged or reconciled row stands for an order the broker has.
THEOREM AcknowledgedExists == Spec => []AcknowledgedOrderExists
<1>1. IInv => AcknowledgedOrderExists
  BY DEF IInv, EvidenceInv
<1> QED BY <1>1, Invariant, PTL
=============================================================================
