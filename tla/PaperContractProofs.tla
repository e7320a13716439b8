------------------------- MODULE PaperContractProofs -------------------------
(***************************************************************************)
(* Proofs that the paper order path implements SubmissionContract, that    *)
(* resolved rows are final, that the operator store keeps its promises     *)
(* about kill actions and approvals, and what holds in addition when one   *)
(* call runs at a time (SerialInv).  They rest on the invariant of         *)
(* PaperExecutionProofs.                                                   *)
(***************************************************************************)
EXTENDS PaperExecutionProofs, FiniteSetTheorems

USE ExecutionConstants

\* What a step does to the rows as the contract sees them.
SameRows ==
  \A c \in Orders : /\ subState'[c] = "absent" <=> subState[c] = "absent"
                    /\ Outcome(subState'[c]) = Outcome(subState[c])
                    /\ subState[c] \in TerminalStates => subState'[c] = subState[c]

NewRow(c) ==
  /\ subState[c] = "absent" /\ subState'[c] = "persisted"
  /\ \A d \in Orders : d # c => subState'[d] = subState[d]

RejectedRow(c) ==
  /\ subState[c] \notin TerminalStates \cup {"absent"} /\ subState'[c] = "rejected"
  /\ \A d \in Orders : d # c => subState'[d] = subState[d]

\* What persist and a transition do to the rows, as the contract sees them.
LEMMA JournalRows ==
  ASSUME JournalTypeOK
  PROVE  /\ UNCHANGED journalVars => SameRows
         /\ \A c \in Orders : \A payload :
              PersistApprovedOrder(c, payload) => SameRows \/ NewRow(c)
         /\ \A c \in Orders, state \in {"started", "acknowledged", "ambiguous"} : \A reason :
              TransitionSubmission(c, state, reason) => SameRows
         /\ \A c \in Orders : \A reason :
              TransitionSubmission(c, "rejected", reason) => SameRows \/ RejectedRow(c)
<1> USE DEF JournalTypeOK, SubmissionState, SameRows, TerminalStates
<1>1. UNCHANGED journalVars => SameRows
  BY DEF journalVars
<1>2. \A c \in Orders : \A payload : PersistApprovedOrder(c, payload) => SameRows \/ NewRow(c)
  BY DEF PersistApprovedOrder, NewRow, journalVars
<1>3. ASSUME NEW c \in Orders, NEW state \in {"started", "acknowledged", "ambiguous"},
             NEW reason, TransitionSubmission(c, state, reason)
      PROVE  SameRows
  <2>1. subState[c] \in {"persisted", "started", "acknowledged", "ambiguous"}
    BY <1>3 DEF TransitionSubmission, TransitionAccepts, AllowedTransitions
  <2> QED BY <1>3, <2>1 DEF TransitionSubmission, Outcome
<1>4. ASSUME NEW c \in Orders, NEW reason, TransitionSubmission(c, "rejected", reason)
      PROVE  SameRows \/ RejectedRow(c)
  <2>1. subState[c] \in {"persisted", "started", "ambiguous", "rejected"}
    BY <1>4 DEF TransitionSubmission, TransitionAccepts, AllowedTransitions
  <2> QED BY <1>4, <2>1 DEF TransitionSubmission, RejectedRow
<1> QED BY <1>1, <1>2, <1>3, <1>4

\* What the resolutions of apply_reconciliation do to the rows.
LEMMA ResolvedRows ==
  ASSUME JournalTypeOK, NEW resolved \in SUBSET Orders, ApplyResolutions(resolved)
  PROVE  \A c \in Orders :
           IF c \in resolved
             THEN subState[c] \notin {"absent", "rejected"} /\ subState'[c] = "reconciled"
             ELSE subState'[c] = subState[c]
BY DEF JournalTypeOK, ApplyResolutions, ResolutionsAccepted

-----------------------------------------------------------------------------
\* How the rows and the broker's book change in one step.
ContractStep ==
  \/ SameRows /\ posts' = posts /\ \A c \in Orders : venue'[c] = "none" <=> venue[c] = "none"
  \/ UNCHANGED <<posts, venue>> /\ \E c \in Orders : NewRow(c) \/ RejectedRow(c)
  \/ UNCHANGED <<posts, venue>> /\ \E p \in Procs : ApplyResolutions(found[p])
  \/ UNCHANGED <<subState, venue>> /\ \E c \in Orders :
       /\ subState[c] # "absent" /\ posts[c] = 0
       /\ posts' = [posts EXCEPT ![c] = @ + 1]
  \/ UNCHANGED <<subState, posts>> /\ \E c \in Orders :
       posts[c] = 1 /\ venue' = [venue EXCEPT ![c] = IF @ = "none" THEN "open" ELSE @]

\* Every step of execute_once is a step of the contract or invisible to it.
LEMMA AttemptContract ==
  ASSUME IInv, NEW a \in Attempts, ExecuteStep(a)
  PROVE  ContractStep
<1> JournalTypeOK /\ AttemptOrder[a] \in Orders
  BY DEF IInv, TypeOK
<1> USE JournalRows DEF ContractStep, venueVars
<1>1. CASE SubmitPost(a)
  <2>1. subState[AttemptOrder[a]] # "absent" /\ posts[AttemptOrder[a]] = 0
    BY <1>1 DEF SubmitPost, IInv, ClaimInv, PreSend
  <2> QED BY <1>1, <2>1 DEF SubmitPost, journalVars
<1>2. CASE SubmitResponse(a)
  BY <1>2 DEF SubmitResponse
<1>3. CASE ~SubmitPost(a) /\ ~SubmitResponse(a)
  <2>1. UNCHANGED <<posts, venue>>
    BY <1>3
       DEF ExecuteStep, ExecuteStart, ExecuteKnown, ExecuteAssess, ExecuteDecide,
           ExecuteRequireUnpaused, ExecutePersist, ExecuteCheckPause, ExecuteRejectUnsent,
           ExecuteClaim, SubmitLookup, SubmitRelookup, SubmitFail, ExecuteAcknowledge,
           ExecuteRefused, ExecuteAmbiguous, ExecuteFinal, ExecutePause
  <2>2. SameRows \/ \E c \in Orders : NewRow(c) \/ RejectedRow(c)
    BY <1>3
       DEF ExecuteStep, ExecuteStart, ExecuteKnown, ExecuteAssess, ExecuteDecide,
           ExecuteRequireUnpaused, ExecutePersist, ExecuteCheckPause, ExecuteRejectUnsent,
           ExecuteClaim, SubmitLookup, SubmitRelookup, SubmitFail, ExecuteAcknowledge,
           ExecuteRefused, ExecuteAmbiguous, ExecuteFinal, ExecutePause
  <2> QED BY <2>1, <2>2
<1> QED BY <1>1, <1>2, <1>3

\* So is every step of recover.
LEMMA RecoverContract ==
  ASSUME IInv, NEW v \in Recoverers, RecoverStep(v)
  PROVE  ContractStep
<1> JournalTypeOK
  BY DEF IInv, TypeOK
<1> USE JournalRows DEF ContractStep, venueVars
<1>1. UNCHANGED <<posts, venue>>
  BY DEF RecoverStep, RecoverStart, RecoverRead, RecoverLookup, RecoverReject,
         RecoverAcknowledge, RecoverFinal
<1>2. CASE RecoverReject(v) \/ RecoverAcknowledge(v)
  <2>1. target[v] \in Orders
    BY <1>2 DEF RecoverReject, RecoverAcknowledge, IInv, CallsInv
  <2> QED BY <1>1, <1>2, <2>1 DEF RecoverReject, RecoverAcknowledge
<1>3. CASE ~RecoverReject(v) /\ ~RecoverAcknowledge(v)
  BY <1>1, <1>3 DEF RecoverStep, RecoverStart, RecoverRead, RecoverLookup, RecoverFinal
<1> QED BY <1>2, <1>3

\* So is every step of an operator action.
LEMMA OperatorContract ==
  ASSUME IInv, NEW o \in Operators, OperatorStep(o)
  PROVE  ContractStep
<1> JournalTypeOK /\ o \in Procs
  BY DEF IInv, TypeOK, Procs
<1> USE JournalRows DEF ContractStep, venueVars
<1>1. UNCHANGED journalVars /\ posts' = posts
  BY DEF OperatorStep, OperatorPause, ResumeStart, ResumeCommit, KillStart, KillBegin,
         KillList, KillCancel, KillResidual, KillError, KillComplete, CloseInterrupted
<1>2. CASE KillCancel(o)
  <2>1. PICK c \in left[o], after \in {"open", "closed"} : venue' = [venue EXCEPT ![c] = after]
    BY <1>2 DEF KillCancel
  <2>2. c \in Orders /\ venue[c] # "none"
    BY <1>2, <2>1 DEF KillCancel, IInv, EvidenceInv, TypeOK, ReconTypeOK
  <2>3. \A d \in Orders : venue'[d] = "none" <=> venue[d] = "none"
    BY <2>1, <2>2 DEF IInv, TypeOK, VenueTypeOK
  <2> QED BY <1>1, <2>3
<1>3. CASE ~KillCancel(o)
  <2>1. venue' = venue
    BY <1>3 DEF OperatorStep, OperatorPause, ResumeStart, ResumeCommit, KillStart, KillBegin,
               KillList, KillResidual, KillError, KillComplete, CloseInterrupted
  <2> QED BY <1>1, <2>1
<1> QED BY <1>2, <1>3

\* So is every step of the system.
LEMMA NextContract ==
  ASSUME IInv, [Next]_vars
  PROVE  ContractStep
<1> JournalTypeOK
  BY DEF IInv, TypeOK
<1> USE JournalRows DEF ContractStep, venueVars
<1>1. ASSUME NEW p \in Procs, ReconcileStep(p) PROVE ContractStep
  BY <1>1 DEF ReconcileStep, ReconcileOpenOrders, ReconcileKnown, ReconcileUnresolved,
              ReconcileLookup, ReconcileApply, ReconcileFail
<1>2. ASSUME NEW p \in Procs, Crash(p) PROVE ContractStep
  BY <1>2 DEF Crash
<1>3. ASSUME NEW a \in Attempts, VenueAccept(a) PROVE ContractStep
  <2>1. AttemptOrder[a] \in Orders /\ posts[AttemptOrder[a]] = 1
    BY <1>3 DEF VenueAccept, IInv, EvidenceInv
  <2> QED BY <1>3, <2>1 DEF VenueAccept, journalVars
<1>4. ASSUME NEW a \in Attempts, VenueRefuse(a) PROVE ContractStep
  BY <1>4 DEF VenueRefuse
<1>5. ASSUME NEW c \in Orders, VenueClose(c) PROVE ContractStep
  BY <1>5 DEF VenueClose, IInv, TypeOK, VenueTypeOK
<1>6. CASE UNCHANGED vars
  BY <1>6 DEF vars
<1> QED
  BY <1>1, <1>2, <1>3, <1>4, <1>5, <1>6, AttemptContract, RecoverContract, OperatorContract
     DEF Next, VenueStep

\* The classification of the steps above matches the actions of
\* SubmissionContract.
LEMMA ContractNext ==
  ASSUME IInv, ContractStep
  PROVE  [Contract!Next]_(Contract!vars)
<1> USE DEF IInv, TypeOK, JournalTypeOK, VenueTypeOK
<1> DEFINE exists == {c \in Orders : venue[c] # "none"}
           outcome == [c \in Orders |-> Outcome(subState[c])]
<1>1. CASE SameRows /\ posts' = posts /\ \A c \in Orders : venue'[c] = "none" <=> venue[c] = "none"
  <2>1. Known' = Known /\ exists' = exists /\ outcome' = outcome
    BY <1>1 DEF SameRows, Known
  <2> QED BY <1>1, <2>1 DEF Contract!vars
<1>2. ASSUME UNCHANGED <<posts, venue>>, NEW c \in Orders, NewRow(c)
      PROVE  Contract!Approve(c)
  <2>1. c \notin Known /\ Known' = Known \cup {c}
    BY <1>2 DEF NewRow, Known
  <2>2. exists' = exists /\ outcome' = outcome
    BY <1>2 DEF NewRow, Outcome
  <2> QED BY <1>2, <2>1, <2>2 DEF Contract!Approve
<1>3. ASSUME UNCHANGED <<posts, venue>>, NEW c \in Orders, RejectedRow(c)
      PROVE  Contract!Reject(c)
  <2>1. c \in Known /\ Known' = Known /\ exists' = exists
    BY <1>3 DEF RejectedRow, Known
  <2>2. outcome[c] = "open" /\ outcome' = [outcome EXCEPT ![c] = "rejected"]
    BY <1>3 DEF RejectedRow, Outcome, TerminalStates
  <2> QED BY <1>3, <2>1, <2>2 DEF Contract!Reject
<1>4. ASSUME UNCHANGED <<posts, venue>>, NEW p \in Procs, ApplyResolutions(found[p])
      PROVE  Contract!Resolve(found[p]) /\ found[p] \in SUBSET Orders
  <2>1. found[p] \in SUBSET Orders /\ \A c \in found[p] : venue[c] # "none"
    BY DEF ReconTypeOK, EvidenceInv
  <2>2. \A c \in Orders :
          IF c \in found[p]
            THEN subState[c] \notin {"absent", "rejected"} /\ subState'[c] = "reconciled"
            ELSE subState'[c] = subState[c]
    BY <1>4, <2>1, ResolvedRows
  <2>3. Known' = Known /\ exists' = exists /\ found[p] \subseteq exists \cap Known
    BY <1>4, <2>1, <2>2 DEF Known
  <2>4. \A c \in found[p] : outcome[c] # "rejected"
    BY <2>1, <2>2 DEF Outcome
  <2>5. outcome' = [c \in Orders |-> IF c \in found[p] THEN "resolved" ELSE outcome[c]]
    BY <2>1, <2>2 DEF Outcome
  <2> QED BY <1>4, <2>1, <2>3, <2>4, <2>5 DEF Contract!Resolve
<1>5. ASSUME UNCHANGED <<subState, venue>>, NEW c \in Orders, subState[c] # "absent", posts[c] = 0,
             posts' = [posts EXCEPT ![c] = @ + 1]
      PROVE  Contract!Send(c)
  <2>1. c \in Known /\ Known' = Known /\ exists' = exists /\ outcome' = outcome
    BY <1>5 DEF Known
  <2>2. posts' = [posts EXCEPT ![c] = 1]
    BY <1>5
  <2> QED BY <1>5, <2>1, <2>2 DEF Contract!Send
<1>6. ASSUME UNCHANGED <<subState, posts>>, NEW c \in Orders, posts[c] = 1,
             venue' = [venue EXCEPT ![c] = IF @ = "none" THEN "open" ELSE @]
      PROVE  Contract!Create(c)
  <2>1. Known' = Known /\ outcome' = outcome
    BY <1>6 DEF Known
  <2>2. exists' = exists \cup {c}
    BY <1>6
  <2> QED BY <1>6, <2>1, <2>2 DEF Contract!Create
<1> QED BY <1>1, <1>2, <1>3, <1>4, <1>5, <1>6 DEF ContractStep, Contract!Next

\* The order path implements SubmissionContract: every step is one of the
\* contract's steps on the durable rows, the POST counter and the broker's
\* book, or is invisible to it.
THEOREM Refinement == Spec => ImplementsContract
<1>1. Init => Contract!Init
  BY DEF Init, JournalInit, Contract!Init, Known, Outcome
<1>2. IInv /\ [Next]_vars => [Contract!Next]_(Contract!vars)
  BY NextContract, ContractNext
<1> QED BY <1>1, <1>2, Invariant, PTL DEF Spec, ImplementsContract, Contract!Spec

\* A reconciled or rejected row never changes its state again.
THEOREM TerminalRowsFinal == Spec => TerminalIsFinal
<1>1. ASSUME IInv, [Next]_vars
      PROVE  \A c \in Orders : subState[c] \in TerminalStates => subState'[c] = subState[c]
  <2>1. JournalTypeOK /\ \A p \in Procs : found[p] \in SUBSET Orders
    BY <1>1 DEF IInv, TypeOK, ReconTypeOK
  <2>2. ContractStep
    BY <1>1, NextContract
  <2> QED BY <2>1, <2>2, ResolvedRows
          DEF ContractStep, SameRows, NewRow, RejectedRow, TerminalStates
<1> QED BY <1>1, Invariant, PTL DEF Spec, TerminalIsFinal

-----------------------------------------------------------------------------
\* How a step uses the operator store.
StoreStep ==
  \/ UNCHANGED controlVars
  \/ Pause
  \/ \E g, now : Resume(g, now)
  \/ \E g, action, now : BeginAction(g, action, now)
  \/ \E g, succeeded : CompleteAction(g, succeeded)

\* The operator store changes only by pause, resume, begin_action and
\* complete_action.
LEMMA NextStore ==
  ASSUME [Next]_vars
  PROVE  StoreStep
<1> USE DEF StoreStep
<1>1. ASSUME NEW a \in Attempts, ExecuteStep(a) PROVE StoreStep
  BY <1>1
     DEF ExecuteStep, ExecuteStart, ExecuteKnown, ExecuteAssess, ExecuteDecide,
         ExecuteRequireUnpaused, ExecutePersist, ExecuteCheckPause, ExecuteRejectUnsent,
         ExecuteClaim, SubmitLookup, SubmitPost, SubmitResponse, SubmitRelookup, SubmitFail,
         ExecuteAcknowledge, ExecuteRefused, ExecuteAmbiguous, ExecuteFinal, ExecutePause
<1>2. ASSUME NEW v \in Recoverers, RecoverStep(v) PROVE StoreStep
  BY <1>2 DEF RecoverStep, RecoverStart, RecoverRead, RecoverLookup, RecoverReject,
              RecoverAcknowledge, RecoverFinal
<1>3. ASSUME NEW o \in Operators, OperatorStep(o) PROVE StoreStep
  BY <1>3 DEF OperatorStep, OperatorPause, ResumeStart, ResumeCommit, KillStart, KillBegin,
              KillList, KillCancel, KillResidual, KillError, KillComplete, CloseInterrupted
<1>4. ASSUME NEW p \in Procs, ReconcileStep(p) PROVE StoreStep
  BY <1>4 DEF ReconcileStep, ReconcileOpenOrders, ReconcileKnown, ReconcileUnresolved,
              ReconcileLookup, ReconcileApply, ReconcileFail
<1>5. CASE (\E p \in Procs : Crash(p)) \/ VenueStep \/ UNCHANGED vars
  BY <1>5 DEF Crash, VenueStep, VenueAccept, VenueRefuse, VenueClose, vars
<1> QED BY <1>1, <1>2, <1>3, <1>4, <1>5 DEF Next

\* At most one action in progress, and none while the system is unpaused.
KillInv ==
  /\ InProgress # {} => paused
  /\ \A g, h \in InProgress : g = h

\* A kill action in progress holds the system paused and excludes any other:
\* resume and begin_action are refused until it is closed.
THEOREM KillHolds == Spec => []KillHoldsPause
<1>1. Init => KillInv
  BY DEF Init, ControlInit, KillInv, InProgress
<1>2. ASSUME IInv, KillInv, [Next]_vars PROVE KillInv'
  <2> records \in [Approvals -> RecordState]
    BY <1>2 DEF IInv, TypeOK, ControlTypeOK
  <2> USE <1>2 DEF KillInv, InProgress
  <2>1. CASE UNCHANGED controlVars \/ Pause
    BY <2>1 DEF Pause, controlVars
  <2>2. ASSUME NEW g, NEW now, Resume(g, now) PROVE KillInv'
    BY <2>2 DEF Resume, ResumeAccepts
  <2>3. ASSUME NEW g, NEW action, NEW now, BeginAction(g, action, now) PROVE KillInv'
    BY <2>3 DEF BeginAction, BeginAccepts
  <2>4. ASSUME NEW g, NEW succeeded, CompleteAction(g, succeeded) PROVE KillInv'
    BY <2>4 DEF CompleteAction
  <2> QED BY <2>1, <2>2, <2>3, <2>4, NextStore DEF StoreStep
<1>3. KillInv => KillHoldsPause
  <2>1. ASSUME KillInv PROVE Cardinality(InProgress) <= 1
    <3>1. CASE InProgress = {}
      BY <3>1, FS_EmptySet
    <3>2. ASSUME NEW g \in InProgress PROVE Cardinality(InProgress) = 1
      <4>1. InProgress = {g}
        BY <2>1, <3>2 DEF KillInv
      <4> QED BY <4>1, FS_Singleton
    <3> QED BY <3>1, <3>2
  <2> QED BY <2>1 DEF KillInv, KillHoldsPause
<1> QED BY <1>1, <1>2, <1>3, Invariant, PTL DEF Spec

\* An approval is consumed once: no record disappears and a closed record
\* never changes.
THEOREM ApprovalsConsumed == Spec => ApprovalsUsedOnce
<1>1. ASSUME IInv, [Next]_vars
      PROVE  \A g \in Approvals :
               /\ records[g] # "unused" => records'[g] # "unused"
               /\ records[g] \in {"completed", "failed"} => records'[g] = records[g]
  <2> records \in [Approvals -> RecordState]
    BY <1>1 DEF IInv, TypeOK, ControlTypeOK
  <2> StoreStep
    BY <1>1, NextStore
  <2> QED BY DEF StoreStep, Pause, Resume, ResumeAccepts, BeginAction, BeginAccepts,
                 CompleteAction, controlVars
<1> QED BY <1>1, Invariant, PTL DEF Spec, ApprovalsUsedOnce

-----------------------------------------------------------------------------
\* Suspects were seen at the broker, and none survives the known IDs.
SuspectInv ==
  /\ \A p \in Procs : pc[p] = "r_known" => \A c \in suspect[p] : venue[c] # "none"
  /\ NoFalseUnexplainedOrder

\* Only reconcile itself enters the steps between its three listings.
SuspectFrame ==
  \A p \in Procs : pc'[p] \in {"r_known", "r_unresolved", "r_lookup"} =>
    pc[p] = pc'[p] /\ suspect'[p] = suspect[p]

\* A framed step that leaves its own suspicion alone leaves every one alone.
LEMMA FrameSuspects ==
  ASSUME NEW p \in Procs, Frame(p),
         pc'[p] \in {"r_known", "r_unresolved", "r_lookup"} =>
           pc[p] = pc'[p] /\ suspect'[p] = suspect[p]
  PROVE  SuspectFrame
BY DEF Frame, SuspectFrame

\* No step outside reconcile makes a process suspect an order.
LEMMA ServiceSuspects ==
  ASSUME TypeOK
  PROVE  /\ \A a \in Attempts : ExecuteStep(a) => SuspectFrame
         /\ \A v \in Recoverers : RecoverStep(v) => SuspectFrame
         /\ \A o \in Operators : OperatorStep(o) => SuspectFrame
         /\ \A p \in Procs : Crash(p) => SuspectFrame
<1> USE DEF TypeOK, PcTypeOK, Goto, Leave, EndOf, StartReconcile
<1>1. ASSUME NEW a \in Attempts, ExecuteStep(a) PROVE SuspectFrame
  <2>1. a \in Procs /\ Frame(a)
    BY <1>1, AttemptFrame DEF Procs
  <2>2. pc'[a] \notin {"r_known", "r_unresolved", "r_lookup"}
    BY <1>1, <2>1
       DEF ExecuteStep, ExecuteStart, ExecuteKnown, ExecuteAssess, ExecuteDecide,
           ExecuteRequireUnpaused, ExecutePersist, ExecuteCheckPause, ExecuteRejectUnsent,
           ExecuteClaim, SubmitLookup, SubmitPost, SubmitResponse, SubmitRelookup, SubmitFail,
           ExecuteAcknowledge, ExecuteRefused, ExecuteAmbiguous, ExecuteFinal, ExecutePause
  <2> QED BY <2>1, <2>2, FrameSuspects
<1>2. ASSUME NEW v \in Recoverers, RecoverStep(v) PROVE SuspectFrame
  <2>1. v \in Procs /\ Frame(v)
    BY <1>2, RecoverFrame DEF Procs
  <2>2. pc'[v] \notin {"r_known", "r_unresolved", "r_lookup"}
    BY <1>2, <2>1 DEF RecoverStep, RecoverStart, RecoverRead, RecoverLookup, RecoverReject,
                      RecoverAcknowledge, RecoverFinal
  <2> QED BY <2>1, <2>2, FrameSuspects
<1>3. ASSUME NEW o \in Operators, OperatorStep(o) PROVE SuspectFrame
  <2>1. o \in Procs /\ Frame(o)
    BY <1>3, OperatorFrame DEF Procs
  <2>2. CASE OperatorPause(o) \/ \E g \in Approvals : CloseInterrupted(o, g)
    BY <2>1, <2>2, FrameSuspects DEF OperatorPause, CloseInterrupted, reconVars
  <2>3. CASE ~OperatorPause(o) /\ ~\E g \in Approvals : CloseInterrupted(o, g)
    <3>1. pc'[o] \notin {"r_known", "r_unresolved", "r_lookup"}
      BY <1>3, <2>1, <2>3
         DEF OperatorStep, ResumeStart, ResumeCommit, KillStart, KillBegin, KillList,
             KillCancel, KillResidual, KillError, KillComplete
    <3> QED BY <2>1, <3>1, FrameSuspects
  <2> QED BY <2>2, <2>3
<1>4. ASSUME NEW p \in Procs, Crash(p) PROVE SuspectFrame
  <2>1. pc'[p] \notin {"r_known", "r_unresolved", "r_lookup"}
    BY <1>4 DEF Crash
  <2> QED BY <1>4, <2>1, CrashFrame, FrameSuspects
<1> QED BY <1>1, <1>2, <1>3, <1>4

\* The broker never forgets an order.
LEMMA VenueGrows ==
  ASSUME IInv, [Next]_vars
  PROVE  \A c \in Orders : venue[c] # "none" => venue'[c] # "none"
<1>1. ContractStep
  BY NextContract
<1> QED BY <1>1 DEF ContractStep, IInv, TypeOK, VenueTypeOK

\* reconcile suspects no order of this program.
LEMMA ReconcileSuspects ==
  ASSUME IInv, SuspectInv, NEW p \in Procs, ReconcileStep(p)
  PROVE  SuspectInv'
<1> USE DEF IInv, TypeOK, PcTypeOK, ReconTypeOK, Goto
<1>1. [Next]_vars
  BY DEF Next
<1>2. Frame(p) /\ \A c \in Orders : venue[c] # "none" => venue'[c] # "none"
  BY <1>1, ReconcileFrame, VenueGrows
<1>3. \A q \in Procs : q # p /\ pc'[q] = "r_known" => \A c \in suspect'[q] : venue'[c] # "none"
  BY <1>2 DEF Frame, SuspectInv
<1>4. \A q \in Procs : q # p /\ pc'[q] \in {"r_unresolved", "r_lookup"} => suspect'[q] = {}
  BY <1>2 DEF Frame, SuspectInv, NoFalseUnexplainedOrder
<1>5. /\ pc'[p] = "r_known" => \A c \in suspect'[p] : venue'[c] # "none"
      /\ pc'[p] \in {"r_unresolved", "r_lookup"} => suspect'[p] = {}
  <2>1. CASE ReconcileOpenOrders(p)
    BY <2>1 DEF ReconcileOpenOrders, venueVars
  <2>2. CASE ReconcileKnown(p)
    \* An order the broker has was sent, so its row was written before.
    <3>1. suspect[p] \subseteq Known
      BY <2>2 DEF ReconcileKnown, SuspectInv, EvidenceInv, ClaimInv, Known
    <3> QED BY <2>2, <3>1 DEF ReconcileKnown
  <2>3. CASE ReconcileUnresolved(p) \/ ReconcileLookup(p)
    BY <2>3 DEF ReconcileUnresolved, ReconcileLookup, SuspectInv, NoFalseUnexplainedOrder
  <2>4. CASE ReconcileApply(p)
    BY <2>4 DEF ReconcileApply, CallsInv, ReconLabels, Procs
  <2>5. CASE ReconcileFail(p)
    BY <2>5 DEF ReconcileFail
  <2> QED BY <2>1, <2>2, <2>3, <2>4, <2>5 DEF ReconcileStep
<1> QED BY <1>3, <1>4, <1>5 DEF SuspectInv, NoFalseUnexplainedOrder

\* reconcile never takes one of its own orders for an unexplained one,
\* because it lists the open orders before it reads the known IDs.
THEOREM OwnOrdersExplained == Spec => []NoFalseUnexplainedOrder
<1>1. Init => SuspectInv
  BY DEF Init, SuspectInv, NoFalseUnexplainedOrder
<1>2. ASSUME IInv, SuspectInv, [Next]_vars PROVE SuspectInv'
  <2>1. CASE \E p \in Procs : ReconcileStep(p)
    BY <1>2, <2>1, ReconcileSuspects
  <2>2. CASE ~\E p \in Procs : ReconcileStep(p)
    <3>1. SuspectFrame
      <4>1. CASE VenueStep \/ UNCHANGED vars
        BY <4>1 DEF VenueStep, VenueAccept, VenueRefuse, VenueClose, vars, reconVars, SuspectFrame
      <4> QED BY <1>2, <2>2, <4>1, ServiceSuspects DEF Next, IInv
    <3>2. \A c \in Orders : venue[c] # "none" => venue'[c] # "none"
      BY <1>2, VenueGrows
    <3>3. \A p \in Procs : suspect[p] \subseteq Orders
      BY <1>2 DEF IInv, TypeOK, ReconTypeOK
    <3> QED BY <1>2, <3>1, <3>2, <3>3 DEF SuspectInv, SuspectFrame, NoFalseUnexplainedOrder
  <2> QED BY <2>1, <2>2
<1>3. SuspectInv => NoFalseUnexplainedOrder
  BY DEF SuspectInv
<1> QED BY <1>1, <1>2, <1>3, Invariant, PTL DEF Spec

-----------------------------------------------------------------------------
(* One call at a time *)

\* The running call is the only one, before and after its step.
Solo(p) == Frame(p) /\ \A q \in Procs \ {p} : Resting(q) /\ Resting(q)'

\* A step of a call happens while every other call rests.
LEMMA SoloStep ==
  ASSUME IInv, Alone, Serialized, NEW p \in Procs,
         \/ p \in Attempts /\ ExecuteStep(p)
         \/ p \in Recoverers /\ RecoverStep(p)
         \/ p \in Operators /\ OperatorStep(p)
         \/ ReconcileStep(p)
         \/ Crash(p)
  PROVE  Solo(p)
<1>1. TypeOK
  BY DEF IInv
<1>2. Frame(p)
  BY <1>1, AttemptFrame, RecoverFrame, OperatorFrame, ReconcileFrame, CrashFrame
<1>3. ~Resting(p) \/ MayStart(p)
  <2>1. CASE p \in Attempts /\ ExecuteStep(p)
    BY <2>1
       DEF Resting, ExecuteStep, ExecuteStart, ExecuteKnown, ExecuteAssess, ExecuteDecide,
           ExecuteRequireUnpaused, ExecutePersist, ExecuteCheckPause, ExecuteRejectUnsent,
           ExecuteClaim, SubmitLookup, SubmitPost, SubmitResponse, SubmitRelookup, SubmitFail,
           ExecuteAcknowledge, ExecuteRefused, ExecuteAmbiguous, ExecuteFinal, ExecutePause
  <2>2. CASE p \in Recoverers /\ RecoverStep(p)
    BY <2>2 DEF Resting, RecoverStep, RecoverStart, RecoverRead, RecoverLookup, RecoverReject,
                RecoverAcknowledge, RecoverFinal
  <2>3. CASE p \in Operators /\ OperatorStep(p)
    BY <2>3 DEF Resting, OperatorStep, OperatorPause, ResumeStart, ResumeCommit, KillStart,
                KillBegin, KillList, KillCancel, KillResidual, KillError, KillComplete,
                CloseInterrupted
  <2>4. CASE ReconcileStep(p) \/ Crash(p)
    BY <2>4 DEF Resting, ReconcileStep, ReconcileOpenOrders, ReconcileKnown,
                ReconcileUnresolved, ReconcileLookup, ReconcileApply, ReconcileFail, ReconLabels,
                Crash
  <2> QED BY <2>1, <2>2, <2>3, <2>4
<1>4. \A q \in Procs \ {p} : Resting(q)
  BY <1>3 DEF Alone, MayStart
<1>5. \A q \in Procs \ {p} : Resting(q)'
  BY <1>2, <1>4 DEF Frame, Resting
<1> QED BY <1>2, <1>4, <1>5 DEF Solo

\* A call that rests has nothing read that could be stale.
LEMMA RestingInv ==
  ASSUME NEW q \in Procs, Resting(q)'
  PROVE  AttemptInv(q)' /\ RecoveryInv(q)' /\ CleanInv(q)'
BY DEF Resting, AttemptInv, BeforeInsert, RecoveryInv, CleanInv, PreSend, ReconLabels

\* So the invariant has to be shown for the running call only.
LEMMA SerialStep ==
  ASSUME NEW p \in Procs, Solo(p),
         p \in Attempts => AttemptInv(p)', p \in Recoverers => RecoveryInv(p)', CleanInv(p)',
         ReplyInv', RejectedNeverLive', OneUnresolvedAtATime'
  PROVE  SerialInv'
<1>1. Alone'
  BY DEF Solo, Alone
<1>2. \A a \in Attempts : AttemptInv(a)'
  BY RestingInv DEF Solo, Procs
<1>3. \A v \in Recoverers : RecoveryInv(v)'
  BY RestingInv DEF Solo, Procs
<1>4. \A q \in Procs : CleanInv(q)'
  BY RestingInv DEF Solo
<1> QED BY <1>1, <1>2, <1>3, <1>4 DEF SerialInv

\* What a step of the rows means for the reads of a call.
LEMMA RowReads ==
  ASSUME JournalTypeOK
  PROVE  /\ SameRows => Unresolved' = Unresolved /\ Known' = Known
         /\ SameRows => \A c \in Orders : subState'[c] = "rejected" <=> subState[c] = "rejected"
         /\ \A c \in Orders : RejectedRow(c) => Unresolved' \subseteq Unresolved /\ Known' = Known
         /\ \A c \in Orders : NewRow(c) => Unresolved' \subseteq Unresolved \cup {c}
<1> USE DEF JournalTypeOK, SubmissionState, Unresolved, Known, TerminalStates
<1>1. SameRows => \A c \in Orders : /\ subState'[c] = "rejected" <=> subState[c] = "rejected"
                                    /\ subState'[c] = "reconciled" <=> subState[c] = "reconciled"
                                    /\ subState'[c] = "absent" <=> subState[c] = "absent"
  BY DEF SameRows, Outcome
<1>2. SameRows => Unresolved' = Unresolved /\ Known' = Known
  BY <1>1
<1>3. \A c \in Orders : RejectedRow(c) => Unresolved' \subseteq Unresolved /\ Known' = Known
  BY DEF RejectedRow
<1>4. \A c \in Orders : NewRow(c) => Unresolved' \subseteq Unresolved \cup {c}
  BY DEF NewRow
<1> QED BY <1>1, <1>2, <1>3, <1>4

\* At most one row stays unresolved when none is added, or when there was
\* none.
LEMMA OneUnresolved ==
  ASSUME JournalTypeOK, JournalTypeOK', OneUnresolvedAtATime,
         Unresolved' \subseteq Unresolved \/ \E c \in Orders : Unresolved' \subseteq {c}
  PROVE  OneUnresolvedAtATime'
<1> USE DEF JournalTypeOK, SubmissionState, TerminalStates
<1>1. \A c, d \in Unresolved : c = d
  BY DEF OneUnresolvedAtATime, Unresolved, Known
<1>2. \A c, d \in Unresolved' : c = d
  BY <1>1
<1>3. \A c \in Orders : subState'[c] \in SubmissionState \ {"reconciled", "rejected"} =>
        c \in Unresolved'
  BY DEF Unresolved, Known
<1> QED BY <1>2, <1>3 DEF OneUnresolvedAtATime

\* No rejected row comes to life when rows, broker and wire stay as they
\* are, and none is born alive when its order is nowhere.
LEMMA RejectedStays ==
  ASSUME IInv, RejectedNeverLive, wire' \subseteq wire,
         \A c \in Orders : venue'[c] = "none" <=> venue[c] = "none",
         \/ SameRows
         \/ \E c \in Orders : /\ RejectedRow(c)
                              /\ venue[c] = "none" /\ \A b \in wire : AttemptOrder[b] # c
  PROVE  RejectedNeverLive'
<1>1. JournalTypeOK
  BY DEF IInv, TypeOK
<1>2. CASE SameRows
  BY <1>1, <1>2, RowReads DEF RejectedNeverLive
<1>3. ASSUME NEW c \in Orders, RejectedRow(c), venue[c] = "none", \A b \in wire : AttemptOrder[b] # c
      PROVE  RejectedNeverLive'
  BY <1>3 DEF RejectedNeverLive, RejectedRow
<1> QED BY <1>2, <1>3

\* An order that was never sent is nowhere.
LEMMA UnsentNowhere ==
  ASSUME IInv, NEW c \in Orders, posts[c] = 0
  PROVE  venue[c] = "none" /\ \A b \in wire : AttemptOrder[b] # c
BY DEF IInv, EvidenceInv


\* A reply is not disturbed by the calls that do not wait for it.
LEMMA AttemptReply ==
  ASSUME IInv, ReplyInv, NEW a \in Attempts, ExecuteStep(a)
  PROVE  ReplyInv'
<1>0. /\ TypeOK /\ CallsInv /\ a \in Procs /\ Frame(a) /\ reply \in [Attempts -> Replies]
      /\ pc \in [Procs -> ReconLabels \cup AttemptLabels \cup RecoverLabels \cup OperatorLabels]
      /\ ret \in [Procs -> Returns \cup {None}]
  BY AttemptFrame DEF IInv, TypeOK, PcTypeOK, VenueTypeOK, ReconTypeOK, Procs
<1>1. \A b \in Attempts : b # a => pc'[b] = pc[b] /\ ret'[b] = ret[b]
  BY <1>0 DEF Frame, Procs
<1>2. \A b \in Attempts : b # a /\ (MayClaim(b)' \/ pc'[b] \in PreSend) =>
        MayClaim(b) \/ pc[b] \in PreSend
  BY <1>1 DEF MayClaim
<1>3. CASE SubmitPost(a)
  <2>1. pc'[a] = "x_await" /\ wire' = wire \cup {a} /\ reply' = reply /\ pc[a] = "x_post"
    BY <1>0, <1>3 DEF SubmitPost, Goto
  <2>2. reply[a] = "none"
    BY <2>1 DEF ReplyInv, PreSend
  <2>3. ~(MayClaim(a)' \/ pc'[a] \in PreSend)
    BY <2>1 DEF MayClaim, PreClaim, ReconLabels, PreSend
  <2> QED BY <1>2, <2>1, <2>2, <2>3 DEF ReplyInv
<1>4. CASE SubmitResponse(a)
  <2>1. /\ pc'[a] \in {"x_ack", "x_relookup"} /\ wire' = wire
        /\ reply' = reply \/ reply' = [reply EXCEPT ![a] = "timeout"]
    BY <1>0, <1>4 DEF SubmitResponse, Goto
  <2>2. ~(MayClaim(a)' \/ pc'[a] \in PreSend)
    BY <2>1 DEF MayClaim, PreClaim, ReconLabels, PreSend
  <2>3. \A b \in Attempts : reply'[b] = reply[b] \/ (b = a /\ reply'[b] = "timeout")
    BY <1>0, <2>1
  <2> QED BY <1>2, <2>1, <2>2, <2>3 DEF ReplyInv
<1>5. CASE ~SubmitPost(a) /\ ~SubmitResponse(a)
  <2>1. reply' = reply /\ wire' = wire
    BY <1>5
       DEF ExecuteStep, ExecuteStart, ExecuteKnown, ExecuteAssess, ExecuteDecide,
           ExecuteRequireUnpaused, ExecutePersist, ExecuteCheckPause, ExecuteRejectUnsent,
           ExecuteClaim, SubmitLookup, SubmitRelookup, SubmitFail, ExecuteAcknowledge,
           ExecuteRefused, ExecuteAmbiguous, ExecuteFinal, ExecutePause, venueVars
  <2>2. MayClaim(a)' \/ pc'[a] \in PreSend => MayClaim(a) \/ pc[a] \in PreSend
    BY <1>0, <1>5
       DEF ExecuteStep, ExecuteStart, ExecuteKnown, ExecuteAssess, ExecuteDecide,
           ExecuteRequireUnpaused, ExecutePersist, ExecuteCheckPause, ExecuteRejectUnsent,
           ExecuteClaim, SubmitLookup, SubmitRelookup, SubmitFail, ExecuteAcknowledge,
           ExecuteRefused, ExecuteAmbiguous, ExecuteFinal, ExecutePause, MayStart,
           MayClaim, PreClaim, PreSend, ReconLabels, Goto, Leave, EndOf, StartReconcile
  <2> QED BY <1>2, <2>1, <2>2 DEF ReplyInv
<1> QED BY <1>3, <1>4, <1>5

\* execute_once inserts a row only when nothing is unresolved, and rejects
\* one only when its order is nowhere.
LEMMA AttemptRows ==
  ASSUME IInv, SerialInv, NEW a \in Attempts, ExecuteStep(a), JournalTypeOK'
  PROVE  RejectedNeverLive' /\ OneUnresolvedAtATime'
<1> DEFINE c == AttemptOrder[a]
<1>0. /\ JournalTypeOK /\ c \in Orders /\ AttemptInv(a)
      /\ RejectedNeverLive /\ OneUnresolvedAtATime
  BY DEF IInv, TypeOK, SerialInv
<1> HIDE DEF c
<1>1. CASE SubmitPost(a)
  <2>1. /\ subState' = subState /\ subPayload' = subPayload /\ venue' = venue
        /\ wire' = wire \cup {a} /\ pc[a] = "x_post"
    BY <1>1 DEF SubmitPost, journalVars
  <2>2. subState[c] = "started"
    BY <1>0, <2>1 DEF AttemptInv, PreSend, c
  <2>3. RejectedNeverLive'
    BY <1>0, <2>1, <2>2 DEF RejectedNeverLive, c
  <2>4. OneUnresolvedAtATime'
    BY <1>0, <2>1 DEF OneUnresolvedAtATime
  <2> QED BY <2>3, <2>4
<1>2. CASE ExecutePersist(a)
  <2>1. /\ venue' = venue /\ wire' = wire /\ Unresolved = {}
    BY <1>0, <1>2 DEF ExecutePersist, venueVars, AttemptInv, BeforeInsert
  <2>2. SameRows \/ NewRow(c)
    BY <1>0, <1>2, JournalRows DEF ExecutePersist, c
  <2>3. OneUnresolvedAtATime'
    BY <1>0, <2>1, <2>2, RowReads, OneUnresolved
  <2>4. CASE SameRows
    BY <1>0, <2>1, <2>3, <2>4, RejectedStays
  <2>5. CASE NewRow(c)
    BY <1>0, <2>1, <2>3, <2>5 DEF RejectedNeverLive, NewRow
  <2> QED BY <2>2, <2>4, <2>5
<1>3. CASE \/ ExecuteRejectUnsent(a, "x_unsent1", "operator_paused_after_persist")
           \/ ExecuteRejectUnsent(a, "x_unsent2", "operator_paused_before_submit")
  <2>1. /\ venue' = venue /\ wire' = wire
        /\ pc[a] \in {"x_unsent1", "x_unsent2"}
    BY <1>3 DEF ExecuteRejectUnsent, venueVars
  <2>2. SameRows \/ RejectedRow(c)
    BY <1>0, <1>3, JournalRows DEF ExecuteRejectUnsent, c
  <2>3. posts[c] = 0
    BY <1>0, <2>1 DEF AttemptInv, IInv, ClaimInv, c
  <2>4. venue[c] = "none" /\ \A b \in wire : AttemptOrder[b] # c
    BY <1>0, <2>3, UnsentNowhere
  <2>5. RejectedNeverLive'
    BY <1>0, <2>1, <2>2, <2>4, RejectedStays
  <2>6. Unresolved' \subseteq Unresolved
    BY <1>0, <2>2, RowReads
  <2> QED BY <1>0, <2>5, <2>6, OneUnresolved
<1>4. CASE ExecuteRefused(a)
  <2>1. venue' = venue /\ wire' = wire /\ pc[a] = "x_refused"
    BY <1>4 DEF ExecuteRefused, venueVars
  <2>2. SameRows \/ RejectedRow(c)
    BY <1>0, <1>4, JournalRows DEF ExecuteRefused, c
  <2>3. venue[c] = "none" /\ \A b \in wire : AttemptOrder[b] # c
    BY <1>0, <2>1 DEF AttemptInv, c
  <2>4. RejectedNeverLive'
    BY <1>0, <2>1, <2>2, <2>3, RejectedStays
  <2>5. Unresolved' \subseteq Unresolved
    BY <1>0, <2>2, RowReads
  <2> QED BY <1>0, <2>4, <2>5, OneUnresolved
<1>5. CASE /\ ~SubmitPost(a) /\ ~ExecutePersist(a) /\ ~ExecuteRefused(a)
           /\ ~ExecuteRejectUnsent(a, "x_unsent1", "operator_paused_after_persist")
           /\ ~ExecuteRejectUnsent(a, "x_unsent2", "operator_paused_before_submit")
  <2>1. venue' = venue /\ wire' = wire
    BY <1>5
       DEF ExecuteStep, ExecuteStart, ExecuteKnown, ExecuteAssess, ExecuteDecide,
           ExecuteRequireUnpaused, ExecuteCheckPause, ExecuteClaim, SubmitLookup,
           SubmitResponse, SubmitRelookup, SubmitFail, ExecuteAcknowledge, ExecuteAmbiguous,
           ExecuteFinal, ExecutePause, venueVars
  <2>2. SameRows
    BY <1>0, <1>5, JournalRows
       DEF ExecuteStep, ExecuteStart, ExecuteKnown, ExecuteAssess, ExecuteDecide,
           ExecuteRequireUnpaused, ExecuteCheckPause, ExecuteClaim, SubmitLookup,
           SubmitResponse, SubmitRelookup, SubmitFail, ExecuteAcknowledge, ExecuteAmbiguous,
           ExecuteFinal, ExecutePause, c
  <2>3. RejectedNeverLive'
    BY <1>0, <2>1, <2>2, RejectedStays
  <2> QED BY <1>0, <2>2, <2>3, RowReads, OneUnresolved
<1> QED BY <1>1, <1>2, <1>3, <1>4, <1>5


\* What execute_once has read of its row stays true until it writes.
LEMMA AttemptOwn ==
  ASSUME IInv, SerialInv, NEW a \in Attempts, ExecuteStep(a)
  PROVE  AttemptInv(a)' /\ CleanInv(a)'
<1> DEFINE c == AttemptOrder[a]
<1>0. /\ a \in Procs /\ JournalTypeOK /\ c \in Orders /\ AttemptInv(a) /\ ReplyInv
      /\ pc \in [Procs -> ReconLabels \cup AttemptLabels \cup RecoverLabels \cup OperatorLabels]
      /\ ret \in [Procs -> Returns \cup {None}]
      /\ posts \in [Orders -> Nat] /\ reply \in [Attempts -> Replies] /\ wire \subseteq Attempts
  BY DEF IInv, TypeOK, PcTypeOK, ReconTypeOK, VenueTypeOK, SerialInv, Procs
<1>1. CleanInv(a)'
  <2>1. pc'[a] \notin {"r_lookup", "o_resume"}
    BY <1>0
       DEF Goto, Leave, EndOf, StartReconcile, ExecuteStep, ExecuteStart, ExecuteKnown,
           ExecuteAssess, ExecuteDecide, ExecuteRequireUnpaused, ExecutePersist,
           ExecuteCheckPause, ExecuteRejectUnsent, ExecuteClaim, SubmitLookup, SubmitPost,
           SubmitResponse, SubmitRelookup, SubmitFail, ExecuteAcknowledge, ExecuteRefused,
           ExecuteAmbiguous, ExecuteFinal, ExecutePause
  <2> QED BY <2>1 DEF CleanInv
<1> SUFFICES AttemptInv(a)'
  BY <1>1
<1>2. UNCHANGED journalVars => Unresolved' = Unresolved /\ Known' = Known /\ subState' = subState
  BY DEF journalVars, Unresolved, Known
<1>3. Leave(a) => pc'[a] = "done"
  BY <1>0 DEF Leave, Goto, EndOf
\* What the invariant says at the labels a step leaves ...
<1>r1. pc[a] \in {"x_known", "x_assess", "x_decide", "x_require", "x_persist"} =>
         Unresolved = {} /\ (pc[a] # "x_known" => c \notin Known)
  BY <1>0 DEF AttemptInv, BeforeInsert
<1>r2. pc[a] \in {"x_check1", "x_unsent1", "x_start"} => subState[c] = "persisted"
  BY <1>0 DEF AttemptInv
<1>r3. pc[a] \in PreSend \cup {"x_unsent2"} => subState[c] = "started" /\ posts[c] = 0
  BY <1>0 DEF AttemptInv
<1>r4. pc[a] \in {"x_await", "x_relookup"} => \A b \in wire : AttemptOrder[b] = c => b = a
  BY <1>0 DEF AttemptInv
\* ... and what it asks for at the labels a step enters.
<1>k0. ASSUME \/ pc'[a] \in {"done", "x_pause", "x_ack", "x_ambiguous"}
              \/ pc'[a] = "r_open" /\ ret'[a] = "x_final"
       PROVE  AttemptInv(a)'
  BY <1>k0 DEF AttemptInv, BeforeInsert, ReconLabels, PreSend
<1>k1. ASSUME pc'[a] \in {"x_known", "x_assess", "r_open", "x_decide", "x_require", "x_persist"},
              Unresolved' = {}, pc'[a] # "x_known" => c \notin Known'
       PROVE  AttemptInv(a)'
  BY <1>k1 DEF AttemptInv, BeforeInsert, ReconLabels, PreSend
<1>k2. ASSUME pc'[a] \in {"x_check1", "x_unsent1", "x_start"}, subState'[c] = "persisted"
       PROVE  AttemptInv(a)'
  BY <1>k2 DEF AttemptInv, BeforeInsert, ReconLabels, PreSend
<1>k3. ASSUME pc'[a] \in PreSend \cup {"x_unsent2"}, subState'[c] = "started", posts'[c] = 0
       PROVE  AttemptInv(a)'
  BY <1>k3 DEF AttemptInv, BeforeInsert, ReconLabels, PreSend
<1>k4. ASSUME pc'[a] \in {"x_await", "x_relookup"},
              \A b \in wire' : AttemptOrder[b] = c => b = a
       PROVE  AttemptInv(a)'
  BY <1>k4 DEF AttemptInv, BeforeInsert, ReconLabels, PreSend
<1>k5. ASSUME pc'[a] = "x_refused", venue'[c] = "none", \A b \in wire' : AttemptOrder[b] # c
       PROVE  AttemptInv(a)'
  BY <1>k5 DEF AttemptInv, BeforeInsert, ReconLabels, PreSend
<1> HIDE DEF c
<1>4. CASE ExecuteStart(a)
  <2>1. /\ UNCHANGED journalVars
        /\ pc'[a] = "x_pause" \/ (pc'[a] = "x_known" /\ Unresolved = {})
    BY <1>0, <1>4 DEF ExecuteStart, Goto
  <2> QED BY <1>2, <1>k0, <1>k1, <2>1
<1>5. CASE ExecuteKnown(a) \/ ExecuteDecide(a) \/ ExecuteRequireUnpaused(a)
  <2>1. /\ UNCHANGED journalVars
        /\ \/ pc'[a] = "done"
           \/ /\ pc'[a] \in {"x_assess", "x_require", "x_persist"}
              /\ pc[a] \in {"x_known", "x_decide", "x_require"}
              /\ pc[a] = "x_known" => c \notin Known
    BY <1>0, <1>3, <1>5 DEF ExecuteKnown, ExecuteDecide, ExecuteRequireUnpaused, Goto, c
  <2> QED BY <1>2, <1>r1, <1>k0, <1>k1, <2>1
<1>6. CASE ExecuteAssess(a)
  <2>1. /\ UNCHANGED journalVars /\ pc[a] = "x_assess"
        /\ pc'[a] = "done" \/ pc'[a] = "r_open"
    BY <1>0, <1>3, <1>6 DEF ExecuteAssess, StartReconcile, Goto
  <2> QED BY <1>2, <1>r1, <1>k0, <1>k1, <2>1
<1>7. CASE ExecutePersist(a)
  <2>1. c \notin Known
    BY <1>r1, <1>7 DEF ExecutePersist
  <2>2. subState[c] = "absent"
    BY <1>0, <2>1 DEF Known, JournalTypeOK
  <2>3. PersistApprovedOrder(c, AttemptPayload[a]) => subState'[c] = "persisted"
    BY <1>0, <2>2 DEF PersistApprovedOrder, JournalTypeOK
  <2>4. pc'[a] = "done" \/ (pc'[a] = "x_check1" /\ PersistApprovedOrder(c, AttemptPayload[a]))
    BY <1>0, <1>3, <1>7 DEF ExecutePersist, Goto, c
  <2> QED BY <1>k0, <1>k2, <2>3, <2>4
<1>8. CASE ExecuteCheckPause(a, "x_check1", "x_start", "x_unsent1")
  <2>1. UNCHANGED journalVars /\ pc[a] = "x_check1" /\ pc'[a] \in {"x_start", "x_unsent1"}
    BY <1>0, <1>8 DEF ExecuteCheckPause, Goto
  <2> QED BY <1>2, <1>r2, <1>k2, <2>1
<1>9. CASE \/ ExecuteRejectUnsent(a, "x_unsent1", "operator_paused_after_persist")
            \/ ExecuteRejectUnsent(a, "x_unsent2", "operator_paused_before_submit")
  BY <1>3, <1>k0, <1>9 DEF ExecuteRejectUnsent
<1>10. CASE ExecuteClaim(a)
  <2>1. /\ posts' = posts /\ pc[a] = "x_start"
        /\ \/ pc'[a] = "done"
           \/ pc'[a] = "x_check2" /\ TransitionSubmission(c, "started", AttemptDigest[a])
    BY <1>0, <1>3, <1>10 DEF ExecuteClaim, Goto, venueVars, c
  <2>2. TransitionSubmission(c, "started", AttemptDigest[a]) => subState'[c] = "started"
    BY <1>0 DEF TransitionSubmission, JournalTypeOK
  <2>3. posts[c] = 0
    BY <1>0, <1>r2, <2>1 DEF IInv, ClaimInv
  <2> QED BY <1>k0, <1>k3, <2>1, <2>2, <2>3 DEF PreSend
<1>11. CASE ExecuteCheckPause(a, "x_check2", "x_lookup", "x_unsent2") \/ SubmitLookup(a)
  <2>1. /\ UNCHANGED journalVars /\ posts' = posts /\ pc[a] \in PreSend
        /\ pc'[a] \in {"x_lookup", "x_unsent2", "x_post", "x_ack"}
    BY <1>0, <1>11 DEF ExecuteCheckPause, SubmitLookup, Goto, venueVars, PreSend
  <2> QED BY <1>2, <1>r3, <1>k0, <1>k3, <2>1 DEF PreSend
<1>12. CASE SubmitPost(a)
  <2>1. pc[a] = "x_post" /\ pc'[a] = "x_await" /\ wire' = wire \cup {a}
    BY <1>0, <1>12 DEF SubmitPost, Goto
  <2>2. posts[c] = 0
    BY <1>r3, <2>1 DEF PreSend
  <2>3. \A b \in wire : AttemptOrder[b] # c
    BY <1>0, <2>2, UnsentNowhere
  <2> QED BY <1>k4, <2>1, <2>3
<1>13. CASE SubmitResponse(a)
  <2>1. pc[a] = "x_await" /\ pc'[a] \in {"x_ack", "x_relookup"} /\ wire' = wire
    BY <1>0, <1>13 DEF SubmitResponse, Goto
  <2> QED BY <1>r4, <1>k0, <1>k4, <2>1
<1>14. CASE SubmitRelookup(a)
  <2>1. /\ pc[a] = "x_relookup" /\ wire' = wire /\ venue' = venue
        /\ pc'[a] \in {"x_ack", "x_ambiguous", "x_refused"}
        /\ pc'[a] = "x_refused" => venue[c] = "none" /\ reply[a] = "rejected"
    BY <1>0, <1>14 DEF SubmitRelookup, Goto, venueVars, c
  <2>2. pc'[a] = "x_refused" => \A b \in wire : AttemptOrder[b] # c
    BY <1>0, <1>r4, <2>1 DEF ReplyInv
  <2> QED BY <1>k0, <1>k5, <2>1, <2>2
<1>15. CASE SubmitFail(a) \/ ExecuteAmbiguous(a)
  BY <1>0, <1>k0, <1>15 DEF SubmitFail, ExecuteAmbiguous, Goto
<1>16. CASE ExecuteAcknowledge(a)
  <2>1. pc'[a] = "x_ambiguous" \/ (pc'[a] = "r_open" /\ ret'[a] = "x_final")
    BY <1>0, <1>16 DEF ExecuteAcknowledge, StartReconcile, Goto
  <2> QED BY <1>k0, <2>1
<1>17. CASE ExecuteRefused(a) \/ ExecuteFinal(a) \/ ExecutePause(a)
  BY <1>0, <1>3, <1>k0, <1>17 DEF ExecuteRefused, ExecuteFinal, ExecutePause, Goto
<1> QED
  BY <1>4, <1>5, <1>6, <1>7, <1>8, <1>9, <1>10, <1>11, <1>12, <1>13, <1>14,
     <1>15, <1>16, <1>17 DEF ExecuteStep

\* So a step of execute_once preserves the invariant.
LEMMA AttemptSerial ==
  ASSUME IInv, IInv', SerialInv, Serialized, NEW a \in Attempts, ExecuteStep(a)
  PROVE  SerialInv'
<1>1. a \in Procs /\ a \notin Recoverers /\ Alone /\ ReplyInv /\ JournalTypeOK'
  BY DEF Procs, SerialInv, IInv, TypeOK
<1>2. Solo(a)
  BY <1>1, SoloStep
<1> QED BY <1>1, <1>2, AttemptOwn, AttemptReply, AttemptRows, SerialStep

\* Recovery rejects a row only while it is persisted, that is, unsent.
LEMMA RecoverSerial ==
  ASSUME IInv, IInv', SerialInv, Serialized, NEW v \in Recoverers, RecoverStep(v)
  PROVE  SerialInv'
<1>0. /\ v \in Procs /\ v \notin Attempts /\ Alone /\ ReplyInv /\ JournalTypeOK /\ JournalTypeOK'
      /\ RecoveryInv(v) /\ RejectedNeverLive /\ OneUnresolvedAtATime /\ TypeOK /\ CallsInv
      /\ pc \in [Procs -> ReconLabels \cup AttemptLabels \cup RecoverLabels \cup OperatorLabels]
      /\ target \in [Recoverers -> Orders \cup {None}]
      /\ entry \in [Recoverers -> SubmissionState \cup {"absent"}]
  BY DEF Procs, SerialInv, IInv, TypeOK, PcTypeOK, CallTypeOK
<1>1. Solo(v)
  BY <1>0, SoloStep
<1>2. UNCHANGED <<venue, wire, reply>>
  BY DEF RecoverStep, RecoverStart, RecoverRead, RecoverLookup, RecoverReject,
         RecoverAcknowledge, RecoverFinal, venueVars
<1>3. ReplyInv'
  <2>1. \A a \in Attempts : pc'[a] = pc[a] /\ ret'[a] = ret[a]
    BY <1>0, <1>1 DEF Solo, Frame, Procs
  <2> QED BY <1>0, <1>2, <2>1 DEF ReplyInv, MayClaim
<1>4. CleanInv(v)'
  <2>1. pc'[v] \notin {"r_lookup", "o_resume"}
    BY <1>0 DEF RecoverStep, RecoverStart, RecoverRead, RecoverLookup, RecoverReject,
           RecoverAcknowledge, RecoverFinal, Goto, Leave, EndOf, StartReconcile
  <2> QED BY <2>1 DEF CleanInv
<1>5. RecoveryInv(v)'
  <2>1. ASSUME pc'[v] \in {"idle", "v_read", "r_open", "v_ack"} PROVE RecoveryInv(v)'
    BY <2>1 DEF RecoveryInv
  <2>2. ASSUME NEW expected \in Payloads, RecoverRead(v, expected) PROVE RecoveryInv(v)'
    <3>1. \/ pc'[v] = "idle"
          \/ /\ pc'[v] = "v_lookup" /\ entry'[v] = subState[target[v]]
             /\ target' = target /\ subState' = subState
      BY <1>0, <2>2 DEF RecoverRead, Goto, Leave, EndOf, journalVars
    <3> QED BY <2>1, <3>1 DEF RecoveryInv
  <2>3. CASE RecoverLookup(v)
    <3>1. \/ pc'[v] \in {"idle", "v_ack", "r_open"}
          \/ /\ pc'[v] = "v_reject" /\ entry[v] = "persisted"
             /\ target' = target /\ subState' = subState /\ pc[v] = "v_lookup"
      BY <1>0, <2>3 DEF RecoverLookup, StartReconcile, Goto, Leave, EndOf, journalVars, callVars
    <3> QED BY <1>0, <2>1, <3>1 DEF RecoveryInv
  <2>4. ASSUME ~RecoverLookup(v), ~\E expected \in Payloads : RecoverRead(v, expected)
        PROVE  pc'[v] \in {"idle", "v_read", "r_open"}
    BY <1>0, <2>4 DEF RecoverStep, RecoverStart, RecoverReject, RecoverAcknowledge, RecoverFinal,
                      StartReconcile, Goto, Leave, EndOf
  <2> QED BY <2>1, <2>2, <2>3, <2>4
<1>6. RejectedNeverLive' /\ OneUnresolvedAtATime'
  <2>1. CASE RecoverReject(v)
    <3> DEFINE c == target[v]
    <3>1. c \in Orders /\ pc[v] = "v_reject"
      BY <1>0, <2>1 DEF RecoverReject, CallsInv
    <3>2. subState[c] = "persisted"
      BY <1>0, <3>1 DEF RecoveryInv
    <3>3. SameRows \/ RejectedRow(c)
      BY <1>0, <2>1, <3>1, JournalRows DEF RecoverReject
    <3>4. posts[c] = 0
      BY <3>1, <3>2 DEF IInv, ClaimInv
    <3> HIDE DEF c
    <3>5. venue[c] = "none" /\ \A b \in wire : AttemptOrder[b] # c
      BY <3>1, <3>4, UnsentNowhere
    <3>6. RejectedNeverLive'
      BY <1>0, <1>2, <3>1, <3>3, <3>5, RejectedStays
    <3>7. Unresolved' \subseteq Unresolved
      BY <1>0, <3>1, <3>3, RowReads
    <3> QED BY <1>0, <3>6, <3>7, OneUnresolved
  <2>2. CASE ~RecoverReject(v)
    <3>1. SameRows
      <4>1. CASE RecoverAcknowledge(v)
        <5>1. target[v] \in Orders
          BY <1>0, <4>1 DEF RecoverAcknowledge, CallsInv
        <5> QED BY <1>0, <4>1, <5>1, JournalRows DEF RecoverAcknowledge
      <4>2. CASE ~RecoverAcknowledge(v)
        BY <1>0, <2>2, <4>2, JournalRows
           DEF RecoverStep, RecoverStart, RecoverRead, RecoverLookup, RecoverFinal
      <4> QED BY <4>1, <4>2
    <3>2. RejectedNeverLive'
      BY <1>0, <1>2, <3>1, RejectedStays
    <3> QED BY <1>0, <3>1, <3>2, RowReads, OneUnresolved
  <2> QED BY <2>1, <2>2
<1> QED BY <1>0, <1>1, <1>3, <1>4, <1>5, <1>6, SerialStep


\* Operator actions touch neither the rows nor the existence of an order.
LEMMA OperatorSerial ==
  ASSUME IInv, SerialInv, Serialized, NEW o \in Operators, OperatorStep(o)
  PROVE  SerialInv'
<1>0. /\ o \in Procs /\ o \notin Attempts /\ o \notin Recoverers /\ Alone /\ ReplyInv
      /\ JournalTypeOK /\ RejectedNeverLive /\ OneUnresolvedAtATime /\ TypeOK
      /\ pc \in [Procs -> ReconLabels \cup AttemptLabels \cup RecoverLabels \cup OperatorLabels]
  BY DEF Procs, SerialInv, IInv, TypeOK, PcTypeOK
<1>1. Solo(o)
  BY <1>0, SoloStep
<1>2. UNCHANGED <<wire, reply, journalVars>>
  BY DEF OperatorStep, OperatorPause, ResumeStart, ResumeCommit, KillStart, KillBegin,
         KillList, KillCancel, KillResidual, KillError, KillComplete, CloseInterrupted, venueVars
<1>3. ReplyInv'
  <2>1. \A a \in Attempts : pc'[a] = pc[a] /\ ret'[a] = ret[a]
    BY <1>0, <1>1 DEF Solo, Frame, Procs
  <2> QED BY <1>0, <1>2, <2>1 DEF ReplyInv, MayClaim
<1>4. CleanInv(o)'
  <2>1. pc'[o] \notin {"r_lookup", "o_resume"}
    BY <1>0 DEF OperatorStep, OperatorPause, ResumeStart, ResumeCommit, KillStart, KillBegin,
           KillList, KillCancel, KillResidual, KillError, KillComplete, CloseInterrupted,
           MayStart, Goto, Leave, EndOf, StartReconcile
  <2> QED BY <2>1 DEF CleanInv
<1>5. \A c \in Orders : venue'[c] = "none" <=> venue[c] = "none"
  <2>1. CASE KillCancel(o)
    <3>1. PICK c \in left[o], after \in {"open", "closed"} : venue' = [venue EXCEPT ![c] = after]
      BY <2>1 DEF KillCancel
    <3>2. c \in Orders /\ venue[c] # "none"
      BY <1>0, <2>1, <3>1 DEF KillCancel, IInv, EvidenceInv, TypeOK, ReconTypeOK
    <3> QED BY <3>1, <3>2 DEF IInv, TypeOK, VenueTypeOK
  <2>2. CASE ~KillCancel(o)
    BY <2>2 DEF OperatorStep, OperatorPause, ResumeStart, ResumeCommit, KillStart, KillBegin,
               KillList, KillResidual, KillError, KillComplete, CloseInterrupted, venueVars
  <2> QED BY <2>1, <2>2
<1>6. SameRows
  BY <1>0, <1>2, JournalRows
<1>7. RejectedNeverLive'
  BY <1>0, <1>2, <1>5, <1>6, RejectedStays
<1>8. OneUnresolvedAtATime'
  BY <1>0, <1>2 DEF OneUnresolvedAtATime, journalVars
<1> QED BY <1>0, <1>1, <1>3, <1>4, <1>7, <1>8, SerialStep

\* The commit of a reconcile resolves rows and leaves the others alone.
LEMMA ResolvedReads ==
  ASSUME JournalTypeOK, NEW resolved \in SUBSET Orders, ApplyResolutions(resolved)
  PROVE  /\ Unresolved' = Unresolved \ resolved /\ Known' = Known
         /\ \A c \in Orders : subState'[c] = "rejected" => subState[c] = "rejected"
<1>1. \A c \in Orders :
        IF c \in resolved
          THEN subState[c] \notin {"absent", "rejected"} /\ subState'[c] = "reconciled"
          ELSE subState'[c] = subState[c]
  BY ResolvedRows
<1> QED BY <1>1 DEF Unresolved, Known, TerminalStates

\* Every unresolved row that a clean reconcile read is still the only kind
\* there is when it commits, so it leaves none.
LEMMA ReconcileSerial ==
  ASSUME IInv, IInv', SerialInv, Serialized, NEW p \in Procs, ReconcileStep(p)
  PROVE  SerialInv'
<1>0. /\ Alone /\ ReplyInv /\ JournalTypeOK /\ JournalTypeOK' /\ TypeOK /\ CallsInv
      /\ RejectedNeverLive /\ OneUnresolvedAtATime /\ CleanInv(p)
      /\ p \in Attempts => AttemptInv(p)
      /\ pc \in [Procs -> ReconLabels \cup AttemptLabels \cup RecoverLabels \cup OperatorLabels]
      /\ ret \in [Procs -> Returns \cup {None}]
      /\ left \in [Procs -> SUBSET Orders] /\ found \in [Procs -> SUBSET Orders]
  BY DEF SerialInv, IInv, TypeOK, PcTypeOK, ReconTypeOK
<1>1. Solo(p)
  BY <1>0, SoloStep
<1>2. UNCHANGED <<venue, wire, reply>> /\ pc[p] \in ReconLabels
  BY DEF ReconcileStep, ReconcileOpenOrders, ReconcileKnown, ReconcileUnresolved,
         ReconcileLookup, ReconcileApply, ReconcileFail, venueVars, ReconLabels
<1>3. \/ UNCHANGED journalVars
      \/ ReconcileApply(p) /\ ApplyResolutions(found[p]) /\ left[p] = {}
  BY DEF ReconcileStep, ReconcileOpenOrders, ReconcileKnown, ReconcileUnresolved,
         ReconcileLookup, ReconcileApply, ReconcileFail
<1>4. /\ Unresolved' \subseteq Unresolved /\ Known' = Known
      /\ \A c \in Orders : subState'[c] = "rejected" => subState[c] = "rejected"
  <2>1. CASE UNCHANGED journalVars
    BY <2>1 DEF journalVars, Unresolved, Known
  <2>2. CASE ApplyResolutions(found[p])
    BY <1>0, <2>2, ResolvedReads
  <2> QED BY <1>3, <2>1, <2>2
<1>5. OneUnresolvedAtATime' /\ RejectedNeverLive'
  <2>1. OneUnresolvedAtATime'
    BY <1>0, <1>4, OneUnresolved
  <2>2. RejectedNeverLive'
    BY <1>0, <1>2, <1>4 DEF RejectedNeverLive
  <2> QED BY <2>1, <2>2
\* Where the step goes.
<1>6. \/ pc'[p] \in ReconLabels /\ ret'[p] = ret[p]
      \/ pc'[p] = ret[p]
      \/ ret[p] = "x_final" /\ pc'[p] = "x_pause"
      \/ ret[p] = "k_complete" /\ pc'[p] = "k_fail"
  BY <1>0 DEF ReconcileStep, ReconcileOpenOrders, ReconcileKnown, ReconcileUnresolved,
         ReconcileLookup, ReconcileApply, ReconcileFail, Goto, ReconLabels
<1>7. /\ p \in Attempts => ret[p] \in {"x_decide", "x_final"}
      /\ p \in Recoverers => ret[p] = "v_final"
      /\ p \in Operators => ret[p] \in {"o_resume", "k_complete"}
  BY <1>0, <1>2 DEF CallsInv
<1>8. p \in Recoverers => RecoveryInv(p)'
  BY <1>6, <1>7 DEF RecoveryInv, ReconLabels
<1>9. ASSUME p \in Attempts PROVE AttemptInv(p)'
  <2>1. CASE ret[p] = "x_final"
    <3>1. pc'[p] = "x_final" \/ pc'[p] = "x_pause" \/ (pc'[p] \in ReconLabels /\ ret'[p] = "x_final")
      BY <1>6, <2>1
    <3> QED BY <3>1 DEF AttemptInv, BeforeInsert, ReconLabels, PreSend
  <2>2. CASE ret[p] = "x_decide"
    <3>1. Unresolved = {} /\ AttemptOrder[p] \notin Known
      BY <1>0, <1>2, <1>9, <2>2 DEF AttemptInv, BeforeInsert, ReconLabels
    <3>2. Unresolved' = {} /\ AttemptOrder[p] \notin Known'
      BY <1>4, <3>1
    <3>3. pc'[p] = "x_decide" \/ (pc'[p] \in ReconLabels /\ ret'[p] = "x_decide")
      BY <1>6, <2>2
    <3> QED BY <3>2, <3>3 DEF AttemptInv, BeforeInsert, ReconLabels, PreSend
  <2> QED BY <1>7, <1>9, <2>1, <2>2
<1>10. ReplyInv'
  <2>1. \A a \in Attempts : a # p => pc'[a] = pc[a] /\ ret'[a] = ret[a]
    BY <1>1 DEF Solo, Frame, Procs
  <2>2. p \in Attempts /\ (MayClaim(p)' \/ pc'[p] \in PreSend) => MayClaim(p)
    BY <1>2, <1>6, <1>7 DEF MayClaim, ReconLabels, PreSend, PreClaim
  <2> QED BY <1>0, <1>2, <2>1, <2>2 DEF ReplyInv, MayClaim
<1>11. CleanInv(p)'
  <2> clean \in [Procs -> BOOLEAN]
    BY <1>0 DEF TypeOK, ReconTypeOK
  <2>1. CASE ReconcileOpenOrders(p) \/ ReconcileKnown(p)
    <3>1. pc'[p] \in {"r_known", "r_unresolved"}
      BY <1>0, <2>1 DEF ReconcileOpenOrders, ReconcileKnown, Goto
    <3> QED BY <3>1 DEF CleanInv
  <2>2. CASE ReconcileUnresolved(p)
    <3>1. pc'[p] = "r_lookup" /\ left'[p] = Unresolved /\ UNCHANGED journalVars
      BY <1>0, <2>2 DEF ReconcileUnresolved, Goto
    <3> QED BY <1>4, <3>1 DEF CleanInv
  <2>3. CASE ReconcileLookup(p)
    <3>1. PICK c \in left[p] :
            /\ left' = [left EXCEPT ![p] = @ \ {c}]
            /\ IF venue[c] = "none"
                 THEN clean' = [clean EXCEPT ![p] = FALSE] /\ UNCHANGED found
                 ELSE found' = [found EXCEPT ![p] = @ \cup {c}] /\ UNCHANGED clean
      BY <2>3 DEF ReconcileLookup
    <3>2. pc[p] = "r_lookup" /\ pc'[p] = "r_lookup" /\ UNCHANGED journalVars
      BY <2>3 DEF ReconcileLookup
    <3>3. \/ ~clean'[p]
          \/ clean'[p] = clean[p] /\ left[p] \cup found[p] \subseteq left'[p] \cup found'[p]
      BY <1>0, <3>1
    <3> QED BY <1>0, <1>4, <3>2, <3>3 DEF CleanInv
  <2>4. CASE ReconcileApply(p)
    <3>1. /\ pc[p] = "r_lookup" /\ left[p] = {} /\ ApplyResolutions(found[p])
          /\ clean'[p] => clean[p] /\ pc'[p] = ret[p]
      BY <1>0, <2>4 DEF ReconcileApply, Goto
    <3>2. Unresolved' = Unresolved \ found[p]
      BY <1>0, <3>1, ResolvedReads
    <3>3. clean'[p] => Unresolved' = {}
      BY <1>0, <3>1, <3>2 DEF CleanInv
    <3>4. pc'[p] # "r_lookup"
      BY <1>0, <1>7, <2>4 DEF ReconcileApply, Goto, Procs
    <3> QED BY <3>3, <3>4 DEF CleanInv
  <2>5. CASE ReconcileFail(p)
    <3>1. pc'[p] \in {"x_pause", "k_fail"}
      BY <1>0, <2>5 DEF ReconcileFail, Goto
    <3> QED BY <3>1 DEF CleanInv
  <2> QED BY <2>1, <2>2, <2>3, <2>4, <2>5 DEF ReconcileStep
<1> QED BY <1>1, <1>5, <1>8, <1>9, <1>10, <1>11, SerialStep


\* A crash forgets what the call had read and leaves everything else.
LEMMA CrashSerial ==
  ASSUME IInv, SerialInv, Serialized, NEW p \in Procs, Crash(p)
  PROVE  SerialInv'
<1>0. /\ Alone /\ ReplyInv /\ RejectedNeverLive /\ OneUnresolvedAtATime
      /\ pc \in [Procs -> ReconLabels \cup AttemptLabels \cup RecoverLabels \cup OperatorLabels]
  BY DEF SerialInv, IInv, TypeOK, PcTypeOK
<1>1. Solo(p)
  BY <1>0, SoloStep
<1>2. UNCHANGED <<venue, wire, reply, subState>> /\ pc'[p] = EndOf(p)
  BY <1>0 DEF Crash, Leave, Goto, venueVars, journalVars
<1>3. AttemptInv(p)' /\ RecoveryInv(p)' /\ CleanInv(p)'
  BY <1>2, RestingInv DEF Resting, EndOf
<1>4. ReplyInv'
  <2>1. \A a \in Attempts : a # p => pc'[a] = pc[a] /\ ret'[a] = ret[a]
    BY <1>1 DEF Solo, Frame, Procs
  <2>2. p \in Attempts => pc'[p] = "done"
    BY <1>2 DEF EndOf
  <2> QED BY <1>0, <1>2, <2>1, <2>2 DEF ReplyInv, MayClaim, PreClaim, PreSend, ReconLabels
<1>5. RejectedNeverLive' /\ OneUnresolvedAtATime'
  BY <1>0, <1>2 DEF RejectedNeverLive, OneUnresolvedAtATime
<1> QED BY <1>1, <1>3, <1>4, <1>5, SerialStep

\* The broker answers what is on the wire, and nothing of a rejected row is.
LEMMA VenueSerial ==
  ASSUME IInv, SerialInv, VenueStep
  PROVE  SerialInv'
<1>0. /\ Alone /\ ReplyInv /\ RejectedNeverLive /\ OneUnresolvedAtATime
      /\ venue \in [Orders -> {"none", "open", "closed"}] /\ wire \subseteq Attempts
      /\ reply \in [Attempts -> Replies]
      /\ \A a \in Attempts : AttemptOrder[a] \in Orders
  BY DEF SerialInv, IInv, TypeOK, VenueTypeOK
<1>1. /\ UNCHANGED <<pc, posts, subState, target, entry, ret, left, found, clean>>
      /\ wire' \subseteq wire
  BY DEF VenueStep, VenueAccept, VenueRefuse, VenueClose, callVars, reconVars, journalVars
<1>2. Unresolved' = Unresolved /\ Known' = Known
  BY <1>1 DEF Unresolved, Known
\* An order comes to exist only from the wire.
<1>3. \A c \in Orders : venue[c] = "none" /\ (\A b \in wire : AttemptOrder[b] # c) =>
        venue'[c] = "none"
  BY <1>0 DEF VenueStep, VenueAccept, VenueRefuse, VenueClose
<1>4. \A a \in Attempts : reply'[a] = reply[a] \/ (pc[a] = "x_await" /\ a \notin wire')
  <2>1. ASSUME NEW a \in Attempts, VenueAccept(a) \/ VenueRefuse(a)
        PROVE  \A b \in Attempts : reply'[b] = reply[b] \/ (pc[b] = "x_await" /\ b \notin wire')
    BY <1>0, <2>1 DEF VenueAccept, VenueRefuse, Deliver
  <2>2. ASSUME NEW c \in Orders, VenueClose(c) PROVE reply' = reply
    BY <2>2 DEF VenueClose
  <2> QED BY <2>1, <2>2 DEF VenueStep
<1>5. ReplyInv'
  <2>1. \A a \in Attempts : MayClaim(a)' = MayClaim(a)
    BY <1>1 DEF MayClaim
  <2>2. \A a \in Attempts : pc[a] = "x_await" => ~MayClaim(a) /\ pc[a] \notin PreSend
    BY DEF MayClaim, PreClaim, PreSend, ReconLabels
  <2> QED BY <1>0, <1>1, <1>4, <2>1, <2>2 DEF ReplyInv
<1>6. RejectedNeverLive'
  BY <1>0, <1>1, <1>3 DEF RejectedNeverLive
<1>7. OneUnresolvedAtATime' /\ Alone'
  BY <1>0, <1>1 DEF OneUnresolvedAtATime, Alone, Resting
<1>8. \A a \in Attempts : AttemptInv(a)'
  <2> SUFFICES ASSUME NEW a \in Attempts PROVE AttemptInv(a)'
    OBVIOUS
  <2>1. AttemptInv(a) /\ AttemptOrder[a] \in Orders
    BY <1>0 DEF SerialInv
  <2>2. BeforeInsert(a)' = BeforeInsert(a)
    BY <1>1 DEF BeforeInsert
  <2>3. pc[a] = "x_refused" => venue'[AttemptOrder[a]] = "none"
    BY <1>3, <2>1 DEF AttemptInv
  <2> QED BY <1>1, <1>2, <2>1, <2>2, <2>3 DEF AttemptInv
<1>9. \A v \in Recoverers : RecoveryInv(v)'
  BY <1>1 DEF SerialInv, RecoveryInv
<1>10. \A p \in Procs : CleanInv(p)'
  BY <1>1, <1>2 DEF SerialInv, CleanInv
<1> QED BY <1>5, <1>6, <1>7, <1>8, <1>9, <1>10 DEF SerialInv

\* Every step of a serialized system preserves the invariant.
LEMMA NextSerial ==
  ASSUME IInv, IInv', SerialInv, Serialized, [Next]_vars
  PROVE  SerialInv'
<1>1. ASSUME UNCHANGED vars PROVE SerialInv'
  <2>1. /\ UNCHANGED <<pc, target, entry, ret, left, found, clean, venue, wire, reply, posts,
                       subState>>
    BY <1>1 DEF vars, callVars, reconVars, venueVars, journalVars
  <2> QED BY <2>1 DEF SerialInv, Alone, Resting, AttemptInv, BeforeInsert, RecoveryInv, CleanInv,
                     ReplyInv, MayClaim, RejectedNeverLive, OneUnresolvedAtATime, Unresolved, Known
<1> QED
  BY <1>1, AttemptSerial, RecoverSerial, OperatorSerial, ReconcileSerial, CrashSerial, VenueSerial
     DEF Next

\* When a call starts only while no other runs, nothing a call has read of
\* the journal changes before it writes.
THEOREM SerialInvariant ==
  ASSUME Serialized
  PROVE  Spec => []SerialInv
<1>1. ASSUME Init PROVE SerialInv
  <2>1. /\ \A p \in Procs : Resting(p) /\ pc[p] = "idle"
        /\ wire = {} /\ \A c \in Orders : subState[c] = "absent"
        /\ \A a \in Attempts : reply[a] = "none"
    BY <1>1 DEF Init, JournalInit, Resting
  <2>2. Alone /\ ReplyInv
    BY <2>1 DEF Alone, ReplyInv
  <2>3. RejectedNeverLive /\ OneUnresolvedAtATime
    BY <2>1 DEF RejectedNeverLive, OneUnresolvedAtATime, SubmissionState
  <2>4. \A p \in Procs : AttemptInv(p) /\ RecoveryInv(p) /\ CleanInv(p)
    BY <2>1 DEF AttemptInv, BeforeInsert, RecoveryInv, CleanInv, PreSend, ReconLabels
  <2> QED BY <2>2, <2>3, <2>4 DEF SerialInv, Procs
<1>2. ASSUME IInv, IInv', SerialInv, [Next]_vars PROVE SerialInv'
  BY <1>2, NextSerial
<1> QED BY <1>1, <1>2, Invariant, PTL DEF Spec

\* With one call at a time a rejected row is a safe answer: the order does
\* not exist at the broker and no request for it is on its way.
THEOREM RejectedIsNowhere ==
  ASSUME Serialized
  PROVE  Spec => []RejectedNeverLive
<1>1. SerialInv => RejectedNeverLive
  BY DEF SerialInv
<1> QED BY <1>1, SerialInvariant, PTL

\* With one call at a time, execute_once inserts a row only when it found
\* none unresolved, so no two orders are ever in flight.
THEOREM OneInFlight ==
  ASSUME Serialized
  PROVE  Spec => []OneUnresolvedAtATime
<1>1. SerialInv => OneUnresolvedAtATime
  BY DEF SerialInv
<1> QED BY <1>1, SerialInvariant, PTL

\* resume commits on the strength of a reconciliation that ended before: with
\* one call at a time no row has become unresolved in between.
THEOREM ResumesResolved ==
  ASSUME Serialized
  PROVE  Spec => ResumeOnlyResolved
<1>1. ASSUME IInv, SerialInv, [Next]_vars, paused, ~paused' PROVE Unresolved = {}
  <2>1. ASSUME NEW o \in Operators, NEW now \in Times, ResumeCommit(o, now) PROVE Unresolved = {}
    <3>1. pc[o] = "o_resume" /\ clean[o]
      BY <1>1, <2>1 DEF ResumeCommit, controlVars
    <3> QED BY <1>1, <3>1 DEF SerialInv, CleanInv, Procs
  <2>2. ~\E a \in Attempts : ExecuteStep(a)
    BY <1>1
       DEF ExecuteStep, ExecuteStart, ExecuteKnown, ExecuteAssess, ExecuteDecide,
           ExecuteRequireUnpaused, ExecutePersist, ExecuteCheckPause, ExecuteRejectUnsent,
           ExecuteClaim, SubmitLookup, SubmitPost, SubmitResponse, SubmitRelookup, SubmitFail,
           ExecuteAcknowledge, ExecuteRefused, ExecuteAmbiguous, ExecuteFinal, ExecutePause,
           Pause, controlVars
  <2>3. ~\E v \in Recoverers : RecoverStep(v)
    BY <1>1 DEF RecoverStep, RecoverStart, RecoverRead, RecoverLookup, RecoverReject,
                RecoverAcknowledge, RecoverFinal, Pause, controlVars
  <2>4. ASSUME NEW o \in Operators, OperatorStep(o) PROVE \E now \in Times : ResumeCommit(o, now)
    BY <1>1, <2>4
       DEF OperatorStep, OperatorPause, ResumeStart, KillStart, KillBegin, KillList, KillCancel,
           KillResidual, KillError, KillComplete, CloseInterrupted, Pause, BeginAction,
           CompleteAction, controlVars
  <2>5. ~\E p \in Procs : ReconcileStep(p) \/ Crash(p)
    BY <1>1 DEF ReconcileStep, ReconcileOpenOrders, ReconcileKnown, ReconcileUnresolved,
                ReconcileLookup, ReconcileApply, ReconcileFail, Crash, controlVars
  <2>6. ~VenueStep /\ ~UNCHANGED vars
    BY <1>1 DEF VenueStep, VenueAccept, VenueRefuse, VenueClose, vars, controlVars
  <2> QED BY <1>1, <2>1, <2>2, <2>3, <2>4, <2>5, <2>6 DEF Next
<1>2. ASSUME IInv, SerialInv, [Next]_vars
      PROVE  [paused /\ ~paused' => Unresolved = {}]_vars
  BY <1>1, <1>2
<1> QED BY <1>2, Invariant, SerialInvariant, PTL DEF Spec, ResumeOnlyResolved
=============================================================================
