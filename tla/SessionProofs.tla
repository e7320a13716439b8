---------------------------- MODULE SessionProofs ----------------------------
(***************************************************************************)
(* Proofs about PaperSession: its types, the request budget's window and   *)
(* the authority of every POST, for any number of callers and any bounds.  *)
(***************************************************************************)
EXTENDS PaperSession, TLAPS

-----------------------------------------------------------------------------
(* The request budget *)

\* The elements of an extended deque.
LEMMA AppendFacts ==
  ASSUME NEW q \in Seq(Int), NEW t \in Int
  PROVE  /\ Len(Append(q, t)) = Len(q) + 1 /\ Append(q, t)[Len(q) + 1] = t
         /\ \A i \in 1 .. Len(q) : Append(q, t)[i] = q[i]
  OBVIOUS

\* What the popleft loop keeps, index by index.
LEMMA KeptFacts ==
  ASSUME BudgetTypeOK, NEW k \in 1 .. Len(stamps) + 1
  PROVE  /\ Kept(k) \in Seq(Int)
         /\ Len(Kept(k)) = Len(stamps) - k + 1
         /\ \A i \in 1 .. (Len(stamps) - k + 1) : Kept(k)[i] = stamps[k + i - 1]
  BY DEF BudgetTypeOK, Kept

\* acquire keeps a sequence of integers when it admits.
LEMMA AdmitTyped ==
  ASSUME BudgetTypeOK, NEW t \in Int, Admit(t)
  PROVE  BudgetTypeOK'
  BY KeptFacts DEF BudgetTypeOK, Admit

\* acquire keeps a sequence of integers when it refuses.
LEMMA RefuseTyped ==
  ASSUME BudgetTypeOK, NEW t \in Int, Refuse(t)
  PROVE  BudgetTypeOK'
  BY KeptFacts DEF BudgetTypeOK, Refuse, budgetVars

\* An admission keeps the deque the end of the history, and the window bound.
LEMMA AdmitInv ==
  ASSUME BudgetTypeOK, BudgetInv, WindowBounded, NEW t \in Int, Admit(t)
  PROVE  BudgetInv' /\ WindowBounded'
<1> DEFINE n == Len(admitted)
<1> DEFINE s == Len(stamps)
<1>1. PICK k \in 1 .. s + 1 : /\ FirstKept(t, k)
                              /\ Len(Kept(k)) < MaxRequests
                              /\ stamps' = Append(Kept(k), t)
  BY DEF Admit
<1>2. admitted' = Append(admitted, t) /\ ~ MovedBackwards(t)
  BY DEF Admit
<1>3. /\ n \in Nat /\ s \in Nat /\ n - s >= 0
      /\ Kept(k) \in Seq(Int) /\ Len(Kept(k)) = s - k + 1
  BY KeptFacts, <1>1 DEF BudgetTypeOK, BudgetInv, Dropped
<1>4. /\ Len(admitted') = n + 1 /\ admitted'[n + 1] = t
      /\ \A i \in 1 .. n : admitted'[i] = admitted[i]
  BY <1>2, <1>3 DEF BudgetTypeOK
<1>5. /\ Len(stamps') = s - k + 2 /\ stamps'[s - k + 2] = t
      /\ \A i \in 1 .. (s - k + 1) : stamps'[i] = stamps[k + i - 1]
  <2>1. \A i \in 1 .. (s - k + 1) : Kept(k)[i] = stamps[k + i - 1]
    BY KeptFacts, <1>1
  <2> HIDE DEF s
  <2>2. Len(stamps') = Len(Kept(k)) + 1 /\ stamps'[Len(Kept(k)) + 1] = t
    BY <1>1, <1>3, AppendFacts
  <2>3. \A i \in 1 .. Len(Kept(k)) : stamps'[i] = Kept(k)[i]
    BY <1>1, <1>3, AppendFacts
  <2> QED BY <1>1, <1>3, <2>1, <2>2, <2>3
<1>6. Dropped' = n - s + k - 1 /\ Dropped = n - s
  BY <1>4, <1>5, <1>3 DEF Dropped
<1>7. \A i \in 1 .. n : admitted[i] <= t /\ admitted[i] \in Int
  <2>1. CASE stamps = <<>>
    BY <2>1 DEF BudgetInv, BudgetTypeOK
  <2>2. CASE stamps # <<>>
    <3>1. s >= 1
      BY <2>2, <1>3 DEF BudgetTypeOK
    <3>2. s \in 1 .. s /\ n \in 1 .. n /\ Dropped + s = n
      BY <3>1, <1>3, <1>6
    <3>3. stamps[s] = admitted[Dropped + s]
      BY <3>2 DEF BudgetInv
    <3>4. stamps[s] \in Int /\ stamps[s] <= t
      BY <3>1, <3>2, <2>2, <1>2 DEF MovedBackwards, BudgetTypeOK
    <3>5. admitted[n] <= t
      BY <3>2, <3>3, <3>4
    <3>6. \A i \in 1 .. n : admitted[i] <= admitted[n] /\ admitted[i] \in Int
      BY <3>2 DEF BudgetInv, BudgetTypeOK
    <3> QED BY <3>2, <3>5, <3>6
  <2> QED BY <2>1, <2>2
<1>8. \A i \in 1 .. (n - s + k - 1) : i \in 1 .. n /\ admitted[i] + Window <= t
  <2> SUFFICES ASSUME NEW i \in 1 .. (n - s + k - 1)
               PROVE  i \in 1 .. n /\ admitted[i] + Window <= t
    OBVIOUS
  <2>1. i \in 1 .. n
    BY <1>3, <1>1
  <2>2. CASE i <= n - s
    <3>1. i \in 1 .. Dropped /\ n \in 1 .. n
      BY <2>2, <1>6, <1>3, <2>1
    <3>2. admitted[i] + Window <= admitted[n]
      BY <3>1 DEF BudgetInv
    <3> QED BY <3>1, <3>2, <2>1, <1>7, BudgetAssumption
  <2>3. CASE i > n - s
    <3>1. i - (n - s) \in 1 .. (k - 1) /\ i - (n - s) \in 1 .. s
      BY <2>3, <1>3, <1>1
    <3>2. stamps[i - (n - s)] <= t - Window
      BY <3>1, <1>1 DEF FirstKept
    <3>3. stamps[i - (n - s)] = admitted[i]
      <4>1. stamps[i - (n - s)] = admitted[Dropped + (i - (n - s))]
        BY <3>1 DEF BudgetInv
      <4>2. Dropped + (i - (n - s)) = i
        BY <1>6, <1>3, <2>1
      <4> QED BY <4>1, <4>2
    <3> QED BY <3>2, <3>3, <2>1, <1>7, BudgetAssumption
  <2> QED BY <2>1, <2>2, <2>3, <1>3
<1>9. BudgetInv'
  <2>1. Len(stamps') <= MaxRequests /\ Dropped' >= 0
    BY <1>1, <1>3, <1>5, <1>6, BudgetAssumption
  <2>2. stamps' # <<>>
    <3>1. Len(stamps') # 0
      BY <1>5, <1>3, <1>1
    <3> QED BY <3>1
  <2>3. \A i \in 1 .. Len(stamps') : stamps'[i] = admitted'[Dropped' + i]
    <3> SUFFICES ASSUME NEW i \in 1 .. (s - k + 2)
                 PROVE  stamps'[i] = admitted'[n - s + k - 1 + i]
      BY <1>5, <1>6
    <3>1. CASE i = s - k + 2
      BY <3>1, <1>3, <1>4, <1>5
    <3>2. CASE i # s - k + 2
      <4>1. i \in 1 .. (s - k + 1) /\ k + i - 1 \in 1 .. s /\ n - s + k - 1 + i \in 1 .. n
        <5> HIDE DEF n, s
        <5> QED BY <3>2, <1>3, <1>1
      <4>2. stamps'[i] = stamps[k + i - 1]
        BY <4>1, <1>5
      <4>3. stamps[k + i - 1] = admitted[Dropped + (k + i - 1)]
        BY <4>1 DEF BudgetInv
      <4>4. Dropped + (k + i - 1) = n - s + k - 1 + i
        BY <1>6, <1>3, <1>1
      <4>5. admitted'[n - s + k - 1 + i] = admitted[n - s + k - 1 + i]
        BY <4>1, <1>4
      <4> QED BY <4>2, <4>3, <4>4, <4>5
    <3> QED BY <3>1, <3>2
  <2>4. \A i, j \in 1 .. Len(admitted') : i <= j => admitted'[i] <= admitted'[j]
    <3> SUFFICES ASSUME NEW i \in 1 .. (n + 1), NEW j \in 1 .. (n + 1), i <= j
                 PROVE  admitted'[i] <= admitted'[j]
      BY <1>4
    <3>1. CASE j = n + 1
      BY <3>1, <1>3, <1>4, <1>7
    <3>2. CASE j # n + 1
      BY <3>2, <1>3, <1>4 DEF BudgetInv
    <3> QED BY <3>1, <3>2
  <2>5. \A i \in 1 .. Dropped' : admitted'[i] + Window <= admitted'[Len(admitted')]
    BY <1>4, <1>6, <1>8
  <2> QED BY <2>1, <2>2, <2>3, <2>4, <2>5 DEF BudgetInv
<1>10. WindowBounded'
  <2> SUFFICES ASSUME NEW i \in 1 .. (n + 1), i + MaxRequests \in 1 .. (n + 1)
               PROVE  admitted'[i + MaxRequests] - admitted'[i] >= Window
    BY <1>2, <1>3, <1>4 DEF WindowBounded, BudgetTypeOK
  <2>1. CASE i + MaxRequests = n + 1
    <3>1. i \in 1 .. (n - s + k - 1) /\ i \in 1 .. n
      BY <2>1, <1>1, <1>3, BudgetAssumption
    <3>2. admitted[i] + Window <= t
      BY <3>1, <1>8
    <3> QED BY <3>1, <3>2, <2>1, <1>4, <1>7, BudgetAssumption
  <2>2. CASE i + MaxRequests # n + 1
    <3>1. i \in 1 .. n /\ i + MaxRequests \in 1 .. n
      BY <2>2, <1>3, BudgetAssumption
    <3>2. admitted[i + MaxRequests] - admitted[i] >= Window
      BY <3>1 DEF WindowBounded, BudgetTypeOK
    <3> QED BY <3>1, <3>2, <1>4
  <2> QED BY <2>1, <2>2
<1> QED BY <1>9, <1>10

\* A refusal changes nothing: a deque within its limit that is still full
\* after the loop has dropped nothing.
LEMMA RefuseInv ==
  ASSUME BudgetTypeOK, BudgetInv, NEW t \in Int, Refuse(t)
  PROVE  UNCHANGED budgetVars
<1>1. CASE MovedBackwards(t)
  BY <1>1 DEF Refuse
<1>2. CASE ~ MovedBackwards(t)
  <2>1. PICK k \in 1 .. Len(stamps) + 1 :
          Len(Kept(k)) >= MaxRequests /\ stamps' = Kept(k)
    BY <1>2 DEF Refuse
  <2>2. k = 1
    BY <2>1, KeptFacts, BudgetAssumption DEF BudgetInv, BudgetTypeOK
  <2>3. Kept(1) = stamps
    BY DEF Kept, BudgetTypeOK
  <2> QED BY <1>2, <2>1, <2>2, <2>3 DEF Refuse, budgetVars
<1> QED BY <1>1, <1>2

-----------------------------------------------------------------------------
(* The session *)

\* The conjuncts that one step has to preserve.
Safe == IInv /\ WindowBounded

\* A process starts with nothing armed and an empty budget.
LEMMA InitSafe ==
  Init => Safe
<1> SUFFICES ASSUME Init PROVE Safe
  OBVIOUS
<1>1. SessionTypeOK
  BY SessionAssumption DEF Init, BudgetInit, SessionTypeOK, BudgetTypeOK, Verified, Requests
<1>2. BudgetInv /\ WindowBounded
  BY BudgetAssumption DEF Init, BudgetInit, BudgetInv, Dropped, WindowBounded
<1>3. GateInv
  BY DEF Init, GateInv
<1> QED BY <1>1, <1>2, <1>3 DEF Safe, IInv

\* Steps that leave the budget alone keep what is known about it.
LEMMA BudgetUnchanged ==
  ASSUME BudgetTypeOK, BudgetInv, WindowBounded, UNCHANGED budgetVars
  PROVE  BudgetTypeOK' /\ BudgetInv' /\ WindowBounded'
  BY DEF BudgetTypeOK, BudgetInv, Dropped, WindowBounded, budgetVars

\* What arm_paper returns is bound to its record.
LEMMA ArmedBound ==
  ASSUME SessionTypeOK, GateInv, NEW record \in records, NEW mode, NEW preflight,
         MayArm(mode, record, deployed.namespace, deployed.fingerprint, preflight, clock)
  PROVE  ArmPaper(record, clock) \in Context /\ Bound(ArmPaper(record, clock))
<1>1. record \in Record /\ record.fingerprint \in Fingerprint
  BY DEF SessionTypeOK, Record
<1>2. /\ deployed.fingerprint \in Fingerprint
      /\ record.namespace = deployed.namespace
  BY SessionAssumption DEF SessionTypeOK, MayArm
<1>3. record.fingerprint = deployed.fingerprint
  BY <1>1, <1>2 DEF Fingerprint, MayArm
<1>4. record.issued <= clock
  BY <1>1 DEF MayArm, StateAt, Record, SessionTypeOK
<1>5. ArmPaper(record, clock) \in Context
  BY <1>1 DEF ArmPaper, Context, Record, SessionTypeOK
<1> QED BY <1>1, <1>2, <1>3, <1>4, <1>5 DEF ArmPaper, Bound, GateInv

\* Moving to another request keeps the types of the call's variables.
LEMMA GotoTyped ==
  ASSUME SessionTypeOK, NEW c \in Callers, NEW next \in Requests \cup {"idle"},
         pc[c] # "idle", Goto(c, next),
         next \in Verified => pc[c] \in Verified,
         next = "query" => pc[c] = "query",
         reading' = [reading EXCEPT ![c] = None]
  PROVE  /\ pc' \in [Callers -> Requests \cup {"idle"}]
         /\ reading' \in [Callers -> Int \cup {None}]
         /\ grant' \in [Callers -> Grant \cup {None}]
         /\ \A x \in Callers : /\ grant'[x] # None <=> pc'[x] \in Verified
                               /\ reading'[x] # None => pc'[x] # "idle"
         /\ \A x \in Callers : grant'[x] = grant[x] \/ grant'[x] = None
  BY DEF SessionTypeOK, Goto, Verified, Requests

\* Every step keeps the inductive invariant.
LEMMA StepSafe ==
  Safe /\ [Next]_vars => Safe'
<1> SUFFICES ASSUME Safe, [Next]_vars PROVE Safe'
  OBVIOUS
<1> USE DEF Safe, IInv
<1>0. BudgetTypeOK
  BY DEF SessionTypeOK
<1>1. CASE UNCHANGED vars
  BY <1>1, <1>0, BudgetUnchanged
     DEF vars, sessionVars, callVars, budgetVars, SessionTypeOK, GateInv, Bound
<1>2. CASE Tick
  <2>1. SessionTypeOK'
    BY <1>2, <1>0, BudgetUnchanged DEF Tick, SessionTypeOK, callVars
  <2>2. GateInv'
    BY <1>2 DEF Tick, GateInv, Bound, callVars
  <2> QED BY <1>2, <1>0, <2>1, <2>2, BudgetUnchanged DEF Tick
<1>3. CASE StepBack
  <2>1. SessionTypeOK'
    BY <1>3, <1>0, BudgetUnchanged DEF StepBack, SessionTypeOK, callVars
  <2>2. GateInv'
    BY <1>3 DEF StepBack, GateInv, Bound, callVars
  <2> QED BY <1>3, <1>0, <2>1, <2>2, BudgetUnchanged DEF StepBack
<1>4. CASE Issue
  <2>1. PICK ttl \in 0 .. MaxClock :
          /\ TtlAccepted(ttl)
          /\ records' = records \cup
               {IssuePaper(deployed.namespace, deployed.fingerprint, clock, ttl)}
    BY <1>4 DEF Issue
  <2> DEFINE r == IssuePaper(deployed.namespace, deployed.fingerprint, clock, ttl)
  <2>2. r \in Record /\ r.expires <= r.issued + MaxTtl
    BY <2>1, SessionAssumption, GateAssumption
       DEF IssuePaper, Record, SessionTypeOK, TtlAccepted
  <2>3. SessionTypeOK'
    BY <1>4, <1>0, <2>1, <2>2, BudgetUnchanged DEF Issue, SessionTypeOK, callVars
  <2>4. records \subseteq records' /\ UNCHANGED <<deployed, context, grant>>
    BY <1>4, <2>1 DEF Issue, callVars
  <2>5. GateInv'
    <3>1. \A q \in records' : q.expires <= q.issued + MaxTtl
      BY <2>1, <2>2 DEF GateInv
    <3>2. context' # None =>
            /\ context'.record \in records'
            /\ Bound(context)
      BY <2>4 DEF GateInv, Bound
    <3>3. \A c \in Callers : grant'[c] # None =>
            /\ grant'[c].context.record \in records'
            /\ Bound(grant[c].context)
            /\ grant[c].context.armed <= grant[c].at
            /\ grant[c].at < grant[c].context.expires
      BY <2>4 DEF GateInv, Bound
    <3> QED BY <2>4, <3>1, <3>2, <3>3 DEF GateInv, Bound
  <2> QED BY <1>4, <1>0, <2>3, <2>5, BudgetUnchanged DEF Issue
<1>5. CASE Arm
  <2>1. PICK mode \in ExecutionMode, record \in records,
             preflight \in [PreflightChecks -> BOOLEAN] :
          /\ MayArm(mode, record, deployed.namespace, deployed.fingerprint, preflight, clock)
          /\ context' = ArmPaper(record, clock)
    BY <1>5 DEF Arm
  <2>2. context' \in Context /\ Bound(context')
    BY <2>1, ArmedBound
  <2>3. SessionTypeOK'
    BY <1>5, <1>0, <2>2, BudgetUnchanged DEF Arm, SessionTypeOK, callVars
  <2>4. GateInv'
    BY <1>5, <2>2 DEF Arm, GateInv, Bound, callVars
  <2> QED BY <1>5, <1>0, <2>3, <2>4, BudgetUnchanged DEF Arm
<1>6. ASSUME NEW d \in Deployments, Restart(d) PROVE Safe'
  <2>1. SessionTypeOK'
    BY <1>6, SessionAssumption
       DEF Restart, SessionTypeOK, BudgetTypeOK, Verified, Requests
  <2>2. BudgetInv' /\ WindowBounded'
    BY <1>6, BudgetAssumption DEF Restart, BudgetInv, Dropped, WindowBounded
  <2>3. GateInv'
    BY <1>6 DEF Restart, GateInv
  <2> QED BY <2>1, <2>2, <2>3
<1>7. ASSUME NEW c \in Callers, NEW request \in {"lookup", "delete"}, Verify(c, request)
      PROVE  Safe'
  <2> DEFINE g == [context |-> context, at |-> clock]
  <2>1. /\ context \in Context /\ g \in Grant /\ Bound(context)
        /\ context.armed <= clock /\ clock < context.expires
    BY <1>7 DEF Verify, SessionTypeOK, GateInv, Grant, VerifyContext
  <2>3. SessionTypeOK'
    BY <1>7, <1>0, <2>1, SessionAssumption, BudgetUnchanged
       DEF Verify, SessionTypeOK, Verified, Requests
  <2>4. GateInv'
    BY <1>7, <2>1 DEF Verify, GateInv, Bound, SessionTypeOK
  <2> QED BY <1>7, <1>0, <2>3, <2>4, BudgetUnchanged DEF Verify
<1>8. ASSUME NEW c \in Callers, Query(c) PROVE Safe'
  <2>1. SessionTypeOK'
    BY <1>8, <1>0, BudgetUnchanged DEF Query, Goto, SessionTypeOK, Verified, Requests
  <2>2. GateInv'
    BY <1>8 DEF Query, Goto, GateInv, Bound
  <2> QED BY <1>8, <1>0, <2>1, <2>2, BudgetUnchanged DEF Query
<1>9. ASSUME NEW c \in Callers, ReadClock(c) PROVE Safe'
  <2>1. SessionTypeOK'
    BY <1>9, <1>0, BudgetUnchanged DEF ReadClock, SessionTypeOK
  <2>2. GateInv'
    BY <1>9 DEF ReadClock, GateInv, Bound
  <2> QED BY <1>9, <1>0, <2>1, <2>2, BudgetUnchanged DEF ReadClock
<1>10. ASSUME NEW c \in Callers, Send(c) PROVE Safe'
  <2>1. reading[c] \in Int /\ Admit(reading[c])
    BY <1>10 DEF Send, SessionTypeOK
  <2>2. BudgetTypeOK' /\ BudgetInv' /\ WindowBounded'
    BY <1>0, <2>1, AdmitTyped, AdmitInv
  <2>3. PICK next \in After(pc[c]) : Goto(c, next)
    BY <1>10 DEF Send
  <2>4. /\ next \in Requests \cup {"idle"}
        /\ next \in Verified => pc[c] \in Verified
        /\ next = "query" => pc[c] = "query"
    BY DEF After, Requests, Verified
  <2>5. pc[c] # "idle" /\ reading' = [reading EXCEPT ![c] = None]
    BY <1>10 DEF Send
  <2>6. SessionTypeOK'
    BY <1>10, <2>2, <2>3, <2>4, <2>5, GotoTyped DEF Send, SessionTypeOK
  <2>7. \A x \in Callers : grant'[x] = grant[x] \/ grant'[x] = None
    BY <2>3, <2>4, <2>5, GotoTyped
  <2>8. GateInv'
    BY <1>10, <2>7 DEF Send, GateInv, Bound
  <2> QED BY <2>2, <2>6, <2>8
<1>11. ASSUME NEW c \in Callers, Denied(c) PROVE Safe'
  <2>1. reading[c] \in Int /\ Refuse(reading[c])
    BY <1>11 DEF Denied, SessionTypeOK
  <2>2. BudgetTypeOK' /\ BudgetInv' /\ WindowBounded'
    BY <1>0, <2>1, RefuseInv, BudgetUnchanged
  <2>3. /\ Goto(c, "idle") /\ pc[c] # "idle"
        /\ reading' = [reading EXCEPT ![c] = None]
        /\ "idle" \notin Verified /\ "idle" \in Requests \cup {"idle"}
    BY <1>11 DEF Denied, Verified
  <2>4. SessionTypeOK'
    BY <1>11, <2>2, <2>3, GotoTyped DEF Denied, SessionTypeOK
  <2>5. \A x \in Callers : grant'[x] = grant[x] \/ grant'[x] = None
    BY <2>3, GotoTyped
  <2>6. GateInv'
    BY <1>11, <2>5 DEF Denied, GateInv, Bound
  <2> QED BY <2>2, <2>4, <2>6
<1> QED
  BY <1>1, <1>2, <1>3, <1>4, <1>5, <1>6, <1>7, <1>8, <1>9, <1>10, <1>11
     DEF Next, SubmitOnce, CancelOrder

\* The inductive invariant of a session: types, the deque as the end of the
\* admissions, and contexts bound to the records they were armed with.
THEOREM SessionSafe ==
  Spec => []Safe
  BY InitSafe, StepSafe, PTL DEF Spec

\* Every reachable state of a session is well typed, and a call holds a
\* verified context exactly while submit_once or cancel_order runs.
THEOREM SessionTypes ==
  Spec => []SessionTypeOK
<1>1. Safe => SessionTypeOK
  BY DEF Safe, IInv
<1> QED BY <1>1, SessionSafe, PTL

\* For any budget, any number of callers and any clock, no window of the
\* process's life holds more than MaxRequests admitted requests.
THEOREM SessionWindow ==
  Spec => []WindowBounded
<1>1. Safe => WindowBounded
  BY DEF Safe
<1> QED BY <1>1, SessionSafe, PTL

\* Every POST and DELETE carries the authority of a record that the operator issued for
\* exactly this deployment less than MAX_ARMING_TTL before the check.
THEOREM SessionAuthority ==
  Spec => []MutationsAuthorized
<1>1. Safe => MutationsAuthorized
  <2> SUFFICES ASSUME Safe, NEW c \in Callers, pc[c] \in Mutating
               PROVE  LET record == grant[c].context.record IN
                        /\ record \in records
                        /\ record.issued <= grant[c].at
                        /\ grant[c].at < record.issued + MaxTtl
                        /\ record.namespace = deployed.namespace
                        /\ record.fingerprint = deployed.fingerprint
    BY DEF MutationsAuthorized
  <2>1. grant[c] # None
    BY DEF Safe, IInv, SessionTypeOK, Verified, Mutating
  <2>2. /\ Bound(grant[c].context)
        /\ grant[c].context.armed <= grant[c].at
        /\ grant[c].at < grant[c].context.expires
    BY <2>1 DEF Safe, IInv, GateInv
  <2>3. grant[c] \in Grant
    BY <2>1 DEF Safe, IInv, SessionTypeOK
  <2> QED BY <2>2, <2>3, GateAssumption DEF Bound, Grant, Context, Record
<1> QED BY <1>1, SessionSafe, PTL
=============================================================================
