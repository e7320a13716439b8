---------------------------- MODULE PaperSession ----------------------------
(***************************************************************************)
(* One paper-trading process over time: the operator's arming records, the *)
(* execution gate, and the adapter's calls, whose every HTTP request has   *)
(* to pass the process's request budget (adapters/alpaca_paper.py,         *)
(* adapters/alpaca_control_data.py).  Threads read the clock first and     *)
(* take the budget's lock later, and the wall clock may be set back.       *)
(***************************************************************************)
EXTENDS RequestBudget, ExecutionGate

CONSTANTS Callers,         \* threads that use the adapter
          Deployments,     \* builds, configurations and accounts it may run with
          PreflightChecks, \* the names of BrokerPreflight's checks
          MaxClock, MaxStepBacks, MaxRecords, MaxAdmitted,  \* bounds
          None

Grant == [context : Context, at : Int]

ASSUME SessionAssumption ==
  /\ Deployments \subseteq [namespace : Namespaces, fingerprint : Fingerprint]
  /\ None \notin Int /\ None \notin Context /\ None \notin Grant
  /\ MaxClock \in Nat /\ MaxStepBacks \in Nat

VARIABLES clock,      \* the wall clock that _system_now reads
          stepBacks,  \* how often it was set back
          records,    \* arming records the operator has issued
          deployed,   \* what the running process was started with
          context,    \* the process's armed context, if any
          pc,         \* the request a caller is about to make
          reading,    \* the clock reading it will pass to acquire
          grant       \* the context that verify_context accepted, and when

callVars == <<pc, reading, grant>>
sessionVars == <<clock, stepBacks, records, deployed, context, callVars>>
vars == <<sessionVars, budgetVars>>

\* The requests of submit_once and cancel_order, which verify a context, and
\* those among them that change something at the broker.
Verified == {"lookup", "post", "delete", "recheck"}
Mutating == {"post", "delete"}
Requests == Verified \cup {"query"}

SessionTypeOK ==
  /\ BudgetTypeOK
  /\ clock \in Int /\ stepBacks \in Nat
  /\ records \subseteq Record
  /\ deployed \in Deployments
  /\ context \in Context \cup {None}
  /\ pc \in [Callers -> Requests \cup {"idle"}]
  /\ reading \in [Callers -> Int \cup {None}]
  /\ grant \in [Callers -> Grant \cup {None}]
  /\ \A c \in Callers :
       /\ grant[c] # None <=> pc[c] \in Verified
       /\ reading[c] # None => pc[c] # "idle"

Init ==
  /\ BudgetInit
  /\ clock = 0 /\ stepBacks = 0
  /\ records = {} /\ context = None
  /\ deployed \in Deployments
  /\ pc = [c \in Callers |-> "idle"]
  /\ reading = [c \in Callers |-> None]
  /\ grant = [c \in Callers |-> None]

-----------------------------------------------------------------------------
(* Time *)

Tick ==
  /\ clock < MaxClock
  /\ clock' = clock + 1
  /\ UNCHANGED <<stepBacks, records, deployed, context, callVars, budgetVars>>

\* The host's wall clock is corrected backwards.
StepBack ==
  /\ stepBacks < MaxStepBacks
  /\ stepBacks' = stepBacks + 1
  /\ clock' \in 0 .. (clock - 1)
  /\ UNCHANGED <<records, deployed, context, callVars, budgetVars>>

-----------------------------------------------------------------------------
(* Arming *)

\* The operator acknowledges what is deployed now.
Issue ==
  /\ Cardinality(records) < MaxRecords
  /\ \E ttl \in 0 .. MaxClock :
       /\ TtlAccepted(ttl)
       /\ records' = records \cup
            {IssuePaper(deployed.namespace, deployed.fingerprint, clock, ttl)}
  /\ UNCHANGED <<clock, stepBacks, deployed, context, callVars, budgetVars>>

\* The process arms itself with a record it was given.
Arm ==
  /\ \E mode \in ExecutionMode, record \in records, preflight \in [PreflightChecks -> BOOLEAN] :
       /\ MayArm(mode, record, deployed.namespace, deployed.fingerprint, preflight, clock)
       /\ context' = ArmPaper(record, clock)
  /\ UNCHANGED <<clock, stepBacks, records, deployed, callVars, budgetVars>>

\* The process ends and another one is started, perhaps with other code,
\* configuration or account.  Contexts, calls and the budget are in memory;
\* the records are the operator's.
Restart(d) ==
  /\ deployed' = d
  /\ context' = None
  /\ pc' = [c \in Callers |-> "idle"]
  /\ reading' = [c \in Callers |-> None]
  /\ grant' = [c \in Callers |-> None]
  /\ stamps' = <<>> /\ admitted' = <<>>
  /\ UNCHANGED <<clock, stepBacks, records>>

-----------------------------------------------------------------------------
(* Calls of the adapter *)

\* Mutant: a call that ends keeps the context it verified.
MutGoto(c, request) == pc' = [pc EXCEPT ![c] = request] /\ UNCHANGED grant

\* The caller's next request; a call that ends forgets its context.
Goto(c, request) ==
  /\ pc' = [pc EXCEPT ![c] = request]
  /\ grant' = IF request = "idle" THEN [grant EXCEPT ![c] = None] ELSE grant

\* The checks before the first request of a call that names a context.  The
\* order's account and namespace are compared with the adapter's.
Verify(c, request) ==
  /\ pc[c] = "idle" /\ Len(admitted) < MaxAdmitted
  /\ context # None
  /\ VerifyContext(context, deployed.namespace, deployed.fingerprint.account, clock)
  /\ grant' = [grant EXCEPT ![c] = [context |-> context, at |-> clock]]
  /\ pc' = [pc EXCEPT ![c] = request]
  /\ UNCHANGED <<clock, stepBacks, records, deployed, context, reading, budgetVars>>

\* submit_once looks the order up first; cancel_order sends its DELETE.
SubmitOnce(c) == Verify(c, "lookup")
CancelOrder(c) == Verify(c, "delete")

\* A read-only call of the trading or the market-data interface.
Query(c) ==
  /\ pc[c] = "idle" /\ Len(admitted) < MaxAdmitted
  /\ Goto(c, "query")
  /\ UNCHANGED <<clock, stepBacks, records, deployed, context, reading, budgetVars>>

\* request: the argument of acquire is read outside its lock.
ReadClock(c) ==
  /\ pc[c] # "idle" /\ reading[c] = None
  /\ reading' = [reading EXCEPT ![c] = clock]
  /\ UNCHANGED <<clock, stepBacks, records, deployed, context, pc, grant, budgetVars>>

\* What the caller does after the response to a request: a lookup that finds
\* the order ends submit_once, one that finds nothing leads to the POST, and
\* a POST without a 200 answer to another lookup.  A DELETE that is answered
\* or times out is followed by a look at the order.
After(request) ==
  CASE request = "lookup" -> {"idle", "post"}
    [] request = "post" -> {"idle", "recheck"}
    [] request = "delete" -> {"idle", "recheck"}
    [] OTHER -> {"idle"}

\* request: acquire admits it and it is sent.
Send(c) ==
  /\ pc[c] # "idle" /\ reading[c] # None
  /\ Admit(reading[c])
  /\ reading' = [reading EXCEPT ![c] = None]
  /\ \E next \in After(pc[c]) : Goto(c, next)
  /\ UNCHANGED <<clock, stepBacks, records, deployed, context>>

\* request: the budget denies the call, which raises.
Denied(c) ==
  /\ pc[c] # "idle" /\ reading[c] # None
  /\ Refuse(reading[c])
  /\ reading' = [reading EXCEPT ![c] = None]
  /\ Goto(c, "idle")
  /\ UNCHANGED <<clock, stepBacks, records, deployed, context>>

Next ==
  \/ Tick \/ StepBack \/ Issue \/ Arm
  \/ \E d \in Deployments : Restart(d)
  \/ \E c \in Callers : \/ SubmitOnce(c) \/ CancelOrder(c) \/ Query(c)
                        \/ ReadClock(c) \/ Send(c) \/ Denied(c)

Spec == Init /\ [][Next]_vars

-----------------------------------------------------------------------------
(* Properties *)

\* Every POST and DELETE goes back to a record the operator issued: the adapter
\* checked the context less than MAX_ARMING_TTL after the acknowledgement, and
\* the process that sends it runs the code, configuration, account and namespace
\* that were acknowledged, whatever was restarted and armed in between.
MutationsAuthorized ==
  \A c \in Callers :
    pc[c] \in Mutating =>
      LET record == grant[c].context.record IN
        /\ record \in records
        /\ record.issued <= grant[c].at /\ grant[c].at < record.issued + MaxTtl
        /\ record.namespace = deployed.namespace
        /\ record.fingerprint = deployed.fingerprint

-----------------------------------------------------------------------------
(* Inductive strengthening *)

\* A context the running process holds is the one its record stands for.
Bound(x) ==
  /\ x.record \in records
  /\ x.record.issued <= x.armed /\ x.expires <= x.record.issued + MaxTtl
  /\ x.record.namespace = deployed.namespace
  /\ x.record.fingerprint = deployed.fingerprint

GateInv ==
  /\ \A r \in records : r.expires <= r.issued + MaxTtl
  /\ context # None => Bound(context)
  /\ \A c \in Callers : grant[c] # None =>
       /\ Bound(grant[c].context)
       /\ grant[c].context.armed <= grant[c].at
       /\ grant[c].at < grant[c].context.expires

IInv == SessionTypeOK /\ BudgetInv /\ GateInv
=============================================================================
