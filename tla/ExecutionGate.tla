--------------------------- MODULE ExecutionGate ---------------------------
(***************************************************************************)
(* Arming (domain/execution.py): the operator's expiring record, the gate  *)
(* that turns it into an execution context, and the adapter's check of a   *)
(* context (AlpacaPaperBroker.verify_context).  Digests are model values:  *)
(* what the code compares is their equality.                               *)
(***************************************************************************)
EXTENDS Integers

CONSTANTS Codes, Configurations, Accounts, Namespaces,
          MaxTtl  \* MAX_ARMING_TTL, in ticks

ASSUME GateAssumption == MaxTtl \in Nat \ {0}

ExecutionMode == {"simulation", "paper", "live"}

\* ExecutionFingerprint
Fingerprint == [code : Codes, configuration : Configurations, account : Accounts]

\* ArmingRecord; its environment is always paper and its acknowledgement the
\* one text that issue_paper accepts.
Record == [namespace : Namespaces, fingerprint : Fingerprint, issued : Int, expires : Int]

\* ArmedExecutionContext
Context == [record : Record, namespace : Namespaces, fingerprint : Fingerprint,
            armed : Int, expires : Int]

\* ArmingRecord.issue_paper refuses any other time to live.
TtlAccepted(ttl) == 0 < ttl /\ ttl <= MaxTtl

\* ArmingRecord.issue_paper
IssuePaper(namespace, fingerprint, now, ttl) ==
  [namespace |-> namespace, fingerprint |-> fingerprint,
   issued |-> now, expires |-> now + ttl]

\* ArmingRecord.state_at
StateAt(record, now) ==
  IF now < record.issued THEN "disarmed"
  ELSE IF now >= record.expires THEN "expired"
  ELSE "armed"

\* BrokerPreflight.failures: the checks that did not pass.
Failures(preflight) == {name \in DOMAIN preflight : ~ preflight[name]}

\* ExecutionGate.arm_paper raises unless all of these hold.
MayArm(mode, record, namespace, fingerprint, preflight, now) ==
  /\ mode = "paper"
  /\ StateAt(record, now) = "armed"
  /\ record.namespace = namespace
  /\ record.fingerprint.code = fingerprint.code
  /\ record.fingerprint.configuration = fingerprint.configuration
  /\ record.fingerprint.account = fingerprint.account
  /\ Failures(preflight) = {}

\* Mutant: arming starts the time to live again.
MutArmPaper(record, now) ==
  [record |-> record, namespace |-> record.namespace,
   fingerprint |-> record.fingerprint,
   armed |-> now, expires |-> now + (record.expires - record.issued)]

\* The context that ExecutionGate.arm_paper returns.
ArmPaper(record, now) ==
  [record |-> record, namespace |-> record.namespace,
   fingerprint |-> record.fingerprint,
   armed |-> now, expires |-> record.expires]

\* AlpacaPaperBroker.verify_context
VerifyContext(context, namespace, account, now) ==
  /\ context.namespace = namespace
  /\ context.fingerprint.account = account
  /\ context.armed <= now
  /\ now < context.expires
=============================================================================
