--------------------------- MODULE RequestBudget ---------------------------
(***************************************************************************)
(* SlidingWindowRequestBudget (domain/rate_limits.py): the deque of the    *)
(* timestamps of recent requests, and acquire, which runs under the        *)
(* budget's lock and is one action here.  Time is counted in ticks.        *)
(***************************************************************************)
EXTENDS Integers, Sequences, FiniteSets

CONSTANTS MaxRequests,  \* max_requests
          Window        \* window, in ticks

HardMax == 180  \* HARD_MAX_REQUESTS_PER_MINUTE

ASSUME BudgetAssumption == MaxRequests \in 1 .. HardMax /\ Window \in Nat \ {0}

VARIABLES stamps,    \* _timestamps
          admitted   \* history: the timestamp of every request ever admitted

budgetVars == <<stamps, admitted>>

BudgetTypeOK == stamps \in Seq(Int) /\ admitted \in Seq(Int)

BudgetInit == stamps = <<>> /\ admitted = <<>>

\* "request clock moved backwards"
MovedBackwards(t) == stamps # <<>> /\ t < stamps[Len(stamps)]

\* The popleft loop stops at stamp k: the ones before it have left the
\* window that ends at t, and stamp k, if there is one, has not.
FirstKept(t, k) ==
  /\ \A i \in 1 .. (k - 1) : stamps[i] <= t - Window
  /\ k <= Len(stamps) => stamps[k] > t - Window

Kept(k) == SubSeq(stamps, k, Len(stamps))

\* Mutant: off by one.
MutAdmit(t) ==
  /\ ~ MovedBackwards(t)
  /\ \E k \in 1 .. Len(stamps) + 1 :
       /\ FirstKept(t, k)
       /\ Len(Kept(k)) <= MaxRequests
       /\ stamps' = Append(Kept(k), t)
  /\ admitted' = Append(admitted, t)

\* acquire(t) returns.
Admit(t) ==
  /\ ~ MovedBackwards(t)
  /\ \E k \in 1 .. Len(stamps) + 1 :
       /\ FirstKept(t, k)
       /\ Len(Kept(k)) < MaxRequests
       /\ stamps' = Append(Kept(k), t)
  /\ admitted' = Append(admitted, t)

\* acquire(t) raises RequestBudgetExceeded.  An exhausted budget has already
\* dropped the stamps that left the window.
Refuse(t) ==
  \/ /\ MovedBackwards(t)
     /\ UNCHANGED budgetVars
  \/ /\ ~ MovedBackwards(t)
     /\ \E k \in 1 .. Len(stamps) + 1 :
          /\ FirstKept(t, k)
          /\ Len(Kept(k)) >= MaxRequests
          /\ stamps' = Kept(k)
     /\ UNCHANGED admitted

-----------------------------------------------------------------------------
(* Properties *)

\* The budget of acquire: any MaxRequests + 1 consecutive admissions span at
\* least a window, so no window ever holds more than MaxRequests of them,
\* although the deque forgets, threads read the clock before they take the
\* lock, and the clock may be set back.
WindowBounded ==
  \A i \in DOMAIN admitted :
    i + MaxRequests \in DOMAIN admitted =>
      admitted[i + MaxRequests] - admitted[i] >= Window

-----------------------------------------------------------------------------
(* Inductive strengthening *)

\* The deque is the end of the sequence of admissions, and what it has
\* dropped is at least a window older than its newest stamp.
Dropped == Len(admitted) - Len(stamps)

BudgetInv ==
  /\ Len(stamps) <= MaxRequests /\ Dropped >= 0
  /\ stamps = <<>> => admitted = <<>>
  /\ \A i \in 1 .. Len(stamps) : stamps[i] = admitted[Dropped + i]
  /\ \A i, j \in 1 .. Len(admitted) : i <= j => admitted[i] <= admitted[j]
  /\ \A i \in 1 .. Dropped : admitted[i] + Window <= admitted[Len(admitted)]
=============================================================================
