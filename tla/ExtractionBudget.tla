-------------------------- MODULE ExtractionBudget --------------------------
(***************************************************************************)
(* What the callers of the circuit breaker may rely on.  A call is         *)
(* answered once.  It is allowed only out of the budget of a window, and   *)
(* never when a recorded trip was reported before it came.  As long as     *)
(* nothing fails, a trip is reported only when the budget of a window is   *)
(* spent, or when one stands; errors are reported as trips too, and bar    *)
(* nobody.  Counter files, sentinels, locks, probes and deaths are the     *)
(* business of CircuitBreaker, which implements this.                      *)
(***************************************************************************)
EXTENDS Naturals, FiniteSets

CONSTANTS Callers, Windows, Max

VARIABLES
    stage,     \* "waiting", "open", "answered" or "lost"
    outcome,   \* what a call has come to, from the moment it takes effect
    standing,  \* the calls whose trip is decided and not taken back
    admitted,  \* the window each admission was counted in, since the last reset
    barred,    \* the calls that come after a recorded trip was reported
    sound,     \* the lock has kept calls apart so far
    calm       \* nothing has failed, died or been damaged so far

budgetVars == <<stage, outcome, standing, admitted, barred, sound, calm>>

BudgetInit ==
    /\ stage = [c \in Callers |-> "waiting"]
    /\ outcome = [c \in Callers |-> "none"]
    /\ standing = {} /\ admitted = {} /\ barred = {}
    /\ sound = TRUE /\ calm = TRUE

Waiting == {c \in Callers : stage[c] = "waiting"}
Used(w) == Cardinality({c \in Callers : <<c, w>> \in admitted})

Begin(c) ==
    /\ stage[c] = "waiting"
    /\ stage' = [stage EXCEPT ![c] = "open"]
    /\ UNCHANGED <<outcome, standing, admitted, barred, sound, calm>>

ComesTo(c, what) ==
    /\ stage[c] = "open" /\ outcome[c] = "none"
    /\ outcome' = [outcome EXCEPT ![c] = what]
    /\ UNCHANGED <<stage, barred, sound, calm>>

Admit(c) ==
    /\ c \notin barred
    /\ ComesTo(c, "allowed")
    /\ \E w \in Windows :
          /\ sound => Used(w) < Max
          /\ admitted' = admitted \cup {<<c, w>>}
    /\ UNCHANGED standing

Trip(c) ==
    /\ calm => \E w \in Windows : Used(w) = Max
    /\ ComesTo(c, "tripped")
    /\ standing' = standing \cup {c}
    /\ UNCHANGED admitted

\* A damaged counter is treated like a spent one.
Distrust(c) ==
    /\ ~calm
    /\ ComesTo(c, "counter_corrupt")
    /\ standing' = standing \cup {c}
    /\ UNCHANGED admitted

\* An error turns everything but an admission into a trip that nothing records.
Fail(c) ==
    /\ stage[c] = "open" /\ outcome[c] # "allowed"
    /\ outcome' = [outcome EXCEPT ![c] = "tripped"]
    /\ standing' = standing \ {c}
    /\ calm' = FALSE
    /\ UNCHANGED <<stage, admitted, barred, sound>>

\* The call finds a recorded trip, one that was reported before it came or that
\* stands; who comes later is not admitted either.
Find(c) ==
    /\ calm => c \in barred \/ standing # {}
    /\ stage[c] = "waiting" /\ outcome[c] = "none"
    /\ stage' = [stage EXCEPT ![c] = "answered"]
    /\ outcome' = [outcome EXCEPT ![c] = "tripped"]
    /\ barred' = barred \cup Waiting
    /\ UNCHANGED <<standing, admitted, sound, calm>>

\* The call does not get the lock.
Refuse(c) ==
    /\ stage[c] = "open" /\ outcome[c] = "none"
    /\ stage' = [stage EXCEPT ![c] = "answered"]
    /\ outcome' = [outcome EXCEPT ![c] = "lock_unavailable"]
    /\ UNCHANGED <<standing, admitted, barred, sound, calm>>

\* Who asks after a recorded trip is answered is not admitted any more.  The lock
\* is let go before, and that may fail.
Answer(c) ==
    /\ stage[c] = "open" /\ outcome[c] # "none"
    /\ stage' = [stage EXCEPT ![c] = "answered"]
    /\ barred' = IF c \in standing THEN barred \cup Waiting ELSE barred
    /\ standing' = standing \ {c}
    /\ sound' => sound
    /\ calm' => calm
    /\ UNCHANGED <<outcome, admitted>>

\* A call that dies is never answered; what it was admitted for stays counted.
Lose(c) ==
    /\ stage[c] = "open"
    /\ stage' = [stage EXCEPT ![c] = "lost"]
    /\ outcome' = [outcome EXCEPT ![c] = "none"]
    /\ standing' = standing \ {c}
    /\ sound' = FALSE /\ calm' = FALSE
    /\ UNCHANGED <<admitted, barred>>

\* The count starts again: a reset, or a deleted counter.
Restart ==
    /\ admitted' = {}
    /\ calm' => calm
    /\ UNCHANGED <<stage, outcome, standing, barred, sound>>

\* A reset takes back the trips that are reported and those about to be.
Lift ==
    /\ standing' = {} /\ barred' = {}
    /\ UNCHANGED <<stage, outcome, admitted, sound, calm>>

Trouble ==
    /\ sound' => sound
    /\ calm' => calm
    /\ UNCHANGED <<stage, outcome, standing, admitted, barred>>

BudgetNext ==
    \/ Trouble \/ Restart \/ Lift
    \/ \E c \in Callers :
          \/ Begin(c) \/ Admit(c) \/ Trip(c) \/ Distrust(c) \/ Fail(c)
          \/ Find(c) \/ Refuse(c) \/ Answer(c) \/ Lose(c)

BudgetSpec == BudgetInit /\ [][BudgetNext]_budgetVars
=============================================================================
