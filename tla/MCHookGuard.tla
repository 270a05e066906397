---------------------------- MODULE MCHookGuard ----------------------------
(* TLC instances of HookGuard, with HookClaim.  A tick of the clock is     *)
(* longer than the window, the sweep's age and the guard's time to live,   *)
(* so one tick expires whatever it can.                                    *)
EXTENDS HookGuard, TLC

CONSTANTS e1, e2, A, B, k1, k2, g1

\* An event seen by two installs, and one seen by the first of them.
ThreeProcs == {<<e1, A>>, <<e2, A>>, <<e2, B>>}

\* The events have different payloads and one guard key, such as two spawns of
\* one agent type in one orchestration.
DistinctKeyOf == [e \in Events |-> IF e = e1 THEN k1 ELSE k2]
SharedGuardKeyOf == [e \in Events |-> g1]

\* What follows a second failure, kill or sweep is not followed.  Nor is what
\* follows an unusable directory: like a claim that cannot be created, it admits
\* the run and leaves no claim.
OneTrouble ==
    /\ faults + Cardinality(swept) <= 1
    /\ \A p \in Procs : reason[p] \notin {"claim_dir_untrusted", "claim_dir_unavailable"}

\* A body comes, or is prevented, at once: nobody sees it.
BodyNext == \A p \in Procs : stage[p] = "passed" => stage'[p] # "passed"

\* Before it is let through, a run is killed when the others have come to their
\* end: nobody can tell a killed run from one that does not go on.
Ended(p) == pc[p] \in {"suppressed", "killed"} \/ stage[p] \in {"ran", "silent", "dead", "stopped"}
Killed(p) == pc[p] = "killed" \/ stage[p] = "dead"
KillsLast ==
    \A p \in Procs : ~Killed(p) /\ Killed(p)' => \A q \in Procs \ {p} : Ended(q)
=============================================================================
