----------------------------- MODULE HookGuard -----------------------------
(***************************************************************************)
(* bin/_lib/double-fire-guard.js behind the claim of hook-stdin.js: a hook *)
(* that was admitted asks requireGuard before it runs its body.  The guard *)
(* keeps a journal of who fired with which guard key, without a lock; its  *)
(* key is coarser than the claim's (emit-routing-outcome.js uses the       *)
(* orchestration and the agent type, so two events can share one).         *)
(*                                                                         *)
(* Each process calls requireGuard once, so the in-memory suppression      *)
(* cache is empty when it is consulted and is left out.                    *)
(***************************************************************************)
EXTENDS HookClaim

CONSTANTS
    GuardKeys,    \* dedupKey, as the callers of requireGuard build it
    GuardKeyOf,   \* the guard key of an event
    Ttl           \* ttlMs

ASSUME GuardKeyAssumption == GuardKeyOf \in [Events -> GuardKeys]
ASSUME SamePayloadSameGuardKey ==
    \A e, f \in Events : KeyOf[e] = KeyOf[f] => GuardKeyOf[e] = GuardKeyOf[f]
ASSUME TtlAssumption == Ttl \in Nat

GuardKey(p) == GuardKeyOf[p[1]]

VARIABLES
    stage,    \* how far each process is in requireGuard, and what it decided
    gnow,     \* nowMs, in requireGuard
    active,   \* activeEntries: processes whose entries were read and not expired
    journal   \* processes that have an entry in the journal

guardVars == <<stage, gnow, active, journal>>
hookVars == <<claimVars, guardVars>>

\* "passed": shouldFire, and the body is still to come; "stopped": killed then.
Let == {"passed", "ran", "stopped"}
Stages == {"idle", "read", "truncate", "rewrite", "register", "report", "silent", "dead"} \cup Let

GuardTypeOK ==
    /\ stage \in [Procs -> Stages]
    /\ gnow \in [Procs -> 0 .. MaxClock]
    /\ active \in [Procs -> SUBSET Procs]
    /\ journal \subseteq Procs

HookTypeOK == TypeOK /\ GuardTypeOK

GuardInit ==
    /\ stage = [p \in Procs |-> "idle"]
    /\ gnow = [p \in Procs |-> 0]
    /\ active = [p \in Procs |-> {}]
    /\ journal = {}

Move(p, from, to) == stage[p] = from /\ stage' = [stage EXCEPT ![p] = to]

\* nowMs is taken first; others may look at the clock and the journal meanwhile.
ReadClock(p) ==
    /\ pc[p] = "fired"
    /\ Move(p, "idle", "read")
    /\ gnow' = [gnow EXCEPT ![p] = clock]
    /\ UNCHANGED <<active, journal, faults>>

Unexpired(p) == {q \in journal : gnow[p] - gnow[q] <= Ttl}

\* Mutant: the entry is appended before the decision.
RegisterThenRead(p) ==
    /\ Move(p, "read", "truncate")
    /\ active' = [active EXCEPT ![p] = Unexpired(p)]
    /\ journal' = journal \cup {p}
    /\ UNCHANGED <<gnow, faults>>

\* readActiveEntries; a journal that cannot be read counts as empty.
ReadJournal(p) ==
    /\ Move(p, "read", "truncate")
    /\ \/ active' = [active EXCEPT ![p] = Unexpired(p)] /\ UNCHANGED faults
       \/ UNCHANGED active /\ Fault
    /\ UNCHANGED <<gnow, journal>>

\* The entry of an earlier caller with this key: of the other install, or the
\* note that this install's double fire was reported already.
Conflicts(p) == {q \in active[p] : GuardKey(q) = GuardKey(p) /\ InstallOf(q) # InstallOf(p)}
Reported(p) == {q \in active[p] : GuardKey(q) = GuardKey(p) /\ stage[q] = "silent"}

\* The decision, made on what was read.
Decides(p, from) ==
    /\ \/ Conflicts(p) # {} /\ Move(p, from, "report")
       \/ Conflicts(p) = {} /\ Reported(p) # {} /\ Move(p, from, "silent")
       \/ Conflicts(p) = {} /\ Reported(p) = {} /\ Move(p, from, "register")
    /\ active' = [active EXCEPT ![p] = {}]

\* rewriteActiveEntries: writeFileSync empties the file, then fills it; that
\* either fails is ignored.
TruncateJournal(p) ==
    /\ \/ /\ Move(p, "truncate", "rewrite")
          /\ journal' = {} /\ UNCHANGED <<active, faults>>
       \/ Decides(p, "truncate") /\ Fault /\ UNCHANGED journal
    /\ UNCHANGED gnow

\* What others appended since the truncation survives as far as the rewritten
\* content does not reach.
RewriteJournal(p) ==
    /\ Decides(p, "rewrite")
    /\ \/ /\ \E kept \in SUBSET journal :
                /\ active[p] = {} => kept = journal
                /\ journal' = active[p] \cup kept
          /\ UNCHANGED faults
       \/ UNCHANGED journal /\ Fault
    /\ UNCHANGED gnow

\* appendEntry; an append that fails is ignored.
AppendEntry(p) ==
    \/ journal' = journal \cup {p} /\ UNCHANGED faults
    \/ UNCHANGED journal /\ Fault

\* No conflict: the entry is appended and the caller may go on.
Register(p) ==
    /\ Move(p, "register", "passed")
    /\ AppendEntry(p)
    /\ UNCHANGED <<gnow, active>>

\* What the hook is for, after requireGuard has returned.
RunBody(p) ==
    /\ Move(p, "passed", "ran")
    /\ UNCHANGED <<gnow, active, journal, faults>>

\* Double fire: the suppression is noted under the suppressed caller's name.
Report(p) ==
    /\ Move(p, "report", "silent")
    /\ AppendEntry(p)
    /\ UNCHANGED <<gnow, active>>

\* A run killed after its entry was appended goes on suppressing others.
KillGuarded(p) ==
    /\ pc[p] = "fired"
    /\ stage[p] \notin {"ran", "silent", "dead", "stopped"}
    /\ stage' = [stage EXCEPT ![p] = IF stage[p] = "passed" THEN "stopped" ELSE "dead"]
    /\ active' = [active EXCEPT ![p] = {}]
    /\ Fault
    /\ UNCHANGED <<gnow, journal>>

GuardStep(p) ==
    /\ \/ ReadClock(p) \/ ReadJournal(p) \/ TruncateJournal(p) \/ RewriteJournal(p)
       \/ Register(p) \/ RunBody(p) \/ Report(p) \/ KillGuarded(p)
    /\ UNCHANGED <<clock, leafLax, claims, made, pc, now, victim, reason, swept>>

HookInit == Init /\ GuardInit

HookNext ==
    \/ Next /\ UNCHANGED guardVars
    \/ \E p \in Procs : GuardStep(p)

HookSpec == HookInit /\ [][HookNext]_hookVars

-----------------------------------------------------------------------------

(***************************************************************************)
(* The guard never silences a key by itself: whoever it suppresses comes   *)
(* after another invocation with the same guard key that it let through.   *)
(* Suppressions leave entries that suppress others in turn, entries are    *)
(* dated before they are written, the file is rewritten by several         *)
(* processes at once, and yet every chain starts from a run let through.   *)
(* That run may have been killed before its body: then nobody does the     *)
(* work until the entries expire.                                          *)
(***************************************************************************)
SuppressionFollowsPass ==
    \A p \in Procs : stage[p] = "silent" =>
        \E q \in Procs : q # p /\ GuardKey(q) = GuardKey(p) /\ stage[q] \in Let

\* The processes of an event have come to their end, and none was killed.
RunsOf(e) == {p \in Procs : p[1] = e}
Over(p) == pc[p] = "suppressed" \/ stage[p] \in {"ran", "silent"}
Silent(e) ==
    /\ RunsOf(e) # {}
    /\ \A p \in RunsOf(e) : Over(p) /\ stage[p] # "ran"

(***************************************************************************)
(* When nothing was killed, an event passes without a body only if another *)
(* event with the same guard key was admitted: the claim and the guard     *)
(* never suppress each other's survivor when the callers' keys tell events *)
(* apart.                                                                  *)
(***************************************************************************)
SilentOnlyOnSharedKey ==
    \A e \in Events : Silent(e) =>
        \E q \in Procs \ RunsOf(e) : GuardKey(q) = GuardKeyOf[e] /\ pc[q] = "fired"

(***************************************************************************)
(* To the author of a hook, claim and guard are one gate: it decides each  *)
(* run once, and whoever is turned away is turned away for somebody who    *)
(* came before.                                                            *)
(***************************************************************************)
FateOf(p) ==
    IF pc[p] # "fired"
    THEN IF pc[p] = "suppressed" THEN "dropped" ELSE IF pc[p] = "killed" THEN "lost" ELSE "asking"
    ELSE IF stage[p] \in Let THEN stage[p]
    ELSE IF stage[p] = "silent" THEN "silenced"
    ELSE IF stage[p] = "dead" THEN "failed" ELSE "admitted"

Gate == INSTANCE OnceGate WITH
    Runs <- Procs,
    Install <- InstallOf,
    Payload <- Key,
    Group <- GuardKey,
    fate <- [p \in Procs |-> FateOf(p)],
    rough <- {k \in Keys : Disturbed(k)}

ImplementsGate == Gate!GateSpec
=============================================================================
