------------------------------ MODULE OnceGate ------------------------------
(***************************************************************************)
(* What the author of a hook may rely on when two installs start it for    *)
(* one event: each run is decided once, a run is dropped only in favour of *)
(* an admitted run of the other install, a run is silenced only after a    *)
(* related one was let through, and unless something went wrong with the   *)
(* claim to a payload all runs admitted to it are of one install.  Between *)
(* being let through and its body a run may be killed, so that a silenced  *)
(* run does not prove that the work was done.  Claim files, journals,      *)
(* sweeps and takeovers are the business of HookClaim and HookGuard, which *)
(* implement this.                                                         *)
(***************************************************************************)
CONSTANTS
    Runs,
    Install(_),  \* where the script of a run is installed
    Payload(_),  \* what the host gave to a run
    Group(_)     \* the runs of a group are told apart less well than payloads

VARIABLES
    fate,  \* what has become of each run
    rough  \* payloads whose claim was swept, taken over or could not be made

gateVars == <<fate, rough>>

LetThrough(r) == fate[r] \in {"passed", "ran", "stopped"}
Entered(r) == fate[r] \in {"admitted", "silenced", "failed"} \/ LetThrough(r)

GateInit ==
    /\ fate = [r \in Runs |-> "asking"]
    /\ rough = {}

Becomes(r, from, to) == fate[r] = from /\ fate' = [fate EXCEPT ![r] = to]

\* A run is admitted, be it that something went wrong with its claim.
Admit(r) ==
    /\ Becomes(r, "asking", "admitted")
    /\ rough \subseteq rough'
    /\ Payload(r) \notin rough' =>
          \A q \in Runs : Entered(q) /\ Payload(q) = Payload(r) => Install(q) = Install(r)

\* The event is left to the other install, which has it already.
Drop(r) ==
    /\ Becomes(r, "asking", "dropped")
    /\ \E q \in Runs : Entered(q) /\ Payload(q) = Payload(r) /\ Install(q) # Install(r)
    /\ UNCHANGED rough

Pass(r) ==
    /\ Becomes(r, "admitted", "passed")
    /\ UNCHANGED rough

Work(r) ==
    /\ Becomes(r, "passed", "ran")
    /\ UNCHANGED rough

\* Somebody of the group has been let through to do the work.
Silence(r) ==
    /\ Becomes(r, "admitted", "silenced")
    /\ \E q \in Runs : LetThrough(q) /\ Group(q) = Group(r)
    /\ UNCHANGED rough

\* The host kills a run, at any time before its body; it does not come back.
Lose(r) ==
    /\ \/ Becomes(r, "asking", "lost") \/ Becomes(r, "admitted", "failed")
       \/ Becomes(r, "passed", "stopped")
    /\ UNCHANGED rough

Roughen ==
    /\ UNCHANGED fate
    /\ rough \subseteq rough'

GateNext ==
    \/ Roughen
    \/ \E r \in Runs : Admit(r) \/ Drop(r) \/ Pass(r) \/ Work(r) \/ Silence(r) \/ Lose(r)

GateSpec == GateInit /\ [][GateNext]_gateVars
=============================================================================
