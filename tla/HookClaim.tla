----------------------------- MODULE HookClaim -----------------------------
(***************************************************************************)
(* bin/_lib/hook-stdin.js: the claim every hook makes on entry.  When      *)
(* Orchestray is installed twice, one event of the host starts the same    *)
(* hook script from each install, as two processes.  They race for a claim *)
(* file named by the script, the session and the payload; the loser exits  *)
(* without running its body.                                               *)
(*                                                                         *)
(* An action is one system call on the claim directory or the claim file.  *)
(* The kill switches are off, a window of 0 milliseconds among them.       *)
(***************************************************************************)
EXTENDS Integers, FiniteSets

CONSTANTS
    Events,    \* events of the host
    Installs,  \* callerPath: where the running script is installed
    Procs,     \* the runs of the hook: for which event, from which install
    Keys,      \* dedupKey: names of claim files
    KeyOf,     \* the claim key of an event; equal payloads have equal keys
    Window,    \* dedupWindowMs()
    GcAge,     \* windowMs * 10, in gcClaims
    MaxClock,  \* bound of the clock
    MaxFaults  \* bound on system calls that fail and processes the host kills

ASSUME ProcsAssumption == Procs \subseteq Events \X Installs
ASSUME KeyAssumption == KeyOf \in [Events -> Keys]
ASSUME WindowAssumption == Window \in Nat
ASSUME GcAssumption == GcAge \in Nat /\ GcAge >= Window
ASSUME ClockAssumption == MaxClock \in Nat
ASSUME FaultsAssumption == MaxFaults \in Nat

InstallOf(p) == p[2]
Key(p) == KeyOf[p[1]]

NoProc == <<>>

VARIABLES
    clock,    \* Date.now()
    leafLax,  \* the per-project claim directory is writable by others
    claims,   \* the claim file of each key: its creator, whether the record is in it
    made,     \* mtimeMs of the claim file of each key
    pc,       \* the system call each process makes next
    now,      \* nowMs
    victim,   \* the old claim a sweep is about to remove
    reason,   \* why the decision is what it is
    swept,    \* history: keys a sweep has removed a claim of
    faults    \* how many calls failed and processes were killed

claimVars == <<clock, leafLax, claims, made, pc, now, victim, reason, swept, faults>>

NoClaim == [by |-> NoProc, written |-> FALSE]

\* A claim that is not honoured is replaced; a claim that cannot be made at all
\* is done without.
TakeoverReasons == {"claim_untrusted", "claim_unreadable", "window_expired"}
UnclaimedReasons == {"claim_dir_unavailable", "claim_dir_untrusted", "claim_error"}
Reasons == {"none", "claimed", "same_caller_repeat", "duplicate_install"}
             \cup TakeoverReasons \cup UnclaimedReasons

TypeOK ==
    /\ clock \in 0 .. MaxClock
    /\ leafLax \in BOOLEAN
    /\ claims \in [Keys -> [by : Procs \cup {NoProc}, written : BOOLEAN]]
    /\ made \in [Keys -> 0 .. MaxClock]
    /\ pc \in [Procs -> {"start", "stamp", "remove", "create", "write", "trust",
                         "read", "unlink", "recreate", "rewrite",
                         "fired", "suppressed", "killed"}]
    /\ now \in [Procs -> 0 .. MaxClock]
    /\ victim \in [Procs -> Keys]
    /\ reason \in [Procs -> Reasons]
    /\ swept \subseteq Keys
    /\ faults \in 0 .. MaxFaults

Init ==
    /\ clock = 0
    /\ leafLax \in BOOLEAN
    /\ claims = [k \in Keys |-> NoClaim]
    /\ made = [k \in Keys |-> 0]
    /\ pc = [p \in Procs |-> "start"]
    /\ now = [p \in Procs |-> 0]
    /\ victim = [p \in Procs |-> Key(p)]
    /\ reason = [p \in Procs |-> "none"]
    /\ swept = {}
    /\ faults = 0

Goto(p, from, to) == pc[p] = from /\ pc' = [pc EXCEPT ![p] = to]
Because(p, why) == reason' = [reason EXCEPT ![p] = why]
Fault == faults < MaxFaults /\ faults' = faults + 1

\* unlinkSync: whatever has the name now is removed, if anything has.
Unlink(k) ==
    /\ claims' = [claims EXCEPT ![k] = NoClaim]
    /\ made' = [made EXCEPT ![k] = 0]

(***************************************************************************)
(* The directory: created if need be; a directory of ours that others may  *)
(* write to is tightened, and not trusted this once.                       *)
(***************************************************************************)
VerifyClaimDir(p) ==
    /\ \/ /\ ~leafLax
          /\ Goto(p, "start", "stamp")
          /\ UNCHANGED <<leafLax, reason, faults>>
       \/ /\ leafLax
          /\ Goto(p, "start", "fired")
          /\ Because(p, "claim_dir_untrusted")
          /\ leafLax' = FALSE
          /\ UNCHANGED faults
       \/ /\ Goto(p, "start", "fired")
          /\ Because(p, "claim_dir_unavailable")
          /\ Fault
          /\ UNCHANGED leafLax
    /\ UNCHANGED <<clock, claims, made, now, victim, swept>>

\* nowMs is read once, before the claim is made.
Stamp(p) ==
    /\ Goto(p, "stamp", "create")
    /\ now' = [now EXCEPT ![p] = clock]
    /\ UNCHANGED <<clock, leafLax, claims, made, victim, reason, swept, faults>>

\* gcClaims, by chance and before the claim is made: an old claim is found, then
\* removed by its name.
SweepLook(p, k) ==
    /\ Goto(p, "create", "remove")
    /\ claims[k] # NoClaim
    /\ now[p] - made[k] > GcAge
    /\ victim' = [victim EXCEPT ![p] = k]
    /\ UNCHANGED <<clock, leafLax, claims, made, now, reason, swept, faults>>

SweepUnlink(p) ==
    /\ Goto(p, "remove", "create")
    /\ Unlink(victim[p])
    /\ swept' = swept \cup {victim[p]}
    /\ victim' = [victim EXCEPT ![p] = Key(p)]
    /\ UNCHANGED <<clock, leafLax, now, reason, faults>>

\* createClaimExclusive: open with O_EXCL, then write the record.
\* Mutant: a claim file without a record counts as no claim.
AbsentUnlessWritten(k) == ~claims[k].written
Absent(k) == claims[k] = NoClaim

MakeClaim(p) ==
    /\ claims' = [claims EXCEPT ![Key(p)] = [by |-> p, written |-> FALSE]]
    /\ made' = [made EXCEPT ![Key(p)] = clock]

CreateClaim(p) ==
    /\ \/ /\ Absent(Key(p))
          /\ Goto(p, "create", "write")
          /\ MakeClaim(p)
          /\ UNCHANGED <<reason, faults>>
       \/ /\ ~Absent(Key(p))
          /\ Goto(p, "create", "trust")
          /\ UNCHANGED <<claims, made, reason, faults>>
       \/ /\ Goto(p, "create", "fired")
          /\ Because(p, "claim_error")
          /\ Fault
          /\ UNCHANGED <<claims, made>>
    /\ UNCHANGED <<clock, leafLax, now, victim, swept>>

\* The write goes to the file that was opened, which may have lost its name.
\* Mutant: the modification time is rounded up.
PutRecordRounded(p) ==
    IF claims[Key(p)].by = p
    THEN /\ claims' = [claims EXCEPT ![Key(p)] = [by |-> p, written |-> TRUE]]
         /\ made' = [made EXCEPT ![Key(p)] = clock + 1]
    ELSE UNCHANGED <<claims, made>>

PutRecord(p) ==
    IF claims[Key(p)].by = p
    THEN /\ claims' = [claims EXCEPT ![Key(p)] = [by |-> p, written |-> TRUE]]
         /\ made' = [made EXCEPT ![Key(p)] = clock]
    ELSE UNCHANGED <<claims, made>>

\* Mutant: a record that cannot be written suppresses the hook.
WriteClaimOrStaySilent(p) ==
    /\ \/ Goto(p, "write", "fired") /\ PutRecord(p) /\ Because(p, "claimed") /\ UNCHANGED faults
       \/ /\ Goto(p, "write", "suppressed")
          /\ UNCHANGED <<claims, made>> /\ Because(p, "claim_error") /\ Fault
    /\ UNCHANGED <<clock, leafLax, now, victim, swept>>

WriteClaim(p) ==
    /\ Goto(p, "write", "fired")
    /\ \/ PutRecord(p) /\ Because(p, "claimed") /\ UNCHANGED faults
       \/ UNCHANGED <<claims, made>> /\ Because(p, "claim_error") /\ Fault
    /\ UNCHANGED <<clock, leafLax, now, victim, swept>>

\* claimFileTrust: a claim that has gone cannot be examined and is not trusted.
CheckTrust(p) ==
    /\ \/ /\ claims[Key(p)] # NoClaim
          /\ Goto(p, "trust", "read")
          /\ UNCHANGED reason
       \/ /\ claims[Key(p)] = NoClaim
          /\ Goto(p, "trust", "unlink")
          /\ Because(p, "claim_untrusted")
    /\ UNCHANGED <<clock, leafLax, claims, made, now, victim, swept, faults>>

InWindow(p, q) == now[p] - now[q] \in 0 .. Window

\* A claim that does not parse, because its record is not there yet or never
\* will be, is not believed.
\* Mutant: a claim that is there is believed.
ReadableIfThere(c) == c # NoClaim
Readable(c) == c.written

ReadClaim(p) ==
    LET c == claims[Key(p)] IN
    /\ \/ /\ ~Readable(c)
          /\ Goto(p, "read", "unlink")
          /\ Because(p, "claim_unreadable")
       \/ /\ Readable(c)
          /\ ~InWindow(p, c.by)
          /\ Goto(p, "read", "unlink")
          /\ Because(p, "window_expired")
       \/ /\ Readable(c)
          /\ InWindow(p, c.by)
          /\ InstallOf(c.by) # InstallOf(p)
          /\ Goto(p, "read", "suppressed")
          /\ Because(p, "duplicate_install")
       \/ /\ Readable(c)
          /\ InWindow(p, c.by)
          /\ InstallOf(c.by) = InstallOf(p)
          /\ Goto(p, "read", "fired")
          /\ Because(p, "same_caller_repeat")
    /\ UNCHANGED <<clock, leafLax, claims, made, now, victim, swept, faults>>

\* takeoverClaim: remove whatever has the name now, try once to claim, and fire
\* whether or not that works.
TakeoverUnlink(p) ==
    /\ Goto(p, "unlink", "recreate")
    /\ Unlink(Key(p))
    /\ UNCHANGED <<clock, leafLax, now, victim, reason, swept, faults>>

TakeoverCreate(p) ==
    /\ \/ /\ claims[Key(p)] = NoClaim
          /\ Goto(p, "recreate", "rewrite")
          /\ MakeClaim(p)
          /\ UNCHANGED faults
       \/ /\ Goto(p, "recreate", "fired")
          /\ IF claims[Key(p)] = NoClaim THEN Fault ELSE UNCHANGED faults
          /\ UNCHANGED <<claims, made>>
    /\ UNCHANGED <<clock, leafLax, now, victim, reason, swept>>

TakeoverWrite(p) ==
    /\ Goto(p, "rewrite", "fired")
    /\ \/ PutRecord(p) /\ UNCHANGED faults
       \/ UNCHANGED <<claims, made>> /\ Fault
    /\ UNCHANGED <<clock, leafLax, now, victim, reason, swept>>

\* The host kills a hook that exceeds its time; a killed process keeps nothing
\* but the files it left.
KillClaimant(p) ==
    /\ pc[p] \notin {"fired", "suppressed", "killed"}
    /\ pc' = [pc EXCEPT ![p] = "killed"]
    /\ Fault
    /\ UNCHANGED <<clock, leafLax, claims, made, now, victim, reason, swept>>

Tick ==
    /\ clock < MaxClock
    /\ clock' = clock + 1
    /\ UNCHANGED <<leafLax, claims, made, pc, now, victim, reason, swept, faults>>

Next ==
    \/ \E p \in Procs :
          \/ VerifyClaimDir(p) \/ Stamp(p)
          \/ \E k \in Keys : SweepLook(p, k)
          \/ SweepUnlink(p)
          \/ CreateClaim(p) \/ WriteClaim(p)
          \/ CheckTrust(p) \/ ReadClaim(p)
          \/ TakeoverUnlink(p) \/ TakeoverCreate(p) \/ TakeoverWrite(p)
          \/ KillClaimant(p)
    \/ Tick

Spec == Init /\ [][Next]_claimVars

-----------------------------------------------------------------------------

(***************************************************************************)
(* "Never zero": a process stays silent only if a process of the other     *)
(* install with the same payload was admitted, and made its claim within   *)
(* the window before.  No race of creations, takeovers, sweeps and faults   *)
(* may leave a claim that silences a hook on behalf of nobody.             *)
(***************************************************************************)
SilenceHasWitness ==
    \A p \in Procs : pc[p] = "suppressed" =>
        \E q \in Procs :
            /\ Key(q) = Key(p)
            /\ InstallOf(q) # InstallOf(p)
            /\ InWindow(p, q)
            /\ pc[q] = "fired"
            /\ reason[q] \in {"claimed"} \cup TakeoverReasons

\* Something other than the plain race for the claim happened on key k.
Disturbed(k) ==
    \/ k \in swept
    \/ \E p \in Procs : Key(p) = k /\ reason[p] \in TakeoverReasons \cup UnclaimedReasons

(***************************************************************************)
(* "Never two": two installs are both admitted with one payload only after *)
(* a claim was swept, taken over or could not be made: when the claim file *)
(* is simply raced for, O_EXCL and the caller rule admit one install, in   *)
(* whatever order and at whatever speed the processes run.                 *)
(***************************************************************************)
OneInstallAdmitted ==
    \A p, q \in Procs :
        (/\ pc[p] = "fired" /\ pc[q] = "fired"
         /\ Key(p) = Key(q) /\ InstallOf(p) # InstallOf(q)) => Disturbed(Key(p))
=============================================================================
