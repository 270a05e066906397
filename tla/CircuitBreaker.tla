--------------------------- MODULE CircuitBreaker ---------------------------
(***************************************************************************)
(* The circuit breaker that limits how many pattern extractions are made   *)
(* in 24 hours (_lib/learning-circuit-breaker.js, _lib/lock-probe.js): a   *)
(* counter file, a sentinel file that marks the trip, and a lock file.     *)
(*                                                                         *)
(* Each call is made by a hook process of its own; an action is one access *)
(* to a file.  A lock file is named by the process that created it, so     *)
(* that removing "the lock" by its name and removing one's own lock can    *)
(* be told apart.  Time is the number of windows that have gone by.        *)
(***************************************************************************)
EXTENDS Naturals, FiniteSets

CONSTANTS
    Callers,    \* calls of checkAndIncrement
    Resetters,  \* calls of reset
    Nobody,
    Absent,     \* a file that does not exist
    Corrupt,    \* a counter file that cannot be parsed
    Max,        \* max_extractions_per_24h
    MaxWindows, \* bound on the windows that go by
    MaxFaults   \* bound on kills, locks that get old, failing writes and
                \* unlinks, and damage to the counter file, together

Procs == Callers \cup Resetters
Windows == 0 .. MaxWindows
Counters == [count : 0 .. Max, window : Windows]
Locks == [by : Procs, pid : Procs \cup {Nobody}, old : BOOLEAN]

ASSUME PartiesAssumption ==
    /\ Callers \cap Resetters = {} /\ Nobody \notin Procs
    /\ IsFiniteSet(Callers)
ASSUME FilesAssumption ==
    /\ Absent \notin Counters /\ Corrupt \notin Counters /\ Absent # Corrupt
    /\ Absent \notin Locks /\ Absent \notin Windows
ASSUME LimitsAssumption == Max \in Nat \ {0} /\ MaxWindows \in Nat /\ MaxFaults \in Nat

VARIABLES
    pc,       \* what each process does next
    lock,     \* learning-breaker-{scope}.json.lock
    tried,    \* staleTried
    counter,  \* learning-breaker-{scope}.json
    tmp,      \* the temporary file it is renamed from, one for all processes
    sentinel, \* learning-breaker-{scope}.tripped: the window of the trip
    state,    \* state, in a call
    verdict,  \* the answer of a call, once it is determined
    window,   \* the current window
    faults

\* History of what happened, for the properties.
VARIABLES
    shaken,   \* a process died with a lock file, failed to remove it, or it got old
    left,     \* processes that failed to remove a lock file
    admitted, \* the window each admission was counted in
    barred,   \* calls made after a recorded trip was reported
    lifted,   \* calls whose trip a reset took back before they reported it
    overdue   \* calls turned away because of a trip two windows ago

files == <<counter, tmp, sentinel>>
history == <<shaken, left, admitted, barred, lifted, overdue>>
vars == <<pc, lock, tried, files, state, verdict, window, faults, history>>

\* With a probe's lock file, and with the lock.
Probing == {"stamp", "unprobe"}
Inside == {"sign", "read", "write", "rename", "sentinel", "clear", "clearSentinel", "release"}
Labels == {"start", "probe", "probeReclaim", "open", "reclaim", "done", "dead"}
              \cup Probing \cup Inside

\* What checkAndIncrement answers, and where it comes from: "sentinel" and
\* "internal_error" are answered "tripped" too.  Of these three, the sentinel
\* stands behind the first two; an error leaves nothing behind.
Verdicts == {"none", "allowed", "tripped", "sentinel", "counter_corrupt", "internal_error",
             "lock_unavailable"}
Recorded == {"tripped", "counter_corrupt"}

BreakerTypeOK ==
    /\ pc \in [Procs -> Labels]
    /\ lock \in Locks \cup {Absent}
    /\ tried \subseteq Procs
    /\ counter \in Counters \cup {Absent, Corrupt}
    /\ tmp \in Counters \cup {Absent}
    /\ sentinel \in Windows \cup {Absent}
    /\ state \in [Callers -> Counters \cup {Absent}]
    /\ verdict \in [Callers -> Verdicts]
    /\ window \in Windows
    /\ faults \in 0 .. MaxFaults
    /\ shaken \in BOOLEAN /\ left \subseteq Procs
    /\ admitted \subseteq Callers \X Windows
    /\ barred \subseteq Callers /\ lifted \subseteq Callers /\ overdue \subseteq Callers

Init ==
    /\ pc = [p \in Procs |-> "start"]
    /\ lock = Absent /\ tried = {}
    /\ counter = Absent /\ tmp = Absent /\ sentinel = Absent
    /\ state = [c \in Callers |-> Absent]
    /\ verdict = [c \in Callers |-> "none"]
    /\ window = 0 /\ faults = 0
    /\ shaken = FALSE /\ left = {} /\ admitted = {} /\ barred = {} /\ lifted = {} /\ overdue = {}

Goto(p, from, to) == pc[p] = from /\ pc' = [pc EXCEPT ![p] = to]
Fault == faults < MaxFaults /\ faults' = faults + 1
Waiting == {c \in Callers : pc[c] = "start"}
Answer(p, v) == verdict' = [c \in Callers |-> IF c = p THEN v ELSE verdict[c]]

-----------------------------------------------------------------------------
(* checkAndIncrement looks at the sentinel before it takes the lock, and   *)
(* never again.                                                            *)

FastPath(c) ==
    /\ IF sentinel = Absent
       THEN Goto(c, "start", "probe") /\ UNCHANGED <<verdict, barred, overdue>>
       ELSE /\ Goto(c, "start", "done") /\ Answer(c, "sentinel")
            /\ barred' = barred \cup Waiting
            /\ overdue' = IF window >= sentinel + 2 THEN overdue \cup {c} ELSE overdue
    /\ UNCHANGED <<lock, tried, files, state, window, faults, shaken, left, admitted, lifted>>

StartReset(r) ==
    /\ Goto(r, "start", "probe")
    /\ UNCHANGED <<lock, tried, files, state, verdict, window, faults, history>>

-----------------------------------------------------------------------------
(* isLockAvailable: take the lock and let it go.                           *)

\* Mutant: the lock is not removed when the function has thrown.
ReleasedOnSuccess(p) ==
    IF p \in Callers /\ verdict[p] = "internal_error" THEN lock ELSE Absent

\* The lock file that is there after a release.
Released(p) == Absent

\* unlinkSync by a process that is done with the lock: whatever lock file is there
\* is removed, or, as its errors are swallowed, the lock file stays.
Unlinks(p) ==
    \/ lock' = Released(p) /\ UNCHANGED <<faults, shaken, left>>
    \/ /\ lock # Absent /\ UNCHANGED lock
       /\ Fault
       /\ shaken' = TRUE /\ left' = left \cup {p}

\* _isStale: a readable pid decides by itself; a process whose call is done may
\* have exited.
ProbeFindsStale(p) ==
    IF lock.pid \in Procs \ {p} THEN pc[lock.pid] \in {"dead", "done"} ELSE lock.old

ProbeOpens(p) ==
    /\ Goto(p, "probe", "stamp")
    /\ lock = Absent /\ lock' = [by |-> p, pid |-> Nobody, old |-> FALSE]
    /\ UNCHANGED <<tried, files, state, verdict, window, faults, history>>

ProbeLooks(p) ==
    /\ Goto(p, "probe", "probeReclaim")
    /\ lock # Absent /\ ProbeFindsStale(p)
    /\ UNCHANGED <<lock, tried, files, state, verdict, window, faults, history>>

\* Whatever lock file is there by now is removed, unless that fails.
ProbeReclaims(p) ==
    /\ Goto(p, "probeReclaim", "probe")
    /\ \/ lock' = Absent /\ UNCHANGED faults
       \/ Fault /\ UNCHANGED lock
    /\ UNCHANGED <<tried, files, state, verdict, window, history>>

\* The pid is written by name: into another's lock file when the own one was
\* removed, into a new one when there is none.
ProbeStamps(p) ==
    /\ Goto(p, "stamp", "unprobe")
    /\ lock' = [by |-> IF lock = Absent THEN p ELSE lock.by, pid |-> p, old |-> FALSE]
    /\ UNCHANGED <<tried, files, state, verdict, window, faults, history>>

ProbeUnlinks(p) ==
    /\ Goto(p, "unprobe", "open")
    /\ Unlinks(p)
    /\ UNCHANGED <<tried, files, state, verdict, window, admitted, barred, lifted, overdue>>

\* Mutant: the lock that gives up and goes on, as _withAdvisoryLock did.
GoesOnWithoutLock(p) ==
    /\ lock # Absent
    /\ \/ Goto(p, "open", IF p \in Callers THEN "read" ELSE "clear") /\ UNCHANGED verdict
       \/ Goto(p, "probe", "done") /\ Answer(p, "lock_unavailable")
    /\ UNCHANGED <<lock, tried, files, state, window, faults, history>>

\* The attempts are used up, in the probe or in _withBreakerLock; reset drops
\* the answer.
GivesUp(p) ==
    /\ lock # Absent
    /\ Goto(p, "probe", "done") \/ Goto(p, "open", "done")
    /\ Answer(p, "lock_unavailable")
    /\ tried' = tried \ {p}
    /\ UNCHANGED <<lock, files, state, window, faults, history>>

-----------------------------------------------------------------------------
(* _withBreakerLock.                                                       *)

TakesLock(p) ==
    /\ Goto(p, "open", "sign")
    /\ lock = Absent /\ lock' = [by |-> p, pid |-> Nobody, old |-> FALSE]
    /\ UNCHANGED <<tried, files, state, verdict, window, faults, history>>

\* Only the age counts here, and it is looked at until a lock was removed.
FindsOld(p) ==
    /\ Goto(p, "open", "reclaim")
    /\ p \notin tried
    /\ lock # Absent /\ lock.old
    /\ UNCHANGED <<lock, tried, files, state, verdict, window, faults, history>>

\* Whatever lock file is there by now is removed; when there is none, or that
\* fails, the call may still remove another.
RemovesOld(p) ==
    /\ Goto(p, "reclaim", "open")
    /\ \/ /\ tried' = IF lock # Absent THEN tried \cup {p} ELSE tried
          /\ lock' = Absent /\ UNCHANGED faults
       \/ Fault /\ UNCHANGED <<lock, tried>>
    /\ UNCHANGED <<files, state, verdict, window, history>>

\* The pid is written through the descriptor: into the own lock file only.  When
\* that fails, so does the call.
Signs(p) ==
    /\ \/ /\ Goto(p, "sign", IF p \in Callers THEN "read" ELSE "clear")
          /\ lock' = IF lock # Absent /\ lock.by = p THEN [lock EXCEPT !.pid = p, !.old = FALSE]
                     ELSE lock
          /\ UNCHANGED <<verdict, faults>>
       \/ /\ Goto(p, "sign", "release") /\ Answer(p, "internal_error")
          /\ Fault /\ UNCHANGED lock
    /\ UNCHANGED <<tried, files, state, window, history>>

\* The call ends with its answer.
Releases(p) ==
    /\ Goto(p, "release", "done")
    /\ Unlinks(p)
    /\ barred' = IF p \in Callers \ lifted /\ verdict[p] \in Recorded
                 THEN barred \cup Waiting ELSE barred
    /\ tried' = tried \ {p} /\ lifted' = lifted \ {p}
    /\ UNCHANGED <<files, state, verdict, window, admitted, overdue>>

-----------------------------------------------------------------------------
(* The function of checkAndIncrement.                                      *)

Fresh == [count |-> 0, window |-> window]

\* Mutant: the count starts again but windowStart stays.
RolledKeepingStart(s) ==
    IF s = Absent THEN Fresh ELSE IF s.window # window THEN [s EXCEPT !.count = 0] ELSE s

\* A missing file, or one whose window is over, starts a window.
Rolled(s) == IF s = Absent THEN Fresh ELSE IF s.window # window THEN Fresh ELSE s

\* Mutant: one too many.
SpentWhenOver(s) == s.count > Max

Spent(s) == s.count >= Max

\* The counter is read and the decision made.
ReadCounter(c) ==
    /\ \/ /\ counter = Corrupt
          /\ Goto(c, "read", "sentinel")
          /\ Answer(c, "counter_corrupt") /\ UNCHANGED state
       \/ /\ counter # Corrupt /\ Spent(Rolled(counter))
          /\ Goto(c, "read", "write")
          /\ Answer(c, "tripped")
          /\ state' = [state EXCEPT ![c] = Rolled(counter)]
       \/ /\ counter # Corrupt /\ ~Spent(Rolled(counter))
          /\ Goto(c, "read", "write")
          /\ Answer(c, "allowed")
          /\ state' = [state EXCEPT ![c] = [count |-> Rolled(counter).count + 1,
                                            window |-> Rolled(counter).window]]
    /\ UNCHANGED <<lock, tried, files, window, faults, history>>

\* writeFileSync of the temporary file.  An error ends the call, which answers
\* that it is tripped, and writes no sentinel.
WriteTmp(c) ==
    /\ \/ /\ Goto(c, "write", "rename") /\ tmp' = state[c]
          /\ UNCHANGED <<state, verdict, faults>>
       \/ /\ Goto(c, "write", "release") /\ Answer(c, "internal_error")
          /\ state' = [state EXCEPT ![c] = Absent]
          /\ Fault /\ UNCHANGED tmp
    /\ UNCHANGED <<lock, tried, counter, sentinel, window, history>>

\* What is renamed may be another's, or gone; an error is answered like one of
\* writeFileSync.
RenameTmp(c) ==
    /\ \/ /\ tmp # Absent
          /\ counter' = tmp /\ tmp' = Absent
          /\ Goto(c, "rename", IF verdict[c] = "tripped" THEN "sentinel" ELSE "release")
          /\ admitted' = IF verdict[c] = "allowed"
                         THEN admitted \cup {<<c, state[c].window>>} ELSE admitted
          /\ UNCHANGED <<verdict, faults>>
       \/ /\ (tmp = Absent /\ UNCHANGED faults) \/ Fault
          /\ Goto(c, "rename", "release") /\ Answer(c, "internal_error")
          /\ UNCHANGED <<counter, tmp, admitted>>
    /\ state' = [state EXCEPT ![c] = Absent]
    /\ UNCHANGED <<lock, tried, sentinel, window, shaken, left, barred, lifted, overdue>>

\* Mutant: the trip is marked in the counter file only.
MarkInCounter(c) ==
    /\ Goto(c, "sentinel", "release")
    /\ UNCHANGED <<sentinel, verdict, faults>>
    /\ UNCHANGED <<lock, tried, counter, tmp, state, window, history>>

\* An error leaves a counter that is marked as tripped and no sentinel.
WriteSentinel(c) ==
    /\ Goto(c, "sentinel", "release")
    /\ \/ sentinel' = window /\ UNCHANGED <<verdict, faults>>
       \/ Answer(c, "internal_error") /\ Fault /\ UNCHANGED sentinel
    /\ UNCHANGED <<lock, tried, counter, tmp, state, window, history>>

-----------------------------------------------------------------------------
(* The function of reset; its errors are ignored.                          *)

ClearCounter(r) ==
    /\ Goto(r, "clear", "clearSentinel")
    /\ \/ counter' = Absent /\ admitted' = {} /\ UNCHANGED faults
       \/ Fault /\ UNCHANGED <<counter, admitted>>
    /\ UNCHANGED <<lock, tried, tmp, sentinel, state, verdict, window, shaken, left, barred,
                   lifted, overdue>>

ClearSentinel(r) ==
    /\ Goto(r, "clearSentinel", "release")
    /\ \/ /\ sentinel' = Absent /\ barred' = {}
          /\ lifted' = lifted \cup {c \in Callers : verdict[c] \in Recorded /\ pc[c] # "done"}
          /\ UNCHANGED faults
       \/ Fault /\ UNCHANGED <<sentinel, barred, lifted>>
    /\ UNCHANGED <<lock, tried, counter, tmp, state, verdict, window, shaken, left, admitted,
                   overdue>>

-----------------------------------------------------------------------------

\* The 24 hours of every window that has begun are over.
WindowEnds ==
    /\ window < MaxWindows /\ window' = window + 1
    /\ UNCHANGED <<pc, lock, tried, files, state, verdict, faults, history>>

\* The lock file has not been written to for ten seconds.
LockGetsOld ==
    /\ lock # Absent /\ ~lock.old
    /\ lock' = [lock EXCEPT !.old = TRUE]
    /\ shaken' = TRUE
    /\ Fault
    /\ UNCHANGED <<pc, tried, files, state, verdict, window, left, admitted, barred, lifted,
                   overdue>>

\* The counter file is deleted, which starts the count again, or damaged.
CounterDamaged ==
    /\ counter \in Counters
    /\ \/ counter' = Absent /\ admitted' = {}
       \/ counter' = Corrupt /\ UNCHANGED admitted
    /\ Fault
    /\ UNCHANGED <<pc, lock, tried, tmp, sentinel, state, verdict, window, shaken, left,
                   barred, lifted, overdue>>

\* A process is killed between creating a lock file and removing it.
Kill(p) ==
    /\ pc[p] \in Probing \cup Inside
    /\ pc' = [pc EXCEPT ![p] = "dead"]
    /\ state' = [c \in Callers |-> IF c = p THEN Absent ELSE state[c]]
    /\ Answer(p, "none")
    /\ tried' = tried \ {p} /\ lifted' = lifted \ {p}
    /\ shaken' = TRUE
    /\ Fault
    /\ UNCHANGED <<lock, files, window, left, admitted, barred, overdue>>

LockStep(p) ==
    \/ ProbeOpens(p) \/ ProbeLooks(p) \/ ProbeReclaims(p) \/ ProbeStamps(p) \/ ProbeUnlinks(p)
    \/ GivesUp(p)
    \/ TakesLock(p) \/ FindsOld(p) \/ RemovesOld(p) \/ Signs(p) \/ Releases(p)
CallerStep(c) ==
    FastPath(c) \/ ReadCounter(c) \/ WriteTmp(c) \/ RenameTmp(c) \/ WriteSentinel(c)
ResetterStep(r) == StartReset(r) \/ ClearCounter(r) \/ ClearSentinel(r)

Next ==
    \/ \E p \in Procs : LockStep(p) \/ Kill(p)
    \/ \E c \in Callers : CallerStep(c)
    \/ \E r \in Resetters : ResetterStep(r)
    \/ WindowEnds \/ LockGetsOld \/ CounterDamaged

Spec == Init /\ [][Next]_vars

-----------------------------------------------------------------------------
(* Properties.                                                             *)

\* As long as no process has died with a lock file or failed to remove it, and no
\* lock file has got old, one process at a time works on the files: probes, which
\* take the same lock file and remove it by its name, never let a second one in.
OneInside ==
    ~shaken => \A p, q \in Procs : pc[p] \in Inside /\ pc[q] \in Inside => p = q

AdmittedIn(w) == {c \in Callers : <<c, w>> \in admitted}

\* Under the same condition, at most Max calls are admitted in a window, since
\* the last reset or deletion of the counter, whatever writes fail.
CapHolds == ~shaken => \A w \in Windows : Cardinality(AdmittedIn(w)) <= Max

\* Once a call has reported a trip that is recorded, or one it found recorded, no
\* later call is admitted before a reset: not in another window, nor when the
\* counter file is deleted, nor when writes fail or processes die (the sentinel
\* "survives counter deletion").  Who answers "tripped" because of an error bars
\* nobody: nothing records that answer.
TripHolds == \A c \in barred : \A w \in Windows : <<c, w>> \notin admitted

\* A lock file that is there was created by a process that is going to remove
\* it, has died, or has failed to remove one, whoever removed and recreated lock
\* files meanwhile.
NoStrayLock ==
    lock # Absent => pc[lock.by] \in Probing \cup Inside \cup {"dead"} \/ lock.by \in left

\* A call is not turned away for a trip that is a whole window ago: the cooldown,
\* cooldown_minutes_on_trip, is at most the 24 hours of a window.
TripCoolsDown == overdue = {}

\* The lock file of the breaker, its probes included, is a lock, until a process
\* dies with it or fails to remove it, or it gets old.
Lock == INSTANCE AdvisoryLock WITH
    Clients <- Procs,
    inside <- {p \in Procs : pc[p] \in Inside},
    sound <- ~shaken

\* Nobody comes to work on the files while another works on them.
ImplementsLock == Lock!LockSpec

\* To its callers the breaker is a budget: calls are admitted within it, recorded
\* trips are decided when it is spent and hold until a reset, and each call is
\* answered once.  An admission takes effect when the counter is renamed; a trip
\* is decided when it is read.  The callers cannot tell trips from errors.
Deciding == {"write", "rename", "sentinel", "release"}

Stage(c) ==
    IF pc[c] = "start" THEN "waiting"
    ELSE IF pc[c] = "done" THEN "answered"
    ELSE IF pc[c] = "dead" THEN "lost" ELSE "open"

Outcome(c) ==
    IF pc[c] \in {"write", "rename"} /\ verdict[c] = "allowed" THEN "none"
    ELSE IF verdict[c] \in {"sentinel", "internal_error"} THEN "tripped" ELSE verdict[c]

Stands(c) == pc[c] \in Deciding /\ verdict[c] \in Recorded /\ c \notin lifted

Stages == [c \in Callers |-> Stage(c)]
Outcomes == [c \in Callers |-> Outcome(c)]
Standing == {c \in Callers : Stands(c)}

Budget == INSTANCE ExtractionBudget WITH
    stage <- Stages,
    outcome <- Outcomes,
    standing <- Standing,
    sound <- ~shaken,
    calm <- faults = 0

\* A window admits no more than Max, and a recorded trip that is reported bars
\* later calls until a reset, whatever windows end and counters are deleted in
\* between; as long as nothing fails every reported trip is a recorded one.
ImplementsBudget == Budget!BudgetSpec
=============================================================================
