---------------------------- MODULE AtomicAppend ----------------------------
(***************************************************************************)
(* bin/_lib/atomic-append.js: the advisory lock and the three operations   *)
(* that hook processes and the MCP server use to change a shared file.     *)
(*                                                                         *)
(* A process is one invocation: it makes one call of the module and ends.  *)
(* Every call is synchronous in its process, but processes interleave at   *)
(* every system call, so an action is one system call on the lock file or  *)
(* on the shared file.  The file is a set of rows, each named by the       *)
(* process that wrote it.  A local variable is reset when it goes out of   *)
(* scope.                                                                  *)
(***************************************************************************)
EXTENDS Naturals, FiniteSets

CONSTANTS
    Procs,           \* invocations
    NoProc,          \* nobody: no lock file, or a lock file without a pid
    Keys,            \* what matchFn compares
    MaxLockAttempts  \* MAX_LOCK_ATTEMPTS

ASSUME NoProcAssumption == NoProc \notin Procs
ASSUME AttemptsAssumption == MaxLockAttempts \in Nat \ {0}

\* atomicAppendJsonl, atomicAppendJsonlIfAbsent, _withAdvisoryLock around a
\* read and a whole-file rewrite.
Ops == {"append", "ifAbsent", "rewrite"}

VARIABLES
    job,        \* the operation and the key of each invocation
    pc,         \* the system call each process makes next
    tries,      \* attempt, in _acquireLockFd
    seenAge,    \* st.mtimeMs, in _isLockStale: how old the lock looked
    lock,       \* the lock file: its creator, its content and its age
    rows,       \* the shared file
    snapshot,   \* what a rewriting process has read
    result,     \* what the call tells its caller
    mishaps     \* history: a holder left its lock file behind, a stale threshold
                \* passed in the middle of somebody's system calls, a read failed

vars == <<job, pc, tries, seenAge, lock, rows, snapshot, result, mishaps>>

Mishaps == {"left", "pause", "unreadable"}

\* Ages: 0 is at most STALE_LOCK_MS, 1 is more, 2 is more than five times that.
Ages == 0 .. 2

TypeOK ==
    /\ job \in [Procs -> [op : Ops, key : Keys]]
    /\ pc \in [Procs -> {"open", "stat", "judge", "reclaim", "stamp", "read",
                         "write", "release", "unlocked", "done", "crashed"}]
    /\ tries \in [Procs -> 0 .. MaxLockAttempts - 1]
    /\ seenAge \in [Procs -> Ages]
    /\ lock \in [by : Procs \cup {NoProc}, pid : Procs \cup {NoProc}, age : Ages]
    /\ rows \subseteq Procs
    /\ snapshot \in [Procs -> SUBSET Procs]
    /\ result \in [Procs -> {"none", "added", "present", "skipped", "unlocked"}]
    /\ mishaps \subseteq Mishaps

NoLock == [by |-> NoProc, pid |-> NoProc, age |-> 0]

Init ==
    /\ job \in [Procs -> [op : Ops, key : Keys]]
    /\ pc = [p \in Procs |-> "open"]
    /\ tries = [p \in Procs |-> 0]
    /\ seenAge = [p \in Procs |-> 0]
    /\ lock = NoLock
    /\ rows = {}
    /\ snapshot = [p \in Procs |-> {}]
    /\ result = [p \in Procs |-> "none"]
    /\ mishaps = {}

Goto(p, label) == pc' = [pc EXCEPT ![p] = label]
Returns(p, what) == result' = [result EXCEPT ![p] = what]

Locked == lock.by # NoProc
Holding(p) == pc[p] \in {"stamp", "read", "write", "release"}
Ended(p) == pc[p] \in {"done", "crashed"}

\* Inside the few system calls between creating, or examining, a lock file and
\* being finished with it.
Busy(p) == Holding(p) \/ pc[p] \in {"judge", "reclaim"}

-----------------------------------------------------------------------------
(* _acquireLockFd.                                                         *)

\* Mutant: a claim is appended without the lock too.
FailsOpenOnClaims(p) == job[p].op # "rewrite"

FailsOpen(p) == job[p].op = "append"

\* The call goes on without the lock: an append is made all the same, the
\* other two operations are skipped.
GivesUp(p) ==
    /\ tries' = [tries EXCEPT ![p] = 0]
    /\ IF FailsOpen(p)
       THEN Goto(p, "unlocked") /\ UNCHANGED result
       ELSE Goto(p, "done") /\ Returns(p, "skipped")

\* Mutants: one turn too many; turns that never end.
TurnsLeftOneMore(p) == tries[p] + 1 <= MaxLockAttempts
NextAttemptUncounted(p) == Goto(p, "open") /\ UNCHANGED <<tries, result>>

TurnsLeft(p) == tries[p] + 1 < MaxLockAttempts

\* The end of one turn of the loop.
NextAttempt(p) ==
    \/ /\ TurnsLeft(p)
       /\ tries' = [tries EXCEPT ![p] = @ + 1]
       /\ Goto(p, "open")
       /\ UNCHANGED result
    \/ ~TurnsLeft(p) /\ GivesUp(p)

OpenCreates(p) ==
    /\ pc[p] = "open" /\ ~Locked
    /\ lock' = [by |-> p, pid |-> NoProc, age |-> 0]
    /\ tries' = [tries EXCEPT ![p] = 0]
    /\ Goto(p, "stamp")
    /\ UNCHANGED <<job, seenAge, rows, snapshot, result, mishaps>>

OpenFindsLock(p) ==
    /\ pc[p] = "open" /\ Locked
    /\ Goto(p, "stat")
    /\ UNCHANGED <<job, tries, seenAge, lock, rows, snapshot, result, mishaps>>

\* Any other error than EEXIST leaves the loop.
OpenFails(p) ==
    /\ pc[p] = "open"
    /\ GivesUp(p)
    /\ UNCHANGED <<job, seenAge, lock, rows, snapshot, mishaps>>

\* The holder writes its pid by name, into whatever file has that name by now;
\* an error is ignored.
Stamp(p) ==
    /\ pc[p] = "stamp"
    /\ lock' \in {lock, [by |-> IF Locked THEN lock.by ELSE p, pid |-> p, age |-> 0]}
    /\ Goto(p, IF job[p].op = "append" THEN "write" ELSE "read")
    /\ UNCHANGED <<job, tries, seenAge, rows, snapshot, result, mishaps>>

-----------------------------------------------------------------------------
(* _isLockStale and the reclaim.                                           *)

\* A lock file that is gone is not stale.
StatFails(p) ==
    /\ pc[p] = "stat" /\ ~Locked
    /\ NextAttempt(p)
    /\ UNCHANGED <<job, seenAge, lock, rows, snapshot, mishaps>>

Stat(p) ==
    /\ pc[p] = "stat" /\ Locked
    /\ seenAge' = [seenAge EXCEPT ![p] = lock.age]
    /\ Goto(p, "judge")
    /\ UNCHANGED <<job, tries, lock, rows, snapshot, result, mishaps>>

\* Mutant: a lock file without a pid belongs to nobody.
CanLookStaleUnstamped(age, pid) == age >= 1 \/ pid = NoProc \/ (pid # NoProc /\ Ended(pid))

\* What a process that saw a lock of this age can conclude from the pid it
\* reads.  Without a pid, or with one it has no right to signal, the first
\* threshold decides, with that of a running process the second; the pid of a
\* process that ended is free, or belongs to another process by now.
CanLookStale(age, pid) == age >= 1 \/ (pid # NoProc /\ Ended(pid))
CanLookFresh(age, pid) == age = 0 \/ (pid # NoProc /\ age = 1)

Judge(p) ==
    /\ pc[p] = "judge"
    /\ \/ CanLookStale(seenAge[p], lock.pid) /\ Goto(p, "reclaim")
          /\ UNCHANGED <<tries, result>>
       \/ CanLookFresh(seenAge[p], lock.pid) /\ NextAttempt(p)
    /\ seenAge' = [seenAge EXCEPT ![p] = 0]
    /\ UNCHANGED <<job, lock, rows, snapshot, mishaps>>

\* The lock file that has the name now is unlinked, judged or not; an error is
\* ignored.
Reclaim(p) ==
    /\ pc[p] = "reclaim"
    /\ lock' \in {NoLock, lock}
    /\ NextAttempt(p)
    /\ UNCHANGED <<job, seenAge, rows, snapshot, mishaps>>

-----------------------------------------------------------------------------
(* The operations under the lock.                                          *)

\* Some row satisfies matchFn.
Present(p) == \E r \in rows : job[r].key = job[p].key

\* An unreadable file is taken for an empty one, one that is too large for one
\* that must not be touched.
ReadIfAbsent(p) ==
    /\ pc[p] = "read" /\ job[p].op = "ifAbsent"
    /\ \/ ~Present(p) /\ Goto(p, "write") /\ UNCHANGED <<result, mishaps>>
       \/ Present(p) /\ Goto(p, "release") /\ Returns(p, "present") /\ UNCHANGED mishaps
       \/ Goto(p, "release") /\ Returns(p, "skipped") /\ UNCHANGED mishaps
       \/ Goto(p, "write") /\ mishaps' = mishaps \cup {"unreadable"} /\ UNCHANGED result
    /\ UNCHANGED <<job, tries, seenAge, lock, rows, snapshot>>

ReadAll(p) ==
    /\ pc[p] = "read" /\ job[p].op = "rewrite"
    /\ snapshot' = [snapshot EXCEPT ![p] = rows]
    /\ Goto(p, "write")
    /\ UNCHANGED <<job, tries, seenAge, lock, rows, result, mishaps>>

\* Mutant: every write replaces the file.
WrittenOver(p) == snapshot[p] \cup {p}

\* An append goes to the end of the file there is; a rewrite renames a file
\* with the rows that were read and the new one over it.
Written(p) == (IF job[p].op = "rewrite" THEN snapshot[p] ELSE rows) \cup {p}

Write(p) ==
    /\ pc[p] = "write"
    /\ rows' = Written(p)
    /\ Returns(p, "added")
    /\ snapshot' = [snapshot EXCEPT ![p] = {}]
    /\ Goto(p, "release")
    /\ UNCHANGED <<job, tries, seenAge, lock, mishaps>>

\* The write throws; the lock is released all the same.
WriteFails(p) ==
    /\ pc[p] = "write"
    /\ snapshot' = [snapshot EXCEPT ![p] = {}]
    /\ Returns(p, "skipped")
    /\ Goto(p, "release")
    /\ UNCHANGED <<job, tries, seenAge, lock, rows, mishaps>>

\* _releaseLockFd unlinks whatever lock file there is; an error is only logged.
Release(p) ==
    /\ pc[p] = "release"
    /\ \/ lock' = NoLock /\ UNCHANGED mishaps
       \/ mishaps' = mishaps \cup {"left"} /\ UNCHANGED lock
    /\ Goto(p, "done")
    /\ UNCHANGED <<job, tries, seenAge, rows, snapshot, result>>

AppendUnlocked(p) ==
    /\ pc[p] = "unlocked"
    /\ rows' = rows \cup {p}
    /\ Returns(p, "unlocked")
    /\ Goto(p, "done")
    /\ UNCHANGED <<job, tries, seenAge, lock, snapshot, mishaps>>

-----------------------------------------------------------------------------
(* What can happen to a process.                                           *)

Crash(p) ==
    /\ ~Ended(p)
    /\ Goto(p, "crashed")
    /\ tries' = [tries EXCEPT ![p] = 0]
    /\ seenAge' = [seenAge EXCEPT ![p] = 0]
    /\ snapshot' = [snapshot EXCEPT ![p] = {}]
    /\ mishaps' = IF Holding(p) THEN mishaps \cup {"left"} ELSE mishaps
    /\ UNCHANGED <<job, lock, rows, result>>

Older(age) == IF age < 2 THEN age + 1 ELSE 2

\* A stale threshold passes; a process in the middle of its system calls is
\* overtaken by it, for instance because the machine was suspended.
TimePasses ==
    /\ \/ Locked /\ lock.age < 2
       \/ \E p \in Procs : pc[p] = "judge" /\ seenAge[p] < 2
    /\ lock' = IF Locked THEN [by |-> lock.by, pid |-> lock.pid, age |-> Older(lock.age)]
               ELSE lock
    /\ seenAge' = [p \in Procs |-> IF pc[p] = "judge" THEN Older(seenAge[p]) ELSE seenAge[p]]
    /\ mishaps' = IF \E p \in Procs : Busy(p) THEN mishaps \cup {"pause"} ELSE mishaps
    /\ UNCHANGED <<job, pc, tries, rows, snapshot, result>>

-----------------------------------------------------------------------------
Step(p) ==
    \/ OpenCreates(p) \/ OpenFindsLock(p) \/ OpenFails(p) \/ Stamp(p)
    \/ StatFails(p) \/ Stat(p) \/ Judge(p) \/ Reclaim(p)
    \/ ReadIfAbsent(p) \/ ReadAll(p) \/ Write(p) \/ WriteFails(p)
    \/ Release(p) \/ AppendUnlocked(p)

Next ==
    \/ \E p \in Procs : Step(p) \/ Crash(p)
    \/ TimePasses

Spec == Init /\ [][Next]_vars

\* A process that runs keeps making system calls.
FairSpec == Spec /\ \A p \in Procs : WF_vars(Step(p))

-----------------------------------------------------------------------------
(* Properties.                                                             *)

\* No holder has left its lock file behind or was overtaken by a stale threshold.
Exclusive == mishaps \cap {"left", "pause"} = {}

\* Then at most one process holds the lock: the stale-lock recovery never takes
\* the lock of a live holder, whether or not that has written its pid yet.
MutualExclusion ==
    Exclusive => \A p, q \in Procs : Holding(p) /\ Holding(q) => p = q

\* And a row that was added under the lock stays: no rewrite drops a row of a
\* call that held the lock.  Whatever happens, the file holds no row but those
\* whose writers report them.
LockedRowsKept ==
    /\ Exclusive => {p \in Procs : result[p] = "added"} \subseteq rows
    /\ rows \subseteq {p \in Procs : result[p] \in {"added", "unlocked"}}

\* Two processes that claim the same key with atomicAppendJsonlIfAbsent do not
\* both succeed.
OneClaim ==
    \A p, q \in rows : job[p].op = "ifAbsent" /\ job[q] = job[p] => p = q

ClaimedOnce == mishaps = {} => OneClaim

\* The lock excludes, until something happens that its recovery may get wrong.
Lock == INSTANCE AdvisoryLock WITH
    Clients <- Procs,
    inside <- {p \in Procs : Holding(p)},
    sound <- Exclusive

\* Nobody comes to hold the lock while another holds it.
ImplementsLock == Lock!LockSpec

\* To its callers the module is a file that every call changes in one step.
File == INSTANCE SharedFile WITH
    exclusive <- Exclusive,
    readable <- "unreadable" \notin mishaps

\* Each call takes effect in one step and is answered once, with what it did.
ImplementsFile == File!FileSpec

\* Every call ends, also when the lock was left behind by a process that
\* crashed, or is taken from it.
OperationsEnd == \A p \in Procs : pc[p] = "open" ~> Ended(p)
=============================================================================
