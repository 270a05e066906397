------------------------- MODULE AtomicAppendProofs -------------------------
(***************************************************************************)
(* Theorems about AtomicAppend, for every set of processes and keys and    *)
(* every number of attempts.                                               *)
(***************************************************************************)
EXTENDS AtomicAppend, TLAPS

-----------------------------------------------------------------------------
(* Types.                                                                  *)

PcType == [Procs -> {"open", "stat", "judge", "reclaim", "stamp", "read",
                     "write", "release", "unlocked", "done", "crashed"}]
ResultType == [Procs -> {"none", "added", "present", "skipped", "unlocked"}]
LockType == [by : Procs \cup {NoProc}, pid : Procs \cup {NoProc}, age : Ages]

\* Giving up keeps types.
LEMMA GivesUpType ==
    ASSUME TypeOK, NEW p \in Procs, GivesUp(p)
    PROVE  pc' \in PcType /\ tries' \in [Procs -> 0 .. MaxLockAttempts - 1] /\ result' \in ResultType
<1>1. 0 \in 0 .. MaxLockAttempts - 1
  BY AttemptsAssumption
<1>2. tries' \in [Procs -> 0 .. MaxLockAttempts - 1]
  BY <1>1 DEF GivesUp, FailsOpen, TypeOK
<1>3. pc' = [pc EXCEPT ![p] = "unlocked"] \/ pc' = [pc EXCEPT ![p] = "done"]
  BY DEF GivesUp, FailsOpen, Goto
<1>4. result' = result \/ result' = [result EXCEPT ![p] = "skipped"]
  BY DEF GivesUp, FailsOpen, Returns
<1>5. pc' \in PcType
  BY <1>3 DEF TypeOK, PcType
<1>6. result' \in ResultType
  BY <1>4 DEF TypeOK, ResultType
<1>. QED
  BY <1>2, <1>5, <1>6

\* Another turn of the loop keeps types.
LEMMA AttemptType ==
    ASSUME TypeOK, NEW p \in Procs, NextAttempt(p)
    PROVE  pc' \in PcType /\ tries' \in [Procs -> 0 .. MaxLockAttempts - 1] /\ result' \in ResultType
<1>1. CASE GivesUp(p)
  BY <1>1, GivesUpType
<1>2. CASE ~GivesUp(p)
  <2>1. tries[p] + 1 \in 0 .. MaxLockAttempts - 1
    BY <1>2, AttemptsAssumption DEF NextAttempt, TurnsLeft, TypeOK
  <2>2. pc' = [pc EXCEPT ![p] = "open"] /\ UNCHANGED result
        /\ tries' = [tries EXCEPT ![p] = tries[p] + 1]
    BY <1>2 DEF NextAttempt, TurnsLeft, Goto
  <2>. QED
    BY <2>1, <2>2 DEF TypeOK, PcType, ResultType
<1>. QED
  BY <1>1, <1>2

\* There may be no lock file.
LEMMA NoLockType == NoLock \in LockType
  BY DEF NoLock, LockType, Ages

\* A lock looks older at most by one threshold.
LEMMA OlderType == ASSUME NEW a \in Ages PROVE Older(a) \in Ages
  BY DEF Older, Ages

\* A step of a process keeps types.
LEMMA TypeProcStep ==
    ASSUME TypeOK, NEW p \in Procs, Step(p) \/ Crash(p)
    PROVE  TypeOK'
<1>. USE DEF Goto, Returns
<1>0. 0 \in 0 .. MaxLockAttempts - 1 /\ 0 \in Ages
  BY AttemptsAssumption DEF Ages
<1>1. CASE OpenCreates(p)
  <2>1. lock' \in LockType
    BY <1>0, <1>1 DEF OpenCreates, LockType
  <2>. QED
    BY <1>0, <1>1, <2>1 DEF TypeOK, OpenCreates, LockType
<1>2. CASE OpenFindsLock(p)
  BY <1>2 DEF TypeOK, OpenFindsLock
<1>3. CASE OpenFails(p)
  BY <1>3, GivesUpType DEF TypeOK, OpenFails, PcType, ResultType
<1>4. CASE Stamp(p)
  <2>1. lock' \in LockType
    BY <1>0, <1>4 DEF Stamp, LockType, TypeOK
  <2>2. pc' \in PcType
    BY <1>4 DEF Stamp, PcType, TypeOK
  <2>. QED
    BY <1>4, <2>1, <2>2 DEF TypeOK, Stamp, LockType, PcType
<1>5. CASE StatFails(p)
  BY <1>5, AttemptType DEF TypeOK, StatFails, PcType, ResultType
<1>6. CASE Stat(p)
  BY <1>6 DEF TypeOK, Stat
<1>7. CASE Judge(p)
  <2>1. seenAge' \in [Procs -> Ages]
    BY <1>0, <1>7 DEF TypeOK, Judge
  <2>2. CASE NextAttempt(p)
    BY <1>7, <2>1, <2>2, AttemptType DEF TypeOK, Judge, PcType, ResultType
  <2>3. CASE ~NextAttempt(p)
    BY <1>7, <2>1, <2>3 DEF TypeOK, Judge
  <2>. QED
    BY <2>2, <2>3
<1>8. CASE Reclaim(p)
  <2>1. lock' \in LockType
    BY <1>8, NoLockType DEF Reclaim, LockType, TypeOK
  <2>. QED
    BY <1>8, <2>1, AttemptType DEF TypeOK, Reclaim, LockType, PcType, ResultType
<1>9. CASE ReadIfAbsent(p)
  <2>1. pc' \in PcType /\ result' \in ResultType
    BY <1>9 DEF TypeOK, ReadIfAbsent, PcType, ResultType
  <2>2. mishaps' \subseteq Mishaps
    BY <1>9 DEF TypeOK, ReadIfAbsent, Mishaps
  <2>. QED
    BY <1>9, <2>1, <2>2 DEF TypeOK, ReadIfAbsent, PcType, ResultType
<1>10. CASE ReadAll(p)
  BY <1>10 DEF TypeOK, ReadAll
<1>11. CASE Write(p)
  <2>1. rows' \subseteq Procs
    BY <1>11 DEF TypeOK, Write, Written
  <2>. QED
    BY <1>11, <2>1 DEF TypeOK, Write, Written
<1>12. CASE WriteFails(p)
  BY <1>12 DEF TypeOK, WriteFails
<1>13. CASE Release(p)
  <2>1. lock' \in LockType /\ mishaps' \subseteq Mishaps
    BY <1>13, NoLockType DEF Release, LockType, TypeOK, Mishaps
  <2>. QED
    BY <1>13, <2>1 DEF TypeOK, Release, LockType
<1>14. CASE AppendUnlocked(p)
  BY <1>14 DEF TypeOK, AppendUnlocked
<1>15. CASE Crash(p)
  <2>1. mishaps' \subseteq Mishaps
    BY <1>15 DEF Crash, TypeOK, Mishaps
  <2>. QED
    BY <1>0, <1>15, <2>1 DEF TypeOK, Crash
<1>. QED
  BY <1>1, <1>2, <1>3, <1>4, <1>5, <1>6, <1>7, <1>8, <1>9, <1>10, <1>11, <1>12, <1>13,
     <1>14, <1>15 DEF Step

\* Every step keeps types.
LEMMA TypeStep == TypeOK /\ [Next]_vars => TypeOK'
<1>. SUFFICES ASSUME TypeOK, [Next]_vars PROVE TypeOK'
  OBVIOUS
<1>1. CASE TimePasses
  <2>1. lock' \in LockType
    <3>1. Older(lock.age) \in Ages
      BY OlderType DEF TypeOK
    <3>. QED
      BY <1>1, <3>1 DEF TimePasses, TypeOK, LockType
  <2>2. seenAge' \in [Procs -> Ages]
    <3>1. \A p \in Procs : Older(seenAge[p]) \in Ages
      BY OlderType DEF TypeOK
    <3>. QED
      BY <1>1, <3>1 DEF TimePasses, TypeOK
  <2>3. mishaps' \subseteq Mishaps
    BY <1>1 DEF TimePasses, TypeOK, Mishaps
  <2>. QED
    BY <1>1, <2>1, <2>2, <2>3 DEF TimePasses, TypeOK, LockType
<1>2. CASE UNCHANGED vars
  BY <1>2 DEF vars, TypeOK
<1>. QED
  BY <1>1, <1>2, TypeProcStep DEF Next

\* The variables keep their types.
THEOREM TypeCorrect == Spec => []TypeOK
<1>1. Init => TypeOK
  BY AttemptsAssumption DEF Init, TypeOK, NoLock, Ages
<1>. QED
  BY <1>1, TypeStep, PTL DEF Spec

-----------------------------------------------------------------------------
(* The inductive invariant.  Four parts hold whatever happens; those about *)
(* the lock, rewrites and the rows they must keep as long as no holder     *)
(* left its lock or paused; those about claims as long as, in addition,    *)
(* every read succeeded.                                                   *)

Added == {p \in Procs : result[p] = "added"}
Reported == {p \in Procs : result[p] \in {"added", "unlocked"}}

\* Only an append is made without the lock.
UnlockedIsAppend == \A p \in Procs : pc[p] = "unlocked" => job[p].op = "append"

\* Nothing is reported before the call has done its work.
ReportedAtEnd ==
    \A p \in Procs : pc[p] \notin {"release", "done", "crashed"} => result[p] = "none"

\* The file holds, and was read with, no row but those that are reported.
RowsReported == rows \subseteq Reported
SnapshotsReported == \A p \in Procs : snapshot[p] \subseteq Reported

\* The lock file is there exactly while its creator holds it, it holds that
\* process's pid if any, and nobody has ever seen it old or judged it stale.
OwnLock ==
    /\ \A p \in Procs : Holding(p) <=> lock.by = p
    /\ lock.pid \in {NoProc, lock.by}
    /\ lock.age = 0
    /\ \A p \in Procs : seenAge[p] = 0 /\ pc[p] # "reclaim"

\* What a holder has read is still so, as far as it matters, when it writes.
RewriteReads ==
    \A p \in Procs : pc[p] = "write" /\ job[p].op = "rewrite" =>
        Added \subseteq snapshot[p] /\ snapshot[p] \subseteq rows
ClaimReads ==
    \A p \in Procs : pc[p] = "write" /\ job[p].op = "ifAbsent" => \A r \in rows : job[r] # job[p]

AddedKept == Added \subseteq rows

PlainInv == UnlockedIsAppend /\ ReportedAtEnd /\ RowsReported /\ SnapshotsReported
LockInv == OwnLock /\ RewriteReads /\ AddedKept
ClaimInv == ClaimReads /\ OneClaim

IInv ==
    /\ PlainInv
    /\ Exclusive => LockInv
    /\ mishaps = {} => ClaimInv

\* What giving up and taking another turn do.
LEMMA AttemptEffect ==
    ASSUME TypeOK, NEW p \in Procs, NextAttempt(p) \/ GivesUp(p)
    PROVE  \/ pc' = [pc EXCEPT ![p] = "open"] /\ result' = result
           \/ pc' = [pc EXCEPT ![p] = "unlocked"] /\ result' = result /\ job[p].op = "append"
           \/ pc' = [pc EXCEPT ![p] = "done"] /\ result' = [result EXCEPT ![p] = "skipped"]
  BY DEF NextAttempt, TurnsLeft, GivesUp, FailsOpen, Goto, Returns

\* The two unconditional parts are kept by every step.
LEMMA PlainStep ==
    ASSUME TypeOK, UnlockedIsAppend, ReportedAtEnd, [Next]_vars
    PROVE  UnlockedIsAppend' /\ ReportedAtEnd'
<1>. USE DEF Goto, Returns, UnlockedIsAppend, ReportedAtEnd
<1>0. DOMAIN pc = Procs /\ DOMAIN result = Procs
  BY DEF TypeOK
<1>1. ASSUME NEW p \in Procs, OpenCreates(p) \/ OpenFindsLock(p) \/ Stamp(p) \/ Stat(p)
      PROVE  UnlockedIsAppend' /\ ReportedAtEnd'
  BY <1>0, <1>1 DEF OpenCreates, OpenFindsLock, Stamp, Stat
<1>2. ASSUME NEW p \in Procs, OpenFails(p) \/ StatFails(p) \/ Judge(p) \/ Reclaim(p)
      PROVE  UnlockedIsAppend' /\ ReportedAtEnd'
  <2>1. CASE NextAttempt(p) \/ GivesUp(p)
    <3>1. job' = job
      BY <1>2 DEF OpenFails, StatFails, Judge, Reclaim
    <3>2. pc[p] \notin {"release", "done", "crashed"}
      BY <1>2 DEF OpenFails, StatFails, Judge, Reclaim
    <3>3. CASE pc' = [pc EXCEPT ![p] = "open"] /\ result' = result
      BY <1>0, <3>1, <3>2, <3>3
    <3>4. CASE /\ pc' = [pc EXCEPT ![p] = "unlocked"] /\ result' = result
               /\ job[p].op = "append"
      BY <1>0, <3>1, <3>2, <3>4
    <3>5. CASE pc' = [pc EXCEPT ![p] = "done"] /\ result' = [result EXCEPT ![p] = "skipped"]
      BY <1>0, <3>1, <3>2, <3>5
    <3>. QED
      BY <2>1, <3>3, <3>4, <3>5, AttemptEffect
  <2>2. CASE ~(NextAttempt(p) \/ GivesUp(p))
    <3>1. Judge(p) /\ pc' = [pc EXCEPT ![p] = "reclaim"] /\ result' = result /\ job' = job
      BY <1>2, <2>2 DEF OpenFails, StatFails, Judge, Reclaim
    <3>. QED
      BY <1>0, <3>1 DEF Judge
  <2>. QED
    BY <2>1, <2>2
<1>3. ASSUME NEW p \in Procs, ReadIfAbsent(p) \/ ReadAll(p)
      PROVE  UnlockedIsAppend' /\ ReportedAtEnd'
  BY <1>0, <1>3 DEF ReadIfAbsent, ReadAll
<1>4. ASSUME NEW p \in Procs, Write(p) \/ WriteFails(p) \/ AppendUnlocked(p)
      PROVE  UnlockedIsAppend' /\ ReportedAtEnd'
  BY <1>0, <1>4 DEF Write, Written, WriteFails, AppendUnlocked
<1>5. ASSUME NEW p \in Procs, Release(p) \/ Crash(p)
      PROVE  UnlockedIsAppend' /\ ReportedAtEnd'
  BY <1>0, <1>5 DEF Release, Crash
<1>6. CASE TimePasses \/ UNCHANGED vars
  BY <1>6 DEF TimePasses, vars
<1>. QED
  BY <1>1, <1>2, <1>3, <1>4, <1>5, <1>6 DEF Next, Step

\* Every step leaves only reported rows in the file and in what was read of it.
LEMMA ReportedStep ==
    ASSUME TypeOK, PlainInv, [Next]_vars
    PROVE  RowsReported' /\ SnapshotsReported'
<1>. USE DEF Goto, Returns, PlainInv, RowsReported, SnapshotsReported, Reported
<1>0. DOMAIN pc = Procs /\ DOMAIN result = Procs /\ DOMAIN snapshot = Procs
      /\ rows \subseteq Procs /\ \A p \in Procs : snapshot[p] \subseteq Procs
  BY DEF TypeOK
<1>1. ASSUME NEW p \in Procs, OpenCreates(p) \/ OpenFindsLock(p) \/ Stamp(p) \/ Stat(p) \/ Release(p)
      PROVE  RowsReported' /\ SnapshotsReported'
  BY <1>1 DEF OpenCreates, OpenFindsLock, Stamp, Stat, Release
<1>2. ASSUME NEW p \in Procs, OpenFails(p) \/ StatFails(p) \/ Judge(p) \/ Reclaim(p)
      PROVE  RowsReported' /\ SnapshotsReported'
  <2>1. rows' = rows /\ snapshot' = snapshot /\ result[p] = "none"
    BY <1>2 DEF OpenFails, StatFails, Judge, Reclaim, ReportedAtEnd
  <2>2. \A q \in Procs \ {p} : result'[q] = result[q]
    BY <1>0, <1>2 DEF OpenFails, StatFails, Judge, Reclaim, NextAttempt, GivesUp
  <2>. QED
    BY <1>0, <2>1, <2>2
<1>3. ASSUME NEW p \in Procs, ReadIfAbsent(p) \/ ReadAll(p)
      PROVE  RowsReported' /\ SnapshotsReported'
  BY <1>0, <1>3 DEF ReadIfAbsent, ReadAll, ReportedAtEnd
<1>4. ASSUME NEW p \in Procs, Write(p) \/ WriteFails(p) \/ AppendUnlocked(p)
      PROVE  RowsReported' /\ SnapshotsReported'
  BY <1>0, <1>4 DEF Write, Written, WriteFails, AppendUnlocked, ReportedAtEnd
<1>5. ASSUME NEW p \in Procs, Crash(p) PROVE RowsReported' /\ SnapshotsReported'
  BY <1>0, <1>5 DEF Crash
<1>6. CASE TimePasses \/ UNCHANGED vars
  BY <1>6 DEF TimePasses, vars
<1>. QED
  BY <1>1, <1>2, <1>3, <1>4, <1>5, <1>6 DEF Next, Step

\* A mishap is never forgotten.
LEMMA MishapsStay == ASSUME [Next]_vars PROVE mishaps \subseteq mishaps'
<1>1. ASSUME NEW p \in Procs, Step(p) \/ Crash(p) PROVE mishaps \subseteq mishaps'
  BY <1>1 DEF Step, OpenCreates, OpenFindsLock, OpenFails, Stamp, StatFails, Stat, Judge,
     Reclaim, ReadIfAbsent, ReadAll, Write, Written, WriteFails, Release, AppendUnlocked, Crash
<1>2. CASE TimePasses \/ UNCHANGED vars
  BY <1>2 DEF TimePasses, vars
<1>. QED
  BY <1>1, <1>2 DEF Next

\* The lock file keeps one owner.
LEMMA OwnLockStep ==
    ASSUME TypeOK, OwnLock, [Next]_vars, Exclusive'
    PROVE  OwnLock'
<1>. USE NoProcAssumption DEF Goto, Holding, OwnLock, TypeOK
<1>1. ASSUME NEW p \in Procs, OpenCreates(p) PROVE OwnLock'
  BY <1>1 DEF OpenCreates, Locked
<1>2. ASSUME NEW p \in Procs, OpenFindsLock(p) \/ Stat(p) PROVE OwnLock'
  BY <1>2 DEF OpenFindsLock, Stat
<1>3. ASSUME NEW p \in Procs, Stamp(p) PROVE OwnLock'
  BY <1>3 DEF Stamp, Locked
<1>4. ASSUME NEW p \in Procs, OpenFails(p) \/ StatFails(p) PROVE OwnLock'
  BY <1>4 DEF OpenFails, StatFails, NextAttempt, TurnsLeft, GivesUp, FailsOpen
<1>5. ASSUME NEW p \in Procs, Judge(p) PROVE OwnLock'
  <2>1. ~CanLookStale(seenAge[p], lock.pid)
    BY <1>5 DEF CanLookStale, Ended
  <2>. QED
    BY <1>5, <2>1 DEF Judge, NextAttempt, TurnsLeft, GivesUp, FailsOpen
<1>6. ASSUME NEW p \in Procs, Reclaim(p) PROVE OwnLock'
  BY <1>6 DEF Reclaim
<1>7. ASSUME NEW p \in Procs, ReadIfAbsent(p) \/ ReadAll(p) \/ Write(p) \/ WriteFails(p)
      PROVE  OwnLock'
  BY <1>7 DEF ReadIfAbsent, ReadAll, Write, Written, WriteFails
<1>8. ASSUME NEW p \in Procs, Release(p) PROVE OwnLock'
  <2>1. lock' = NoLock /\ pc' = [pc EXCEPT ![p] = "done"] /\ lock.by = p /\ seenAge' = seenAge
    BY <1>8 DEF Release, Exclusive
  <2>. QED
    BY <2>1 DEF NoLock
<1>9. ASSUME NEW p \in Procs, AppendUnlocked(p) PROVE OwnLock'
  BY <1>9 DEF AppendUnlocked
<1>10. ASSUME NEW p \in Procs, Crash(p) PROVE OwnLock'
  BY <1>10 DEF Crash, Exclusive
<1>11. CASE TimePasses
  <2>1. ~\E p \in Procs : Busy(p)
    BY <1>11 DEF TimePasses, Exclusive
  <2>2. lock.by = NoProc
    BY <2>1 DEF Busy
  <2>. QED
    BY <1>11, <2>1, <2>2 DEF TimePasses, Busy, Locked
<1>12. CASE UNCHANGED vars
  BY <1>12 DEF vars
<1>. QED
  BY <1>1, <1>2, <1>3, <1>4, <1>5, <1>6, <1>7, <1>8, <1>9, <1>10, <1>11, <1>12
  DEF Next, Step


\* Most steps change neither the file nor what was added to it, and bring no
\* process to its write.
FileQuiet ==
    /\ rows' = rows /\ job' = job /\ Added' = Added
    /\ \A q \in Procs : pc'[q] = "write" => pc[q] = "write" /\ snapshot'[q] = snapshot[q]

\* The steps outside the operations are of that kind.
LEMMA QuietSteps ==
    ASSUME TypeOK, PlainInv, [Next]_vars,
           \A p \in Procs : /\ ~Stamp(p) /\ ~ReadIfAbsent(p) /\ ~ReadAll(p)
                            /\ ~Write(p) /\ ~AppendUnlocked(p)
    PROVE  FileQuiet
<1>. USE DEF Goto, Returns, FileQuiet, Added
<1>0. DOMAIN pc = Procs /\ DOMAIN result = Procs /\ DOMAIN snapshot = Procs
  BY DEF TypeOK
<1>1. ASSUME NEW p \in Procs, OpenCreates(p) \/ OpenFindsLock(p) \/ Stat(p) \/ Release(p)
      PROVE  FileQuiet
  BY <1>0, <1>1 DEF OpenCreates, OpenFindsLock, Stat, Release
<1>2. ASSUME NEW p \in Procs, OpenFails(p) \/ StatFails(p) \/ Judge(p) \/ Reclaim(p)
      PROVE  FileQuiet
  <2>1. result[p] = "none" /\ result'[p] # "added" /\ \A q \in Procs \ {p} : result'[q] = result[q]
    BY <1>0, <1>2 DEF OpenFails, StatFails, Judge, Reclaim, NextAttempt, TurnsLeft, GivesUp,
       FailsOpen, PlainInv, ReportedAtEnd
  <2>2. rows' = rows /\ job' = job /\ snapshot' = snapshot
        /\ \A q \in Procs : pc'[q] = "write" => pc[q] = "write"
    BY <1>0, <1>2 DEF OpenFails, StatFails, Judge, Reclaim, NextAttempt, TurnsLeft, GivesUp,
       FailsOpen
  <2>. QED
    BY <2>1, <2>2
<1>3. ASSUME NEW p \in Procs, WriteFails(p) \/ Crash(p) PROVE FileQuiet
  BY <1>0, <1>3 DEF WriteFails, Crash, PlainInv, ReportedAtEnd
<1>4. CASE TimePasses \/ UNCHANGED vars
  BY <1>4 DEF TimePasses, vars
<1>. QED
  BY <1>1, <1>2, <1>3, <1>4 DEF Next, Step

\* What a holder of the lock that writes knows about the others.
LEMMA WritesAlone ==
    ASSUME OwnLock, NEW p \in Procs, pc[p] = "write", NEW q \in Procs, pc[q] = "write"
    PROVE  p = q
  BY NoProcAssumption DEF OwnLock, Holding

\* Rewrites keep the rows added under the lock.
LEMMA RewriteStep ==
    ASSUME TypeOK, PlainInv, LockInv, [Next]_vars
    PROVE  RewriteReads' /\ AddedKept'
<1>. USE DEF Goto, Returns, RewriteReads, AddedKept, Added, LockInv
<1>0. DOMAIN pc = Procs /\ DOMAIN result = Procs /\ DOMAIN snapshot = Procs /\ rows \subseteq Procs
  BY DEF TypeOK
<1>1. CASE FileQuiet
  BY <1>1 DEF FileQuiet
<1>2. ASSUME NEW p \in Procs, Stamp(p) PROVE RewriteReads' /\ AddedKept'
  BY <1>0, <1>2 DEF Stamp
<1>3. ASSUME NEW p \in Procs, ReadIfAbsent(p) PROVE RewriteReads' /\ AddedKept'
  <2>1. result[p] = "none"
    BY <1>3 DEF ReadIfAbsent, PlainInv, ReportedAtEnd
  <2>2. Added' = Added
    BY <1>0, <1>3, <2>1 DEF ReadIfAbsent
  <2>. QED
    BY <1>0, <1>3, <2>2 DEF ReadIfAbsent
<1>4. ASSUME NEW p \in Procs, ReadAll(p) PROVE RewriteReads' /\ AddedKept'
  BY <1>0, <1>4 DEF ReadAll
<1>5. ASSUME NEW p \in Procs, Write(p) PROVE RewriteReads' /\ AddedKept'
  <2>1. \A q \in Procs : pc'[q] # "write"
    BY <1>0, <1>5, WritesAlone DEF Write
  <2>2. Added' = Added \cup {p} /\ Added \subseteq rows' /\ p \in rows'
    BY <1>0, <1>5 DEF Write, Written
  <2>. QED
    BY <2>1, <2>2
<1>6. ASSUME NEW p \in Procs, AppendUnlocked(p) PROVE RewriteReads' /\ AddedKept'
  <2>1. result[p] = "none"
    BY <1>6 DEF AppendUnlocked, PlainInv, ReportedAtEnd
  <2>2. Added' = Added
    BY <1>0, <1>6, <2>1 DEF AppendUnlocked
  <2>. QED
    BY <1>0, <1>6, <2>2 DEF AppendUnlocked
<1>. QED
  BY <1>1, <1>2, <1>3, <1>4, <1>5, <1>6, QuietSteps

\* A claim is made once.
LEMMA ClaimStep ==
    ASSUME TypeOK, PlainInv, LockInv, ClaimInv, [Next]_vars, mishaps' = {}
    PROVE  ClaimInv'
<1>. USE DEF Goto, Returns, ClaimInv, ClaimReads, OneClaim
<1>0. DOMAIN pc = Procs /\ rows \subseteq Procs
  BY DEF TypeOK
<1>1. CASE FileQuiet
  BY <1>0, <1>1 DEF FileQuiet
<1>2. ASSUME NEW p \in Procs, Stamp(p) \/ ReadAll(p) PROVE ClaimInv'
  BY <1>0, <1>2 DEF Stamp, ReadAll
<1>3. ASSUME NEW p \in Procs, ReadIfAbsent(p) PROVE ClaimInv'
  <2>1. mishaps' # mishaps \cup {"unreadable"}
    BY <1>3
  <2>2. pc'[p] = "write" => ~Present(p)
    BY <1>0, <1>3, <2>1 DEF ReadIfAbsent
  <2>3. pc'[p] = "write" => \A r \in rows : job[r] # job[p]
    BY <2>2 DEF Present
  <2>. QED
    BY <1>0, <1>3, <2>3 DEF ReadIfAbsent
<1>4. ASSUME NEW p \in Procs, Write(p) PROVE ClaimInv'
  <2>1. OwnLock /\ job' = job /\ pc[p] = "write"
    BY <1>4 DEF LockInv, Write
  <2>2. \A q \in Procs : pc'[q] # "write"
    BY <1>0, <1>4, <2>1, WritesAlone DEF Write
  <2>3. rows' \subseteq rows \cup {p}
    BY <1>4 DEF LockInv, RewriteReads, Write, Written
  <2>4. job[p].op = "ifAbsent" => \A q \in rows : job[q] # job[p]
    BY <2>1
  <2>5. OneClaim'
    BY <2>1, <2>3, <2>4
  <2>. QED
    BY <2>2, <2>5
<1>5. ASSUME NEW p \in Procs, AppendUnlocked(p) PROVE ClaimInv'
  <2>1. job[p].op = "append" /\ job' = job /\ rows' = rows \cup {p}
    BY <1>5 DEF AppendUnlocked, PlainInv, UnlockedIsAppend
  <2>2. \A q \in Procs : pc'[q] = "write" => pc[q] = "write"
    BY <1>0, <1>5 DEF AppendUnlocked
  <2>. QED
    BY <2>1, <2>2
<1>. QED
  BY <1>1, <1>2, <1>3, <1>4, <1>5, QuietSteps

\* The inductive invariant holds in every reachable state.
LEMMA Invariance == Spec => []IInv
<1>1. Init => IInv
  <2>. SUFFICES ASSUME Init PROVE IInv
    OBVIOUS
  <2>1. PlainInv
    BY DEF Init, PlainInv, UnlockedIsAppend, ReportedAtEnd, RowsReported, SnapshotsReported
  <2>2. LockInv
    BY NoProcAssumption DEF Init, LockInv, OwnLock, RewriteReads, AddedKept, Added, Holding, NoLock
  <2>3. ClaimInv
    BY DEF Init, ClaimInv, ClaimReads, OneClaim
  <2>. QED
    BY <2>1, <2>2, <2>3 DEF IInv
<1>2. TypeOK /\ IInv /\ [Next]_vars => IInv'
  <2>. SUFFICES ASSUME TypeOK, IInv, [Next]_vars PROVE IInv'
    OBVIOUS
  <2>1. PlainInv'
    BY PlainStep, ReportedStep DEF IInv, PlainInv
  <2>2. ASSUME Exclusive' PROVE LockInv'
    <3>1. Exclusive
      BY <2>2, MishapsStay DEF Exclusive
    <3>2. LockInv /\ PlainInv
      BY <3>1 DEF IInv
    <3>. QED
      BY <2>2, <3>2, OwnLockStep, RewriteStep DEF LockInv
  <2>3. ASSUME mishaps' = {} PROVE ClaimInv'
    <3>1. mishaps = {} /\ Exclusive
      BY <2>3, MishapsStay DEF Exclusive
    <3>2. LockInv /\ PlainInv /\ ClaimInv
      BY <3>1 DEF IInv
    <3>. QED
      BY <2>3, <3>2, ClaimStep
  <2>. QED
    BY <2>1, <2>2, <2>3 DEF IInv
<1>. QED
  BY <1>1, <1>2, TypeCorrect, PTL DEF Spec

-----------------------------------------------------------------------------
(* The properties of AtomicAppend.                                         *)

\* While nobody leaves a lock behind or is overtaken by a stale threshold, at
\* most one process holds the lock, however many contend and however often
\* they retry, and whether or not the file can be read.
THEOREM MutualExclusionAlways == Spec => []MutualExclusion
<1>1. IInv => MutualExclusion
  BY NoProcAssumption DEF IInv, LockInv, OwnLock, MutualExclusion
<1>. QED
  BY <1>1, Invariance, PTL

\* Under the same condition a row written under the lock is never lost; and
\* the file never holds a row that its writer does not report.
THEOREM LockedRowsKeptAlways == Spec => []LockedRowsKept
<1>1. IInv => LockedRowsKept
  BY DEF IInv, LockInv, PlainInv, AddedKept, RowsReported, Added, Reported, LockedRowsKept
<1>. QED
  BY <1>1, Invariance, PTL

\* Without a mishap a key is claimed once.
THEOREM ClaimedOnceAlways == Spec => []ClaimedOnce
<1>1. IInv => ClaimedOnce
  BY DEF IInv, ClaimInv, ClaimedOnce
<1>. QED
  BY <1>1, Invariance, PTL
-----------------------------------------------------------------------------
(* AtomicAppend implements AdvisoryLock.                                   *)

Holders == {p \in Procs : Holding(p)}
LockStep == [Lock!LockNext]_(Lock!lockVars)

\* Nothing makes the lock exclusive again.
LEMMA ExclusiveStays == ASSUME [Next]_vars, Exclusive' PROVE Exclusive
  BY MishapsStay DEF Exclusive

\* Whatever happens while the holders stay the same is no more than a mishap.
LEMMA SameHolders == ASSUME [Next]_vars, Holders' = Holders PROVE LockStep
<1>1. CASE Exclusive' = Exclusive
  BY <1>1 DEF LockStep, Lock!lockVars, Holders
<1>2. CASE Exclusive' # Exclusive
  <2>1. Exclusive = TRUE /\ Exclusive' = FALSE
    BY <1>2, ExclusiveStays DEF Exclusive
  <2>. QED
    BY <2>1 DEF LockStep, Lock!LockNext, Lock!Unsettle, Holders
<1>. QED
  BY <1>1, <1>2

\* Every step lets one process in, lets one out, or leaves the holders alone.
LEMMA LockMaps == ASSUME TypeOK, IInv, [Next]_vars PROVE LockStep
<1>. USE DEF Goto, Returns, Holding, Holders
<1>0. DOMAIN pc = Procs
  BY DEF TypeOK
<1>1. ASSUME NEW p \in Procs, OpenCreates(p) PROVE LockStep
  <2>1. p \notin Holders /\ Holders' = Holders \cup {p} /\ Exclusive' = Exclusive
    BY <1>0, <1>1 DEF OpenCreates, Exclusive
  <2>2. ASSUME Exclusive PROVE Holders = {}
    <3>1. OwnLock /\ lock.by = NoProc
      BY <1>1, <2>2 DEF IInv, LockInv, OpenCreates, Locked
    <3>. QED
      BY <3>1, NoProcAssumption DEF OwnLock
  <2>3. Lock!Enter(p)
    BY <2>1, <2>2 DEF Lock!Enter
  <2>. QED
    BY <2>3 DEF LockStep, Lock!LockNext
<1>2. ASSUME NEW p \in Procs, Release(p) \/ (Crash(p) /\ p \in Holders) PROVE LockStep
  <2>1. p \in Holders /\ Holders' = Holders \ {p}
    BY <1>0, <1>2 DEF Release, Crash
  <2>2. Lock!Leave(p)
    BY <2>1, ExclusiveStays DEF Lock!Leave
  <2>. QED
    BY <2>2 DEF LockStep, Lock!LockNext
<1>3. ASSUME NEW p \in Procs,
             \/ OpenFindsLock(p) \/ OpenFails(p) \/ StatFails(p) \/ Stat(p)
             \/ Judge(p) \/ Reclaim(p)
      PROVE  LockStep
  <2>1. Holders' = Holders
    BY <1>0, <1>3 DEF OpenFindsLock, OpenFails, StatFails, Stat, Judge, Reclaim, NextAttempt, TurnsLeft, GivesUp
  <2>. QED
    BY <2>1, SameHolders
<1>4. ASSUME NEW p \in Procs,
             \/ Stamp(p) \/ ReadIfAbsent(p) \/ ReadAll(p) \/ Write(p) \/ WriteFails(p)
             \/ AppendUnlocked(p) \/ (Crash(p) /\ p \notin Holders)
      PROVE  LockStep
  <2>1. Holders' = Holders
    BY <1>0, <1>4 DEF Stamp, ReadIfAbsent, ReadAll, Write, WriteFails, AppendUnlocked, Crash
  <2>. QED
    BY <2>1, SameHolders
<1>5. CASE TimePasses \/ UNCHANGED vars
  <2>1. Holders' = Holders
    BY <1>5 DEF TimePasses, vars
  <2>. QED
    BY <2>1, SameHolders
<1>. QED
  BY <1>1, <1>2, <1>3, <1>4, <1>5 DEF Next, Step

\* Until a holder leaves its lock behind or is overtaken by a stale threshold,
\* the lock file is a lock: nobody enters while somebody is inside.
THEOREM LockImplemented == Spec => ImplementsLock
<1>1. Init => Lock!LockInit
  BY DEF Init, Lock!LockInit, Holding, Exclusive
<1>2. TypeOK /\ IInv /\ [Next]_vars => [Lock!LockNext]_(Lock!lockVars)
  BY LockMaps DEF LockStep
<1>. QED
  BY <1>1, <1>2, TypeCorrect, Invariance, PTL DEF Spec, ImplementsLock, Lock!LockSpec

-----------------------------------------------------------------------------
(* AtomicAppend implements SharedFile.                                     *)

FileStep == [File!FileNext]_(File!fileVars)

Readable == "unreadable" \notin mishaps

\* Unless the file or an answer changes, nothing but a mishap has happened.
LEMMA SameFile ==
    ASSUME [Next]_vars, job' = job, rows' = rows, result' = result
    PROVE  FileStep
<1>1. (Exclusive' => Exclusive) /\ (Readable' => Readable)
  BY ExclusiveStays, MishapsStay DEF Readable
<1>. QED
  BY <1>1 DEF FileStep, File!FileNext, File!Trouble, Readable

\* A call that goes on without the lock is skipped, unless it is an append.
LEMMA GivingUpMaps ==
    ASSUME TypeOK, PlainInv, [Next]_vars, NEW p \in Procs,
           OpenFails(p) \/ StatFails(p) \/ Judge(p) \/ Reclaim(p)
    PROVE  FileStep
<1>1. UNCHANGED <<job, rows, mishaps>> /\ result[p] = "none"
  BY DEF OpenFails, StatFails, Judge, Reclaim, PlainInv, ReportedAtEnd
<1>2. result' = result \/ result' = [result EXCEPT ![p] = "skipped"]
  BY DEF OpenFails, StatFails, Judge, Reclaim, NextAttempt, GivesUp, Returns
<1>3. CASE result' = result
  BY <1>1, <1>3, SameFile
<1>4. CASE result' = [result EXCEPT ![p] = "skipped"]
  <2>1. File!Skip(p)
    BY <1>1, <1>4 DEF File!Skip, File!Answers, Exclusive
  <2>. QED
    BY <2>1 DEF FileStep, File!FileNext
<1>. QED
  BY <1>2, <1>3, <1>4

\* The step that writes is the step in which an operation happens.
LEMMA WriteMaps ==
    ASSUME TypeOK, IInv, NEW p \in Procs, Write(p)
    PROVE  FileStep
<1>1. /\ UNCHANGED <<job, mishaps>> /\ pc[p] = "write"
      /\ rows' = Written(p) /\ result' = [result EXCEPT ![p] = "added"]
  BY DEF Write, Returns
<1>2. File!Answers(p, "added")
  BY <1>1 DEF File!Answers, Exclusive, IInv, PlainInv, ReportedAtEnd
<1>3. CASE job[p].op = "append"
  <2>1. File!Append(p)
    BY <1>1, <1>2, <1>3 DEF File!Append, Written
  <2>. QED
    BY <2>1 DEF FileStep, File!FileNext
<1>4. CASE job[p].op = "ifAbsent"
  <2>1. ASSUME Exclusive, Readable PROVE \A r \in rows : job[r] # job[p]
    <3>1. mishaps = {}
      BY <2>1 DEF Exclusive, Readable, TypeOK, Mishaps
    <3>. QED
      BY <1>1, <1>4, <3>1 DEF IInv, ClaimInv, ClaimReads
  <2>2. File!Claim(p)
    BY <1>1, <1>2, <1>4, <2>1 DEF File!Claim, Written, Readable
  <2>. QED
    BY <2>2 DEF FileStep, File!FileNext
<1>5. CASE job[p].op = "rewrite"
  <2>1. snapshot[p] \subseteq File!AnsweredWith("added") \cup File!AnsweredWith("unlocked")
    BY DEF IInv, PlainInv, SnapshotsReported, Reported, File!AnsweredWith
  <2>2. rows' = snapshot[p] \cup {p}
    BY <1>1, <1>5 DEF Written
  <2>3. ASSUME Exclusive
        PROVE  snapshot[p] \subseteq rows /\ rows \ snapshot[p] \subseteq File!AnsweredWith("unlocked")
    BY <1>1, <1>5, <2>3 DEF IInv, LockInv, RewriteReads, Added, PlainInv, RowsReported, Reported,
       File!AnsweredWith
  <2>4. File!Rewrite(p)
    BY <1>2, <1>5, <2>1, <2>2, <2>3 DEF File!Rewrite
  <2>. QED
    BY <2>4 DEF FileStep, File!FileNext
<1>. QED
  BY <1>3, <1>4, <1>5 DEF TypeOK, Ops

\* Every step is an operation of the file, an answer, a mishap, or nothing.
LEMMA FileMaps == ASSUME TypeOK, IInv, [Next]_vars PROVE FileStep
<1>1. ASSUME NEW p \in Procs,
             OpenCreates(p) \/ OpenFindsLock(p) \/ Stamp(p) \/ Stat(p) \/ ReadAll(p)
             \/ Release(p) \/ Crash(p)
      PROVE  FileStep
  <2>1. job' = job /\ rows' = rows /\ result' = result
    BY <1>1 DEF OpenCreates, OpenFindsLock, Stamp, Stat, ReadAll, Release, Crash
  <2>. QED
    BY <2>1, SameFile
<1>2. ASSUME NEW p \in Procs, OpenFails(p) \/ StatFails(p) \/ Judge(p) \/ Reclaim(p)
      PROVE  FileStep
  BY <1>2, GivingUpMaps DEF IInv
<1>3. ASSUME NEW p \in Procs, ReadIfAbsent(p) PROVE FileStep
  <2>1. UNCHANGED <<job, rows>> /\ job[p].op = "ifAbsent" /\ result[p] = "none"
    BY <1>3 DEF ReadIfAbsent, IInv, PlainInv, ReportedAtEnd
  <2>2. CASE result' = result
    BY <2>1, <2>2, SameFile
  <2>3. CASE Present(p) /\ result' = [result EXCEPT ![p] = "present"] /\ UNCHANGED mishaps
    <3>1. File!Refuse(p)
      BY <2>1, <2>3 DEF File!Refuse, File!Answers, Present, Exclusive
    <3>. QED
      BY <3>1 DEF FileStep, File!FileNext
  <2>4. CASE result' = [result EXCEPT ![p] = "skipped"] /\ UNCHANGED mishaps
    <3>1. File!Skip(p)
      BY <2>1, <2>4 DEF File!Skip, File!Answers, Exclusive
    <3>. QED
      BY <3>1 DEF FileStep, File!FileNext
  <2>. QED
    BY <1>3, <2>2, <2>3, <2>4 DEF ReadIfAbsent, Returns
<1>4. ASSUME NEW p \in Procs, WriteFails(p) PROVE FileStep
  <2>1. File!Skip(p)
    BY <1>4 DEF WriteFails, Returns, IInv, PlainInv, ReportedAtEnd, File!Skip, File!Answers, Exclusive
  <2>. QED
    BY <2>1 DEF FileStep, File!FileNext
<1>5. ASSUME NEW p \in Procs, AppendUnlocked(p) PROVE FileStep
  <2>1. File!AppendUnlocked(p)
    BY <1>5 DEF AppendUnlocked, Returns, IInv, PlainInv, UnlockedIsAppend, ReportedAtEnd,
       File!AppendUnlocked, File!Answers, Exclusive
  <2>. QED
    BY <2>1 DEF FileStep, File!FileNext
<1>6. CASE TimePasses \/ UNCHANGED vars
  <2>1. job' = job /\ rows' = rows /\ result' = result
    BY <1>6 DEF TimePasses, vars
  <2>. QED
    BY <2>1, SameFile
<1>. QED
  BY <1>1, <1>2, <1>3, <1>4, <1>5, <1>6, WriteMaps DEF Next, Step

\* To its callers the module is a file on which every call acts in one step and
\* is answered once.
THEOREM FileImplemented == Spec => ImplementsFile
<1>1. Init => File!FileInit
  BY DEF Init, Ops, File!FileInit, Exclusive
<1>2. TypeOK /\ IInv /\ [Next]_vars => [File!FileNext]_(File!fileVars)
  BY FileMaps DEF FileStep
<1>. QED
  BY <1>1, <1>2, TypeCorrect, Invariance, PTL DEF Spec, ImplementsFile, File!FileSpec

-----------------------------------------------------------------------------
(* The two abstract specifications are enough to know what the callers     *)
(* are told.                                                               *)

\* An advisory lock excludes.
THEOREM LockSuffices == ImplementsLock => []MutualExclusion
<1>1. Lock!LockInit => MutualExclusion
  BY DEF Lock!LockInit, MutualExclusion
<1>2. MutualExclusion /\ [Lock!LockNext]_(Lock!lockVars) => MutualExclusion'
  <2>. SUFFICES ASSUME MutualExclusion, LockStep, Exclusive' PROVE \A p, q \in Holders' : p = q
    BY DEF LockStep, MutualExclusion, Holders
  <2>1. Exclusive => \A p, q \in Holders : p = q
    BY DEF MutualExclusion, Holders
  <2>2. ASSUME NEW p \in Procs, Lock!Enter(p) PROVE \A q, r \in Holders' : q = r
    <3>1. Exclusive /\ Holders = {} /\ Holders' = Holders \cup {p}
      BY <2>2 DEF Lock!Enter, Holders
    <3>. QED
      BY <3>1
  <2>3. ASSUME NEW p \in Procs, Lock!Leave(p) PROVE \A q, r \in Holders' : q = r
    <3>1. Exclusive /\ Holders' = Holders \ {p}
      BY <2>3 DEF Lock!Leave, Holders
    <3>. QED
      BY <2>1, <3>1
  <2>4. CASE UNCHANGED Lock!lockVars
    <3>1. Exclusive /\ Holders' = Holders
      BY <2>4 DEF Lock!lockVars, Holders
    <3>. QED
      BY <2>1, <3>1
  <2>5. ~Lock!Unsettle
    BY DEF Lock!Unsettle
  <2>. QED
    BY <2>2, <2>3, <2>4, <2>5 DEF LockStep, Lock!LockNext
<1>. QED
  BY <1>1, <1>2, PTL DEF ImplementsLock, Lock!LockSpec

\* What a shared file keeps.
SharedInv ==
    /\ job \in [Procs -> [op : {"append", "ifAbsent", "rewrite"}, key : Keys]]
    /\ result \in [Procs -> {"none", "added", "unlocked", "present", "skipped"}]
    /\ Exclusive => Added \subseteq rows
    /\ rows \subseteq {p \in Procs : result[p] \in {"added", "unlocked"}}
    /\ Exclusive /\ Readable => OneClaim

\* What an answer leaves as it was.
LEMMA SharedAnswer ==
    ASSUME NEW p \in Procs, NEW what, File!Answers(p, what)
    PROVE  /\ job' = job /\ result[p] = "none" /\ result' = [result EXCEPT ![p] = what]
           /\ (Exclusive' => Exclusive) /\ (Readable' => Readable)
<1>1. job' = job /\ result[p] = "none" /\ result' = [result EXCEPT ![p] = what]
  BY DEF File!Answers
<1>2. Exclusive' => Exclusive
  BY DEF File!Answers
<1>3. Readable' => Readable
  BY DEF File!Answers, Readable
<1>. QED
  BY <1>1, <1>2, <1>3

LEMMA SharedStep == ASSUME SharedInv, FileStep PROVE SharedInv'
<1>. USE DEF SharedInv, Added, OneClaim
<1>1. CASE File!Trouble \/ UNCHANGED File!fileVars
  <2>1. job' = job /\ rows' = rows /\ result' = result
    BY <1>1 DEF File!Trouble, File!fileVars
  <2>2. (Exclusive' => Exclusive) /\ (Readable' => Readable)
    BY <1>1 DEF File!Trouble, File!fileVars, Readable
  <2>. QED
    BY <2>1, <2>2
<1>2. ASSUME NEW p \in Procs, File!Append(p) \/ File!AppendUnlocked(p) PROVE SharedInv'
  <2>1. PICK what \in {"added", "unlocked"} : File!Answers(p, what)
    BY <1>2 DEF File!Append, File!AppendUnlocked
  <2>2. job[p].op = "append" /\ rows' = rows \cup {p}
    BY <1>2 DEF File!Append, File!AppendUnlocked
  <2>. QED
    BY <2>1, <2>2, SharedAnswer
<1>3. ASSUME NEW p \in Procs, File!Claim(p) PROVE SharedInv'
  <2>1. File!Answers(p, "added") /\ rows' = rows \cup {p}
    BY <1>3 DEF File!Claim
  <2>2. Exclusive /\ Readable => \A r \in rows : job[r] # job[p]
    BY <1>3 DEF File!Claim, Readable
  <2>. QED
    BY <2>1, <2>2, SharedAnswer
<1>4. ASSUME NEW p \in Procs, File!Rewrite(p) PROVE SharedInv'
  <2>1. File!Answers(p, "added") /\ job[p].op = "rewrite"
    BY <1>4 DEF File!Rewrite
  <2>2. PICK kept \in SUBSET (File!AnsweredWith("added") \cup File!AnsweredWith("unlocked")) :
           /\ Exclusive => kept \subseteq rows /\ rows \ kept \subseteq File!AnsweredWith("unlocked")
           /\ rows' = kept \cup {p}
    BY <1>4 DEF File!Rewrite
  <2>. QED
    BY <2>1, <2>2, SharedAnswer DEF File!AnsweredWith
<1>5. ASSUME NEW p \in Procs, File!Refuse(p) \/ File!Skip(p) PROVE SharedInv'
  <2>1. PICK what \in {"present", "skipped"} : File!Answers(p, what)
    BY <1>5 DEF File!Refuse, File!Skip
  <2>2. rows' = rows
    BY <1>5 DEF File!Refuse, File!Skip
  <2>. QED
    BY <2>1, <2>2, SharedAnswer
<1>. QED
  BY <1>1, <1>2, <1>3, <1>4, <1>5 DEF FileStep, File!FileNext

\* From the steps its callers see alone it follows that a shared file keeps the
\* rows written under the lock, has none that nobody reported, and has one row of
\* each claim.
THEOREM FileSuffices == ImplementsFile => [](LockedRowsKept /\ ClaimedOnce)
<1>1. File!FileInit => SharedInv
  BY DEF File!FileInit, SharedInv, Added, OneClaim
<1>2. SharedInv /\ [File!FileNext]_(File!fileVars) => SharedInv'
  BY SharedStep DEF FileStep
<1>3. SharedInv => LockedRowsKept /\ ClaimedOnce
  BY DEF SharedInv, LockedRowsKept, ClaimedOnce, Added, Exclusive, Readable
<1>. QED
  BY <1>1, <1>2, <1>3, PTL DEF ImplementsFile, File!FileSpec
=============================================================================
