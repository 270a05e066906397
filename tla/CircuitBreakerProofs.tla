------------------------ MODULE CircuitBreakerProofs ------------------------
(***************************************************************************)
(* Theorems about CircuitBreaker, for every set of calls, every limit and  *)
(* every number of windows and faults.                                     *)
(***************************************************************************)
EXTENDS CircuitBreaker, FiniteSetTheorems, TLAPS

\* A call about to write has a state to write, and has decided.
StateInv ==
    \A c \in Callers : pc[c] \in {"write", "rename"} =>
        state[c] \in Counters /\ verdict[c] \in {"allowed", "tripped"}

\* While nothing has gone wrong, whoever works with a lock file has created the
\* one that is there, and nobody takes it for stale.
CalmInv ==
    ~shaken =>
        /\ \A p \in Procs : pc[p] \in Probing \cup Inside => lock # Absent /\ lock.by = p
        /\ \A p \in Procs : pc[p] \notin {"dead", "probeReclaim", "reclaim"}
        /\ lock # Absent =>
              /\ ~lock.old /\ lock.pid \in {Nobody, lock.by}
              /\ pc[lock.by] \in Probing \cup Inside

\* Calls that the admissions A have in window w, and: at most n of them, and none
\* in a later window.
CallsIn(A, w) == {c \in Callers : <<c, w>> \in A}
Covers(A, w, n) == (\A a \in A : a[2] <= w) /\ Cardinality(CallsIn(A, w)) <= n

\* While nothing has gone wrong, the counter, or the state about to replace it,
\* covers what was admitted.
CountInv ==
    ~shaken =>
        /\ \A w \in Windows : Cardinality(CallsIn(admitted, w)) <= Max
        /\ counter = Absent => admitted = {}
        /\ counter \in Counters =>
              counter.window <= window /\ Covers(admitted, counter.window, counter.count)
        /\ \A c \in Callers : pc[c] \in {"write", "rename"} =>
              /\ state[c].window <= window
              /\ verdict[c] = "allowed" =>
                    state[c].count > 0 /\ Covers(admitted, state[c].window, state[c].count - 1)
              /\ verdict[c] = "tripped" => Covers(admitted, state[c].window, state[c].count)
        /\ \A c \in Callers : pc[c] = "rename" => tmp = state[c]

\* The sentinel stands from before a trip is reported until a reset.
TripInv ==
    /\ barred # {} => sentinel # Absent
    /\ \A c \in barred : pc[c] \in {"start", "done"} /\ \A w \in Windows : <<c, w>> \notin admitted
    /\ \A c \in Callers : pc[c] = "start" => \A w \in Windows : <<c, w>> \notin admitted
    /\ \A c \in Callers \ lifted :
          pc[c] = "release" /\ verdict[c] \in Recorded => sentinel # Absent

\* Where a call that has decided nothing, something, or everything can be; that
\* only a call that has written can be admitted, and only a damaged counter is
\* corrupt.
FateInv ==
    /\ \A c \in Callers :
          /\ pc[c] \notin Deciding \cup {"done"} => verdict[c] = "none"
          /\ pc[c] = "sentinel" => verdict[c] \in {"tripped", "counter_corrupt"}
          /\ pc[c] \in {"release", "done"} => verdict[c] # "none"
          /\ pc[c] \notin {"release", "done", "dead"} => \A w : <<c, w>> \notin admitted
          /\ c \in lifted => pc[c] \in Deciding
    /\ counter = Corrupt \/ shaken => faults # 0

\* As long as nothing has failed or been damaged, the counter, and the state
\* about to replace it, count no more than what was admitted.
Reaches(A, w, n) == Cardinality(CallsIn(A, w)) >= n
ExactInv ==
    faults = 0 =>
        /\ counter \in Counters => Reaches(admitted, counter.window, counter.count)
        /\ \A c \in Callers : pc[c] \in {"write", "rename"} =>
              /\ verdict[c] = "allowed" => Reaches(admitted, state[c].window, state[c].count - 1)
              /\ verdict[c] = "tripped" => Reaches(admitted, state[c].window, state[c].count)

\* As long as nothing has failed, a sentinel is there because of a trip that is
\* about to be reported, or was reported before whoever still comes.
RecordInv ==
    faults = 0 =>
        /\ lifted = {}
        /\ sentinel # Absent => Standing # {} \/ Waiting \subseteq barred

BreakerInv ==
    /\ BreakerTypeOK /\ StateInv /\ NoStrayLock /\ CalmInv /\ CountInv /\ TripInv
    /\ FateInv /\ ExactInv /\ RecordInv

Acts ==
    \/ \E p \in Procs : ProbeOpens(p)
    \/ \E p \in Procs : ProbeLooks(p)
    \/ \E p \in Procs : ProbeReclaims(p)
    \/ \E p \in Procs : ProbeStamps(p)
    \/ \E p \in Procs : ProbeUnlinks(p)
    \/ \E p \in Procs : GivesUp(p)
    \/ \E p \in Procs : TakesLock(p)
    \/ \E p \in Procs : FindsOld(p)
    \/ \E p \in Procs : RemovesOld(p)
    \/ \E p \in Procs : Signs(p)
    \/ \E p \in Procs : Releases(p)
    \/ \E p \in Procs : Kill(p)
    \/ \E c \in Callers : FastPath(c)
    \/ \E c \in Callers : ReadCounter(c)
    \/ \E c \in Callers : WriteTmp(c)
    \/ \E c \in Callers : RenameTmp(c)
    \/ \E c \in Callers : WriteSentinel(c)
    \/ \E r \in Resetters : StartReset(r)
    \/ \E r \in Resetters : ClearCounter(r)
    \/ \E r \in Resetters : ClearSentinel(r)
    \/ WindowEnds
    \/ LockGetsOld
    \/ CounterDamaged
    \/ UNCHANGED vars

LEMMA Steps == ASSUME [Next]_vars PROVE Acts
  BY DEF Next, LockStep, CallerStep, ResetterStep, Acts

\* What the window roll returns: a state of the current window, with nothing
\* counted unless the counter was of this window.
LEMMA RolledState ==
    ASSUME BreakerTypeOK, counter # Corrupt
    PROVE  /\ Rolled(counter) \in Counters
           /\ Rolled(counter).window = window
           /\ \/ counter \in Counters /\ counter.window = window /\ Rolled(counter) = counter
              \/ /\ Rolled(counter) = [count |-> 0, window |-> window]
                 /\ counter = Absent \/ (counter \in Counters /\ counter.window # window)
<1>. USE FilesAssumption, LimitsAssumption DEF BreakerTypeOK, Counters, Windows
<1>1. Fresh \in Counters /\ Fresh = [count |-> 0, window |-> window]
  BY DEF Fresh
<1>2. CASE counter = Absent
  BY <1>1, <1>2 DEF Rolled
<1>3. CASE counter # Absent /\ counter.window # window
  BY <1>1, <1>3 DEF Rolled
<1>4. CASE counter # Absent /\ counter.window = window
  BY <1>4 DEF Rolled
<1>. QED
  BY <1>2, <1>3, <1>4

\* What the decision of a call is made of.
LEMMA Decision ==
    ASSUME BreakerTypeOK, NEW c \in Callers, ReadCounter(c)
    PROVE  /\ \A x \in Procs \ {c} : pc'[x] = pc[x]
           /\ \A x \in Callers \ {c} : state'[x] = state[x] /\ verdict'[x] = verdict[x]
           /\ pc[c] = "read"
           /\ \/ /\ pc'[c] = "sentinel" /\ counter = Corrupt /\ verdict'[c] = "counter_corrupt"
              \/ /\ pc'[c] = "write" /\ counter # Corrupt /\ verdict'[c] = "tripped"
                 /\ state'[c] = Rolled(counter) /\ Rolled(counter).count >= Max
              \/ /\ pc'[c] = "write" /\ counter # Corrupt /\ verdict'[c] = "allowed"
                 /\ state'[c] = [count |-> Rolled(counter).count + 1,
                                 window |-> Rolled(counter).window]
                 /\ ~(Rolled(counter).count >= Max)
  BY DEF ReadCounter, BreakerTypeOK, Goto, Answer, Procs, Spent

\* A lock file just written.
LEMMA NewLock ==
    ASSUME NEW p \in Procs, NEW x \in Procs \cup {Nobody}, NEW l, l = [by |-> p, pid |-> x, old |-> FALSE]
    PROVE  l \in Locks /\ l # Absent /\ l.by = p /\ l.pid = x /\ ~l.old
<1>1. l \in Locks
  BY DEF Locks
<1>2. l.by = p /\ l.pid = x
  OBVIOUS
<1>3. l.old = FALSE
  OBVIOUS
<1>4. ~l.old
  BY <1>3, Zenon
<1>. QED
  BY <1>1, <1>2, <1>4, FilesAssumption, Zenon

\* A process that signs its lock file, if it still is its own.
LEMMA Signing ==
    ASSUME BreakerTypeOK, NEW p \in Procs, Signs(p)
    PROVE  \/ lock' = lock
           \/ /\ lock # Absent /\ lock.by = p
              /\ lock' = [by |-> p, pid |-> p, old |-> FALSE]
<1>1. CASE lock # Absent /\ lock.by = p /\ lock' = [lock EXCEPT !.pid = p, !.old = FALSE]
  <2>1. lock \in Locks
    BY <1>1 DEF BreakerTypeOK
  <2>. QED
    BY <1>1, <2>1 DEF Locks
<1>. QED
  BY <1>1 DEF Signs

\* A process that removes its lock file, or fails to.
LEMMA Unlinking ==
    ASSUME BreakerTypeOK, NEW p \in Procs, Unlinks(p)
    PROVE  /\ lock' \in Locks \cup {Absent} /\ faults' \in 0 .. MaxFaults
           /\ shaken' \in BOOLEAN /\ left' \subseteq Procs
           /\ shaken => shaken'
<1>1. CASE lock' = Absent /\ UNCHANGED <<faults, shaken, left>>
  <2>1. shaken' \in BOOLEAN /\ (shaken => shaken')
    BY <1>1, Zenon DEF BreakerTypeOK
  <2>. QED
    BY <1>1, <2>1 DEF BreakerTypeOK
<1>2. CASE UNCHANGED lock /\ Fault /\ shaken' = TRUE /\ left' = left \cup {p}
  <2>1. shaken' \in BOOLEAN /\ (shaken => shaken')
    BY <1>2, Zenon
  <2>. QED
    BY <1>2, <2>1, LimitsAssumption DEF BreakerTypeOK, Fault
<1>. QED
  BY <1>1, <1>2 DEF Unlinks, Released

\* The calls of a window are finitely many.
LEMMA CallsFinite ==
    ASSUME NEW A, NEW w
    PROVE  IsFiniteSet(CallsIn(A, w)) /\ Cardinality(CallsIn(A, w)) \in Nat
<1>1. CallsIn(A, w) \subseteq Callers
  BY DEF CallsIn
<1>. QED
  BY <1>1, PartiesAssumption, FS_Subset, FS_CardinalityType

\* Nothing is covered by any count.
LEMMA CoversNothing == ASSUME NEW w, NEW n \in Nat PROVE Covers({}, w, n)
<1>1. CallsIn({}, w) = {}
  BY DEF CallsIn
<1>. QED
  BY <1>1, FS_EmptySet DEF Covers

\* In a window after the last admission no call is counted.
LEMMA CoversLater ==
    ASSUME NEW A \in SUBSET (Callers \X Windows), NEW v \in Windows, NEW w \in Windows,
           NEW n, NEW m \in Nat, Covers(A, v, n), v < w
    PROVE  Covers(A, w, m)
<1>. USE LimitsAssumption DEF Windows
<1>1. \A a \in A : a[2] <= v /\ a[2] \in Windows
  BY DEF Covers
<1>2. \A a \in A : a[2] <= w /\ a[2] # w
  BY <1>1
<1>3. CallsIn(A, w) = {}
  BY <1>2 DEF CallsIn
<1>. QED
  BY <1>2, <1>3, FS_EmptySet DEF Covers

\* One more call is covered by a count that is one greater.
LEMMA CoversOneMore ==
    ASSUME NEW A \in SUBSET (Callers \X Windows), NEW w \in Windows, NEW n \in Nat, n > 0,
           Covers(A, w, n - 1), NEW c \in Callers
    PROVE  Covers(A \cup {<<c, w>>}, w, n)
<1>1. CallsIn(A \cup {<<c, w>>}, w) = CallsIn(A, w) \cup {c}
  BY DEF CallsIn
<1>2. Cardinality(CallsIn(A, w) \cup {c}) <= Cardinality(CallsIn(A, w)) + 1
  <2>1. IsFiniteSet(CallsIn(A, w)) /\ Cardinality(CallsIn(A, w)) \in Nat
    BY CallsFinite
  <2>2. Cardinality(CallsIn(A, w) \cup {c}) =
           IF c \in CallsIn(A, w) THEN Cardinality(CallsIn(A, w)) ELSE Cardinality(CallsIn(A, w)) + 1
    BY <2>1, FS_AddElement
  <2>. QED
    BY <2>1, <2>2
<1>3. Cardinality(CallsIn(A, w)) <= n - 1
  BY DEF Covers
<1>4. Cardinality(CallsIn(A, w) \cup {c}) <= n
  <2>. DEFINE x == Cardinality(CallsIn(A, w) \cup {c})
              y == Cardinality(CallsIn(A, w))
  <2>1. x \in Nat /\ y \in Nat
    BY <1>1, CallsFinite
  <2>2. x <= y + 1 /\ y <= n - 1
    BY <1>2, <1>3
  <2>. HIDE DEF x, y
  <2>3. x <= n
    BY <2>1, <2>2
  <2>. QED
    BY <2>3 DEF x
<1>5. \A a \in A \cup {<<c, w>>} : a[2] <= w
  BY LimitsAssumption DEF Covers, Windows
<1>. QED
  BY <1>1, <1>4, <1>5 DEF Covers

\* The state a call starts from covers what was admitted.
LEMMA RolledCovers ==
    ASSUME BreakerTypeOK, CountInv, ~shaken, counter # Corrupt
    PROVE  Covers(admitted, Rolled(counter).window, Rolled(counter).count)
<1>. USE DEF BreakerTypeOK
<1>1. CASE counter \in Counters /\ counter.window = window /\ Rolled(counter) = counter
  BY <1>1 DEF CountInv
<1>2. CASE Rolled(counter) = [count |-> 0, window |-> window] /\ counter = Absent
  <2>1. admitted = {}
    BY <1>2 DEF CountInv
  <2>. QED
    BY <1>2, <2>1, CoversNothing
<1>3. CASE /\ Rolled(counter) = [count |-> 0, window |-> window]
           /\ counter \in Counters /\ counter.window # window
  <2>1. counter.window \in Windows /\ counter.window < window
    BY <1>3, LimitsAssumption DEF CountInv, Counters, Windows
  <2>2. Covers(admitted, counter.window, counter.count)
    BY <1>3 DEF CountInv
  <2>3. Covers(admitted, window, 0)
    BY <2>1, <2>2, CoversLater
  <2>. QED
    BY <1>3, <2>3
<1>. QED
  BY RolledState, <1>1, <1>2, <1>3

\* Nothing gets calm again.
LEMMA FaultsStay == ASSUME BreakerTypeOK, Acts, faults # 0 PROVE faults' # 0
<1>1. faults' = faults \/ faults' = faults + 1
  BY DEF Acts, ProbeOpens, ProbeLooks, ProbeReclaims, ProbeStamps, ProbeUnlinks, GivesUp,
     TakesLock, FindsOld, RemovesOld, Signs, Releases, Kill, FastPath, ReadCounter, WriteTmp,
     RenameTmp, WriteSentinel, StartReset, ClearCounter, ClearSentinel, WindowEnds, LockGetsOld,
     CounterDamaged, Unlinks, vars, Fault
<1>2. faults \in Nat
  BY LimitsAssumption DEF BreakerTypeOK
<1>. QED
  BY <1>1, <1>2

\* Every step keeps the types.
LEMMA TypeStep == ASSUME BreakerTypeOK, StateInv, Acts PROVE BreakerTypeOK'
<1>. USE PartiesAssumption, FilesAssumption, LimitsAssumption DEF BreakerTypeOK, StateInv, Probing, Inside, Procs, Labels, Locks, Verdicts
<1>1. ASSUME NEW p \in Procs, ProbeOpens(p) PROVE BreakerTypeOK'
  BY <1>1 DEF ProbeOpens, Released, Goto, Answer, Fault, files, history
<1>2. ASSUME NEW p \in Procs, ProbeLooks(p) PROVE BreakerTypeOK'
  BY <1>2 DEF ProbeLooks, Released, Goto, Answer, Fault, files, history
<1>3. ASSUME NEW p \in Procs, ProbeReclaims(p) PROVE BreakerTypeOK'
  BY <1>3 DEF ProbeReclaims, Released, Goto, Answer, Fault, files, history
<1>4. ASSUME NEW p \in Procs, ProbeStamps(p) PROVE BreakerTypeOK'
  BY <1>4 DEF ProbeStamps, Released, Goto, Answer, Fault, files, history
<1>5. ASSUME NEW p \in Procs, ProbeUnlinks(p) PROVE BreakerTypeOK'
  BY <1>5, Unlinking DEF ProbeUnlinks, Goto, files
<1>6. ASSUME NEW p \in Procs, GivesUp(p) PROVE BreakerTypeOK'
  BY <1>6 DEF GivesUp, Released, Goto, Answer, Fault, files, history
<1>7. ASSUME NEW p \in Procs, TakesLock(p) PROVE BreakerTypeOK'
  BY <1>7 DEF TakesLock, Released, Goto, Answer, Fault, files, history
<1>8. ASSUME NEW p \in Procs, FindsOld(p) PROVE BreakerTypeOK'
  BY <1>8 DEF FindsOld, Released, Goto, Answer, Fault, files, history
<1>9. ASSUME NEW p \in Procs, RemovesOld(p) PROVE BreakerTypeOK'
  BY <1>9 DEF RemovesOld, Released, Goto, Answer, Fault, files, history
<1>10. ASSUME NEW p \in Procs, Signs(p) PROVE BreakerTypeOK'
  <2>1. pc' \in [Procs -> Labels] /\ verdict' \in [Callers -> Verdicts]
    BY <1>10 DEF Signs, Goto, Answer
  <2>2. lock' \in Locks \cup {Absent}
    BY <1>10, Signing, NewLock
  <2>3. faults' \in 0 .. MaxFaults
    BY <1>10 DEF Signs, Fault
  <2>. QED
    BY <1>10, <2>1, <2>2, <2>3 DEF Signs, files, history
<1>11. ASSUME NEW p \in Procs, Releases(p) PROVE BreakerTypeOK'
  BY <1>11, Unlinking DEF Releases, Waiting, Goto, files
<1>12. ASSUME NEW p \in Procs, Kill(p) PROVE BreakerTypeOK'
  BY <1>12 DEF Kill, Released, Goto, Answer, Fault, files, history
<1>13. ASSUME NEW c \in Callers, FastPath(c) PROVE BreakerTypeOK'
  BY <1>13 DEF FastPath, Waiting, Released, Goto, Answer, Fault, files, history
<1>14. ASSUME NEW c \in Callers, ReadCounter(c) PROVE BreakerTypeOK'
  <2>1. counter # Corrupt =>
           /\ Rolled(counter) \in Counters
           /\ ~(Rolled(counter).count >= Max) =>
                 [count |-> Rolled(counter).count + 1, window |-> Rolled(counter).window] \in Counters
    BY RolledState DEF Counters
  <2>2. state' \in [Callers -> Counters \cup {Absent}]
    BY <1>14, <2>1 DEF ReadCounter, Spent
  <2>3. verdict' \in [Callers -> Verdicts]
    BY <1>14 DEF ReadCounter, Answer
  <2>4. pc' \in [Procs -> Labels]
    BY <1>14 DEF ReadCounter, Goto
  <2>. QED
    BY <1>14, <2>2, <2>3, <2>4 DEF ReadCounter, files, history
<1>15. ASSUME NEW c \in Callers, WriteTmp(c) PROVE BreakerTypeOK'
  BY <1>15 DEF WriteTmp, Released, Goto, Answer, Fault, files, history
<1>16. ASSUME NEW c \in Callers, RenameTmp(c) PROVE BreakerTypeOK'
  <2>1. pc[c] = "rename" /\ state[c] \in Counters /\ state[c].window \in Windows
    BY <1>16 DEF RenameTmp, Goto, Counters
  <2>2. admitted' \subseteq Callers \X Windows
    BY <1>16, <2>1 DEF RenameTmp
  <2>3. pc' \in [Procs -> Labels]
    BY <1>16 DEF RenameTmp, Goto
  <2>4. verdict' \in [Callers -> Verdicts]
    BY <1>16 DEF RenameTmp, Answer
  <2>5. /\ counter' \in Counters \cup {Absent, Corrupt} /\ tmp' \in Counters \cup {Absent}
        /\ state' \in [Callers -> Counters \cup {Absent}]
    BY <1>16 DEF RenameTmp
  <2>6. faults' \in 0 .. MaxFaults
    BY <1>16 DEF RenameTmp, Fault
  <2>. QED
    BY <1>16, <2>2, <2>3, <2>4, <2>5, <2>6 DEF RenameTmp
<1>17. ASSUME NEW c \in Callers, WriteSentinel(c) PROVE BreakerTypeOK'
  BY <1>17 DEF WriteSentinel, Released, Goto, Answer, Fault, files, history
<1>18. ASSUME NEW r \in Resetters, StartReset(r) PROVE BreakerTypeOK'
  BY <1>18 DEF StartReset, Released, Goto, Answer, Fault, files, history
<1>19. ASSUME NEW r \in Resetters, ClearCounter(r) PROVE BreakerTypeOK'
  BY <1>19 DEF ClearCounter, Released, Goto, Answer, Fault, files, history
<1>20. ASSUME NEW r \in Resetters, ClearSentinel(r) PROVE BreakerTypeOK'
  BY <1>20 DEF ClearSentinel, Released, Goto, Answer, Fault, files, history
<1>21. ASSUME WindowEnds PROVE BreakerTypeOK'
  <2>1. window' \in Windows
    BY <1>21 DEF WindowEnds, Windows
  <2>. QED
    BY <1>21, <2>1 DEF WindowEnds, files, history
<1>22. ASSUME LockGetsOld PROVE BreakerTypeOK'
  <2>1. lock' \in Locks
    BY <1>22 DEF LockGetsOld
  <2>2. shaken' \in BOOLEAN
    BY <1>22, Zenon DEF LockGetsOld
  <2>3. faults' \in 0 .. MaxFaults
    BY <1>22 DEF LockGetsOld, Fault
  <2>. QED
    BY <1>22, <2>1, <2>2, <2>3 DEF LockGetsOld, files
<1>23. ASSUME CounterDamaged PROVE BreakerTypeOK'
  BY <1>23 DEF CounterDamaged, Released, Goto, Answer, Fault, files, history
<1>24. ASSUME UNCHANGED vars PROVE BreakerTypeOK'
  BY <1>24 DEF vars, files, history
<1>. HIDE DEF BreakerTypeOK
<1>25. QED
  BY <1>1, <1>2, <1>3, <1>4, <1>5, <1>6, <1>7, <1>8, <1>9, <1>10, <1>11, <1>12,
     <1>13, <1>14, <1>15, <1>16, <1>17, <1>18, <1>19, <1>20, <1>21, <1>22, <1>23,
     <1>24,
     Zenon DEF Acts

\* Every step leaves a call that is about to write with a state and a decision.
LEMMA StateStep == ASSUME BreakerTypeOK, StateInv, Acts PROVE StateInv'
<1>. USE PartiesAssumption, FilesAssumption DEF BreakerTypeOK, StateInv, Probing, Inside, Procs
<1>1. ASSUME NEW p \in Procs, ProbeOpens(p) PROVE StateInv'
  BY <1>1 DEF ProbeOpens, Released, Goto, Answer, Fault, files, history
<1>2. ASSUME NEW p \in Procs, ProbeLooks(p) PROVE StateInv'
  BY <1>2 DEF ProbeLooks, Released, Goto, Answer, Fault, files, history
<1>3. ASSUME NEW p \in Procs, ProbeReclaims(p) PROVE StateInv'
  BY <1>3 DEF ProbeReclaims, Released, Goto, Answer, Fault, files, history
<1>4. ASSUME NEW p \in Procs, ProbeStamps(p) PROVE StateInv'
  BY <1>4 DEF ProbeStamps, Released, Goto, Answer, Fault, files, history
<1>5. ASSUME NEW p \in Procs, ProbeUnlinks(p) PROVE StateInv'
  BY <1>5 DEF ProbeUnlinks, Unlinks, Released, Goto, Answer, Fault, files, history
<1>6. ASSUME NEW p \in Procs, GivesUp(p) PROVE StateInv'
  BY <1>6 DEF GivesUp, Released, Goto, Answer, Fault, files, history
<1>7. ASSUME NEW p \in Procs, TakesLock(p) PROVE StateInv'
  BY <1>7 DEF TakesLock, Released, Goto, Answer, Fault, files, history
<1>8. ASSUME NEW p \in Procs, FindsOld(p) PROVE StateInv'
  BY <1>8 DEF FindsOld, Released, Goto, Answer, Fault, files, history
<1>9. ASSUME NEW p \in Procs, RemovesOld(p) PROVE StateInv'
  BY <1>9 DEF RemovesOld, Released, Goto, Answer, Fault, files, history
<1>10. ASSUME NEW p \in Procs, Signs(p) PROVE StateInv'
  BY <1>10 DEF Signs, Released, Goto, Answer, Fault, files, history
<1>11. ASSUME NEW p \in Procs, Releases(p) PROVE StateInv'
  BY <1>11 DEF Releases, Unlinks, Waiting, Released, Goto, Answer, Fault, files, history
<1>12. ASSUME NEW p \in Procs, Kill(p) PROVE StateInv'
  BY <1>12 DEF Kill, Released, Goto, Answer, Fault, files, history
<1>13. ASSUME NEW c \in Callers, FastPath(c) PROVE StateInv'
  BY <1>13 DEF FastPath, Waiting, Released, Goto, Answer, Fault, files, history
<1>14. ASSUME NEW c \in Callers, ReadCounter(c) PROVE StateInv'
  <2>1. counter # Corrupt =>
           /\ Rolled(counter) \in Counters
           /\ ~(Rolled(counter).count >= Max) =>
                 [count |-> Rolled(counter).count + 1, window |-> Rolled(counter).window] \in Counters
    BY RolledState, LimitsAssumption DEF Counters
  <2>2. pc'[c] = "write" => state'[c] \in Counters /\ verdict'[c] \in {"allowed", "tripped"}
    BY <1>14, <2>1, Decision
  <2>3. pc'[c] \in {"write", "sentinel"}
    BY <1>14, Decision
  <2>4. \A x \in Callers \ {c} : pc'[x] = pc[x] /\ state'[x] = state[x] /\ verdict'[x] = verdict[x]
    BY <1>14, Decision
  <2>. QED
    BY <2>2, <2>3, <2>4
<1>15. ASSUME NEW c \in Callers, WriteTmp(c) PROVE StateInv'
  BY <1>15 DEF WriteTmp, Released, Goto, Answer, Fault, files, history
<1>16. ASSUME NEW c \in Callers, RenameTmp(c) PROVE StateInv'
  BY <1>16 DEF RenameTmp, Released, Goto, Answer, Fault, files, history
<1>17. ASSUME NEW c \in Callers, WriteSentinel(c) PROVE StateInv'
  BY <1>17 DEF WriteSentinel, Released, Goto, Answer, Fault, files, history
<1>18. ASSUME NEW r \in Resetters, StartReset(r) PROVE StateInv'
  BY <1>18 DEF StartReset, Released, Goto, Answer, Fault, files, history
<1>19. ASSUME NEW r \in Resetters, ClearCounter(r) PROVE StateInv'
  BY <1>19 DEF ClearCounter, Released, Goto, Answer, Fault, files, history
<1>20. ASSUME NEW r \in Resetters, ClearSentinel(r) PROVE StateInv'
  BY <1>20 DEF ClearSentinel, Released, Goto, Answer, Fault, files, history
<1>21. ASSUME WindowEnds PROVE StateInv'
  BY <1>21 DEF WindowEnds, Released, Goto, Answer, Fault, files, history
<1>22. ASSUME LockGetsOld PROVE StateInv'
  BY <1>22 DEF LockGetsOld, Released, Goto, Answer, Fault, files, history
<1>23. ASSUME CounterDamaged PROVE StateInv'
  BY <1>23 DEF CounterDamaged, Released, Goto, Answer, Fault, files, history
<1>24. ASSUME UNCHANGED vars PROVE StateInv'
  BY <1>24 DEF vars, files, history
<1>. HIDE DEF StateInv
<1>25. QED
  BY <1>1, <1>2, <1>3, <1>4, <1>5, <1>6, <1>7, <1>8, <1>9, <1>10, <1>11, <1>12,
     <1>13, <1>14, <1>15, <1>16, <1>17, <1>18, <1>19, <1>20, <1>21, <1>22, <1>23,
     <1>24,
     Zenon DEF Acts

\* Every step leaves a lock file only with a process that is going to remove it.
LEMMA StrayStep == ASSUME BreakerTypeOK, NoStrayLock, Acts PROVE NoStrayLock'
<1>. USE PartiesAssumption, FilesAssumption DEF BreakerTypeOK, NoStrayLock, Probing, Inside, Procs, Locks
<1>1. ASSUME NEW p \in Procs, ProbeOpens(p) PROVE NoStrayLock'
  BY <1>1 DEF ProbeOpens, Released, Goto, Answer, Fault, files, history
<1>2. ASSUME NEW p \in Procs, ProbeLooks(p) PROVE NoStrayLock'
  BY <1>2 DEF ProbeLooks, Released, Goto, Answer, Fault, files, history
<1>3. ASSUME NEW p \in Procs, ProbeReclaims(p) PROVE NoStrayLock'
  BY <1>3 DEF ProbeReclaims, Released, Goto, Answer, Fault, files, history
<1>4. ASSUME NEW p \in Procs, ProbeStamps(p) PROVE NoStrayLock'
  BY <1>4 DEF ProbeStamps, Released, Goto, Answer, Fault, files, history
<1>5. ASSUME NEW p \in Procs, ProbeUnlinks(p) PROVE NoStrayLock'
  BY <1>5 DEF ProbeUnlinks, Unlinks, Released, Goto, Answer, Fault, files, history
<1>6. ASSUME NEW p \in Procs, GivesUp(p) PROVE NoStrayLock'
  BY <1>6 DEF GivesUp, Released, Goto, Answer, Fault, files, history
<1>7. ASSUME NEW p \in Procs, TakesLock(p) PROVE NoStrayLock'
  BY <1>7 DEF TakesLock, Released, Goto, Answer, Fault, files, history
<1>8. ASSUME NEW p \in Procs, FindsOld(p) PROVE NoStrayLock'
  BY <1>8 DEF FindsOld, Released, Goto, Answer, Fault, files, history
<1>9. ASSUME NEW p \in Procs, RemovesOld(p) PROVE NoStrayLock'
  BY <1>9 DEF RemovesOld, Released, Goto, Answer, Fault, files, history
<1>10. ASSUME NEW p \in Procs, Signs(p) PROVE NoStrayLock'
  <2>1. lock' # Absent => lock # Absent /\ lock'.by = lock.by
    BY <1>10, Signing, NewLock
  <2>2. pc[p] = "sign" /\ pc' \in {[pc EXCEPT ![p] = to] : to \in {"read", "clear", "release"}}
    BY <1>10 DEF Signs, Goto
  <2>. QED
    BY <1>10, <2>1, <2>2 DEF Signs, history
<1>11. ASSUME NEW p \in Procs, Releases(p) PROVE NoStrayLock'
  BY <1>11 DEF Releases, Unlinks, Waiting, Released, Goto, Answer, Fault, files, history
<1>12. ASSUME NEW p \in Procs, Kill(p) PROVE NoStrayLock'
  BY <1>12 DEF Kill, Released, Goto, Answer, Fault, files, history
<1>13. ASSUME NEW c \in Callers, FastPath(c) PROVE NoStrayLock'
  BY <1>13 DEF FastPath, Waiting, Released, Goto, Answer, Fault, files, history
<1>14. ASSUME NEW c \in Callers, ReadCounter(c) PROVE NoStrayLock'
  BY <1>14 DEF ReadCounter, Released, Goto, Answer, Fault, files, history
<1>15. ASSUME NEW c \in Callers, WriteTmp(c) PROVE NoStrayLock'
  BY <1>15 DEF WriteTmp, Released, Goto, Answer, Fault, files, history
<1>16. ASSUME NEW c \in Callers, RenameTmp(c) PROVE NoStrayLock'
  BY <1>16 DEF RenameTmp, Released, Goto, Answer, Fault, files, history
<1>17. ASSUME NEW c \in Callers, WriteSentinel(c) PROVE NoStrayLock'
  BY <1>17 DEF WriteSentinel, Released, Goto, Answer, Fault, files, history
<1>18. ASSUME NEW r \in Resetters, StartReset(r) PROVE NoStrayLock'
  BY <1>18 DEF StartReset, Released, Goto, Answer, Fault, files, history
<1>19. ASSUME NEW r \in Resetters, ClearCounter(r) PROVE NoStrayLock'
  BY <1>19 DEF ClearCounter, Released, Goto, Answer, Fault, files, history
<1>20. ASSUME NEW r \in Resetters, ClearSentinel(r) PROVE NoStrayLock'
  BY <1>20 DEF ClearSentinel, Released, Goto, Answer, Fault, files, history
<1>21. ASSUME WindowEnds PROVE NoStrayLock'
  BY <1>21 DEF WindowEnds, Released, Goto, Answer, Fault, files, history
<1>22. ASSUME LockGetsOld PROVE NoStrayLock'
  BY <1>22 DEF LockGetsOld, Released, Goto, Answer, Fault, files, history
<1>23. ASSUME CounterDamaged PROVE NoStrayLock'
  BY <1>23 DEF CounterDamaged, Released, Goto, Answer, Fault, files, history
<1>24. ASSUME UNCHANGED vars PROVE NoStrayLock'
  BY <1>24 DEF vars, files, history
<1>. HIDE DEF NoStrayLock
<1>25. QED
  BY <1>1, <1>2, <1>3, <1>4, <1>5, <1>6, <1>7, <1>8, <1>9, <1>10, <1>11, <1>12,
     <1>13, <1>14, <1>15, <1>16, <1>17, <1>18, <1>19, <1>20, <1>21, <1>22, <1>23,
     <1>24,
     Zenon DEF Acts

\* While nothing has gone wrong, every step leaves the lock file with the one who works with it.
LEMMA CalmStep == ASSUME BreakerTypeOK, CalmInv, Acts PROVE CalmInv'
<1>. USE PartiesAssumption, FilesAssumption DEF BreakerTypeOK, CalmInv, Probing, Inside, Procs, Locks
<1>1. ASSUME NEW p \in Procs, ProbeOpens(p) PROVE CalmInv'
  <2>. SUFFICES ASSUME ~shaken PROVE CalmInv'
    BY <1>1 DEF ProbeOpens, history
  <2>1. \A q \in Procs : pc[q] \notin Probing \cup Inside
    BY <1>1 DEF ProbeOpens
  <2>2. lock' # Absent /\ lock'.by = p /\ lock'.pid \in {Nobody, p} /\ ~lock'.old
    <3>1. lock' = [by |-> p, pid |-> Nobody, old |-> FALSE]
      BY <1>1 DEF ProbeOpens
    <3>. QED
      BY <3>1, NewLock
  <2>3. pc'[p] = "stamp" /\ \A q \in Procs \ {p} : pc'[q] = pc[q]
    BY <1>1 DEF ProbeOpens, Goto
  <2>. QED
    BY <2>1, <2>2, <2>3
<1>2. ASSUME NEW p \in Procs, ProbeLooks(p) PROVE CalmInv'
  BY <1>2 DEF ProbeLooks, Released, ProbeFindsStale, Goto, Answer, Fault, files, history
<1>3. ASSUME NEW p \in Procs, ProbeReclaims(p) PROVE CalmInv'
  BY <1>3 DEF ProbeReclaims, Released, ProbeFindsStale, Goto, Answer, Fault, files, history
<1>4. ASSUME NEW p \in Procs, ProbeStamps(p) PROVE CalmInv'
  <2>. SUFFICES ASSUME ~shaken PROVE CalmInv'
    BY <1>4 DEF ProbeStamps, history
  <2>1. lock # Absent /\ lock.by = p /\ \A q \in Procs \ {p} : pc[q] \notin Probing \cup Inside
    BY <1>4 DEF ProbeStamps, Goto
  <2>2. lock' # Absent /\ lock'.by = p /\ lock'.pid \in {Nobody, p} /\ ~lock'.old
    <3>1. lock' = [by |-> p, pid |-> p, old |-> FALSE]
      BY <1>4, <2>1 DEF ProbeStamps
    <3>. QED
      BY <3>1, NewLock
  <2>3. pc'[p] = "unprobe" /\ \A q \in Procs \ {p} : pc'[q] = pc[q]
    BY <1>4 DEF ProbeStamps, Goto
  <2>. QED
    BY <2>1, <2>2, <2>3
<1>5. ASSUME NEW p \in Procs, ProbeUnlinks(p) PROVE CalmInv'
  BY <1>5 DEF ProbeUnlinks, Unlinks, Released, ProbeFindsStale, Goto, Answer, Fault, files, history
<1>6. ASSUME NEW p \in Procs, GivesUp(p) PROVE CalmInv'
  BY <1>6 DEF GivesUp, Released, ProbeFindsStale, Goto, Answer, Fault, files, history
<1>7. ASSUME NEW p \in Procs, TakesLock(p) PROVE CalmInv'
  <2>. SUFFICES ASSUME ~shaken PROVE CalmInv'
    BY <1>7 DEF TakesLock, history
  <2>1. \A q \in Procs : pc[q] \notin Probing \cup Inside
    BY <1>7 DEF TakesLock
  <2>2. lock' # Absent /\ lock'.by = p /\ lock'.pid \in {Nobody, p} /\ ~lock'.old
    <3>1. lock' = [by |-> p, pid |-> Nobody, old |-> FALSE]
      BY <1>7 DEF TakesLock
    <3>. QED
      BY <3>1, NewLock
  <2>3. pc'[p] = "sign" /\ \A q \in Procs \ {p} : pc'[q] = pc[q]
    BY <1>7 DEF TakesLock, Goto
  <2>. QED
    BY <2>1, <2>2, <2>3
<1>8. ASSUME NEW p \in Procs, FindsOld(p) PROVE CalmInv'
  BY <1>8 DEF FindsOld, Released, ProbeFindsStale, Goto, Answer, Fault, files, history
<1>9. ASSUME NEW p \in Procs, RemovesOld(p) PROVE CalmInv'
  BY <1>9 DEF RemovesOld, Released, ProbeFindsStale, Goto, Answer, Fault, files, history
<1>10. ASSUME NEW p \in Procs, Signs(p) PROVE CalmInv'
  <2>. SUFFICES ASSUME ~shaken PROVE CalmInv'
    BY <1>10 DEF Signs, history
  <2>1. lock # Absent /\ lock.by = p /\ \A q \in Procs \ {p} : pc[q] \notin Probing \cup Inside
    BY <1>10 DEF Signs, Goto
  <2>2. lock' # Absent /\ lock'.by = p /\ lock'.pid \in {Nobody, p} /\ ~lock'.old
    <3>1. CASE lock' = [by |-> p, pid |-> p, old |-> FALSE]
      BY <3>1, NewLock
    <3>2. CASE lock' = lock
      BY <2>1, <3>2
    <3>. QED
      BY <1>10, <3>1, <3>2, Signing
  <2>3. pc'[p] \in {"read", "clear", "release"} /\ \A q \in Procs \ {p} : pc'[q] = pc[q]
    BY <1>10 DEF Signs, Goto
  <2>. QED
    BY <2>1, <2>2, <2>3
<1>11. ASSUME NEW p \in Procs, Releases(p) PROVE CalmInv'
  BY <1>11 DEF Releases, Unlinks, Waiting, Released, ProbeFindsStale, Goto, Answer, Fault, files, history
<1>12. ASSUME NEW p \in Procs, Kill(p) PROVE CalmInv'
  BY <1>12 DEF Kill, Released, ProbeFindsStale, Goto, Answer, Fault, files, history
<1>13. ASSUME NEW c \in Callers, FastPath(c) PROVE CalmInv'
  BY <1>13 DEF FastPath, Waiting, Released, ProbeFindsStale, Goto, Answer, Fault, files, history
<1>14. ASSUME NEW c \in Callers, ReadCounter(c) PROVE CalmInv'
  BY <1>14 DEF ReadCounter, Released, ProbeFindsStale, Goto, Answer, Fault, files, history
<1>15. ASSUME NEW c \in Callers, WriteTmp(c) PROVE CalmInv'
  BY <1>15 DEF WriteTmp, Released, ProbeFindsStale, Goto, Answer, Fault, files, history
<1>16. ASSUME NEW c \in Callers, RenameTmp(c) PROVE CalmInv'
  BY <1>16 DEF RenameTmp, Released, ProbeFindsStale, Goto, Answer, Fault, files, history
<1>17. ASSUME NEW c \in Callers, WriteSentinel(c) PROVE CalmInv'
  BY <1>17 DEF WriteSentinel, Released, ProbeFindsStale, Goto, Answer, Fault, files, history
<1>18. ASSUME NEW r \in Resetters, StartReset(r) PROVE CalmInv'
  BY <1>18 DEF StartReset, Released, ProbeFindsStale, Goto, Answer, Fault, files, history
<1>19. ASSUME NEW r \in Resetters, ClearCounter(r) PROVE CalmInv'
  BY <1>19 DEF ClearCounter, Released, ProbeFindsStale, Goto, Answer, Fault, files, history
<1>20. ASSUME NEW r \in Resetters, ClearSentinel(r) PROVE CalmInv'
  BY <1>20 DEF ClearSentinel, Released, ProbeFindsStale, Goto, Answer, Fault, files, history
<1>21. ASSUME WindowEnds PROVE CalmInv'
  BY <1>21 DEF WindowEnds, Released, ProbeFindsStale, Goto, Answer, Fault, files, history
<1>22. ASSUME LockGetsOld PROVE CalmInv'
  BY <1>22 DEF LockGetsOld, Released, ProbeFindsStale, Goto, Answer, Fault, files, history
<1>23. ASSUME CounterDamaged PROVE CalmInv'
  BY <1>23 DEF CounterDamaged, Released, ProbeFindsStale, Goto, Answer, Fault, files, history
<1>24. ASSUME UNCHANGED vars PROVE CalmInv'
  BY <1>24 DEF vars, files, history
<1>. HIDE DEF CalmInv
<1>25. QED
  BY <1>1, <1>2, <1>3, <1>4, <1>5, <1>6, <1>7, <1>8, <1>9, <1>10, <1>11, <1>12,
     <1>13, <1>14, <1>15, <1>16, <1>17, <1>18, <1>19, <1>20, <1>21, <1>22, <1>23,
     <1>24,
     Zenon DEF Acts

\* When the counter goes, with what was admitted, nothing is left to cover.
LEMMA Cleared ==
    ASSUME BreakerTypeOK, StateInv, CountInv, admitted' = {}, counter' = Absent,
           UNCHANGED <<tmp, state, verdict, window, shaken>>, \A x \in Callers : pc'[x] = pc[x]
    PROVE  CountInv'
<1>. USE FilesAssumption, LimitsAssumption
<1>1. \A w \in Windows : Cardinality(CallsIn({}, w)) <= Max
  <2>1. \A w : CallsIn({}, w) = {}
    BY DEF CallsIn
  <2>. QED
    BY <2>1, FS_EmptySet
<1>2. ASSUME NEW c \in Callers, pc[c] \in {"write", "rename"}
      PROVE  /\ Covers({}, state[c].window, state[c].count)
             /\ state[c].count > 0 => Covers({}, state[c].window, state[c].count - 1)
  <2>1. state[c].count \in Nat /\ (state[c].count > 0 => state[c].count - 1 \in Nat)
    BY <1>2 DEF StateInv, Counters
  <2>. QED
    BY <2>1, CoversNothing
<1>. QED
  BY <1>1, <1>2 DEF CountInv

\* While nothing has gone wrong, every step leaves the admissions covered.
LEMMA CountStep == ASSUME BreakerTypeOK, StateInv, CalmInv, CountInv, Acts PROVE CountInv'
<1>. USE PartiesAssumption, FilesAssumption, LimitsAssumption DEF BreakerTypeOK, CountInv, Probing, Inside, Procs
<1>1. ASSUME NEW p \in Procs, ProbeOpens(p) PROVE CountInv'
  BY <1>1 DEF ProbeOpens, Released, Goto, Answer, Fault, files, history
<1>2. ASSUME NEW p \in Procs, ProbeLooks(p) PROVE CountInv'
  BY <1>2 DEF ProbeLooks, Released, Goto, Answer, Fault, files, history
<1>3. ASSUME NEW p \in Procs, ProbeReclaims(p) PROVE CountInv'
  BY <1>3 DEF ProbeReclaims, Released, Goto, Answer, Fault, files, history
<1>4. ASSUME NEW p \in Procs, ProbeStamps(p) PROVE CountInv'
  BY <1>4 DEF ProbeStamps, Released, Goto, Answer, Fault, files, history
<1>5. ASSUME NEW p \in Procs, ProbeUnlinks(p) PROVE CountInv'
  BY <1>5 DEF ProbeUnlinks, Unlinks, Released, Goto, Answer, Fault, files, history
<1>6. ASSUME NEW p \in Procs, GivesUp(p) PROVE CountInv'
  BY <1>6 DEF GivesUp, Released, Goto, Answer, Fault, files, history
<1>7. ASSUME NEW p \in Procs, TakesLock(p) PROVE CountInv'
  BY <1>7 DEF TakesLock, Released, Goto, Answer, Fault, files, history
<1>8. ASSUME NEW p \in Procs, FindsOld(p) PROVE CountInv'
  BY <1>8 DEF FindsOld, Released, Goto, Answer, Fault, files, history
<1>9. ASSUME NEW p \in Procs, RemovesOld(p) PROVE CountInv'
  BY <1>9 DEF RemovesOld, Released, Goto, Answer, Fault, files, history
<1>10. ASSUME NEW p \in Procs, Signs(p) PROVE CountInv'
  BY <1>10 DEF Signs, Released, Goto, Answer, Fault, files, history
<1>11. ASSUME NEW p \in Procs, Releases(p) PROVE CountInv'
  BY <1>11 DEF Releases, Unlinks, Waiting, Released, Goto, Answer, Fault, files, history
<1>12. ASSUME NEW p \in Procs, Kill(p) PROVE CountInv'
  BY <1>12 DEF Kill, Released, Goto, Answer, Fault, files, history
<1>13. ASSUME NEW c \in Callers, FastPath(c) PROVE CountInv'
  BY <1>13 DEF FastPath, Waiting, Released, Goto, Answer, Fault, files, history
<1>14. ASSUME NEW c \in Callers, ReadCounter(c) PROVE CountInv'
  <2>. SUFFICES ASSUME ~shaken PROVE CountInv'
    BY <1>14 DEF ReadCounter, history
  <2>1. /\ UNCHANGED <<counter, tmp, window, admitted>>
        /\ \A x \in Callers \ {c} : pc'[x] = pc[x] /\ state'[x] = state[x] /\ verdict'[x] = verdict[x]
    BY <1>14, Decision DEF ReadCounter, files, history
  <2>2. pc'[c] \in {"write", "sentinel"}
    BY <1>14, Decision
  <2>3. ASSUME pc'[c] = "write"
        PROVE  /\ state'[c].window <= window
               /\ verdict'[c] = "allowed" =>
                     state'[c].count > 0 /\ Covers(admitted, state'[c].window, state'[c].count - 1)
               /\ verdict'[c] = "tripped" => Covers(admitted, state'[c].window, state'[c].count)
    <3>1. counter # Corrupt
      BY <1>14, <2>3, Decision
    <3>2. /\ Rolled(counter).count \in Nat /\ Rolled(counter).window = window
          /\ window \in Nat /\ Covers(admitted, Rolled(counter).window, Rolled(counter).count)
      BY <3>1, RolledState, RolledCovers DEF Counters, Windows
    <3>3. CASE verdict'[c] = "tripped" /\ state'[c] = Rolled(counter)
      BY <3>2, <3>3
    <3>4. CASE /\ verdict'[c] = "allowed"
               /\ state'[c] = [count |-> Rolled(counter).count + 1, window |-> Rolled(counter).window]
      <4>1. state'[c].count = Rolled(counter).count + 1 /\ state'[c].window = Rolled(counter).window
        BY <3>4
      <4>2. state'[c].count - 1 = Rolled(counter).count /\ state'[c].count > 0 /\ window <= window
        BY <3>2, <4>1
      <4>. QED
        BY <3>2, <3>4, <4>1, <4>2
    <3>. QED
      BY <1>14, <2>3, <3>3, <3>4, Decision
  <2>. QED
    BY <2>1, <2>2, <2>3
<1>15. ASSUME NEW c \in Callers, WriteTmp(c) PROVE CountInv'
  <2>. SUFFICES ASSUME ~shaken PROVE CountInv'
    BY <1>15 DEF WriteTmp, history
  <2>1. /\ UNCHANGED <<counter, window, admitted>> /\ pc[c] = "write"
        /\ \A x \in Callers \ {c} : pc'[x] = pc[x] /\ state'[x] = state[x] /\ verdict'[x] = verdict[x]
    BY <1>15 DEF WriteTmp, Goto, Answer, history
  <2>2. \A x \in Callers \ {c} : pc[x] \notin {"write", "rename"}
    BY <2>1 DEF CalmInv
  <2>3. \/ pc'[c] = "rename" /\ state'[c] = state[c] /\ verdict'[c] = verdict[c] /\ tmp' = state[c]
        \/ pc'[c] = "release"
    BY <1>15 DEF WriteTmp, Goto
  <2>. QED
    BY <2>1, <2>2, <2>3
<1>16. ASSUME NEW c \in Callers, RenameTmp(c) PROVE CountInv'
  <2>. SUFFICES ASSUME ~shaken PROVE CountInv'
    BY <1>16 DEF RenameTmp
  <2>. DEFINE s == state[c]
  <2>1. pc[c] = "rename" /\ \A x \in Callers \ {c} : pc'[x] = pc[x] /\ pc[x] \notin {"write", "rename"}
    BY <1>16 DEF RenameTmp, Goto, CalmInv
  <2>2. s \in Counters /\ verdict[c] \in {"allowed", "tripped"} /\ tmp = s /\ tmp # Absent
    BY <2>1 DEF StateInv
  <2>0. CASE Goto(c, "rename", "release") /\ UNCHANGED <<counter, tmp, admitted>>
    BY <1>16, <2>0, <2>1 DEF RenameTmp, Goto, Answer
  <2>. SUFFICES ASSUME ~(Goto(c, "rename", "release") /\ UNCHANGED <<counter, tmp, admitted>>)
                PROVE  CountInv'
    BY <2>0
  <2>3. /\ counter' = s /\ window' = window /\ pc'[c] \in {"sentinel", "release"}
        /\ admitted' = IF verdict[c] = "allowed" THEN admitted \cup {<<c, s.window>>} ELSE admitted
    BY <1>16, <2>2 DEF RenameTmp, Goto
  <2>4. s.window \in Windows /\ s.count \in Nat /\ s.count <= Max /\ s.window <= window
    BY <2>1, <2>2 DEF Counters
  <2>5. Covers(admitted', s.window, s.count)
    <3>1. CASE verdict[c] = "allowed"
      <4>1. s.count > 0 /\ Covers(admitted, s.window, s.count - 1)
        BY <2>1, <3>1
      <4>. QED
        BY <2>3, <2>4, <3>1, <4>1, CoversOneMore
    <3>2. CASE verdict[c] = "tripped"
      BY <2>1, <2>3, <3>2
    <3>. QED
      BY <2>2, <3>1, <3>2
  <2>6. ASSUME NEW w \in Windows PROVE Cardinality(CallsIn(admitted', w)) <= Max
    <3>1. CASE w = s.window
      <4>1. Cardinality(CallsIn(admitted', w)) <= s.count
        BY <2>5, <3>1 DEF Covers
      <4>2. Cardinality(CallsIn(admitted', w)) \in Nat
        BY CallsFinite
      <4>. QED
        BY <2>4, <4>1, <4>2, LimitsAssumption
    <3>2. CASE w # s.window
      <4>1. CallsIn(admitted', w) = CallsIn(admitted, w)
        BY <2>3, <3>2 DEF CallsIn
      <4>. QED
        BY <4>1
    <3>. QED
      BY <3>1, <3>2
  <2>. QED
    BY <2>1, <2>2, <2>3, <2>4, <2>5, <2>6
<1>17. ASSUME NEW c \in Callers, WriteSentinel(c) PROVE CountInv'
  BY <1>17 DEF WriteSentinel, Released, Goto, Answer, Fault, files, history
<1>18. ASSUME NEW r \in Resetters, StartReset(r) PROVE CountInv'
  BY <1>18 DEF StartReset, Released, Goto, Answer, Fault, files, history
<1>19. ASSUME NEW r \in Resetters, ClearCounter(r) PROVE CountInv'
  <2>1. CASE admitted' = {} /\ counter' = Absent
    <3>1. /\ UNCHANGED <<tmp, state, verdict, window, shaken>>
          /\ \A x \in Callers : pc'[x] = pc[x]
      BY <1>19 DEF ClearCounter, Goto
    <3>. QED
      BY <2>1, <3>1, Cleared
  <2>2. CASE UNCHANGED <<counter, admitted>>
    BY <1>19, <2>2 DEF ClearCounter, Goto
  <2>. QED
    BY <1>19, <2>1, <2>2 DEF ClearCounter
<1>20. ASSUME NEW r \in Resetters, ClearSentinel(r) PROVE CountInv'
  BY <1>20 DEF ClearSentinel, Released, Goto, Answer, Fault, files, history
<1>21. ASSUME WindowEnds PROVE CountInv'
  <2>1. window' \in Nat /\ window \in Nat /\ window <= window'
    BY <1>21 DEF WindowEnds, Windows
  <2>2. UNCHANGED <<pc, counter, tmp, state, verdict, shaken, admitted>>
    BY <1>21 DEF WindowEnds, files, history
  <2>3. /\ counter \in Counters => counter.window \in Nat
        /\ \A c \in Callers : pc[c] \in {"write", "rename"} => state[c].window \in Nat
    BY DEF Counters, Windows, StateInv
  <2>4. /\ counter \in Counters /\ counter.window <= window => counter.window <= window'
        /\ \A c \in Callers : pc[c] \in {"write", "rename"} /\ state[c].window <= window
              => state[c].window <= window'
    BY <2>1, <2>3
  <2>. QED
    BY <2>2, <2>4
<1>22. ASSUME LockGetsOld PROVE CountInv'
  BY <1>22 DEF LockGetsOld, Released, Goto, Answer, Fault, files, history
<1>23. ASSUME CounterDamaged PROVE CountInv'
  <2>1. CASE admitted' = {} /\ counter' = Absent
    <3>1. /\ UNCHANGED <<tmp, state, verdict, window, shaken>>
          /\ \A x \in Callers : pc'[x] = pc[x]
      BY <1>23 DEF CounterDamaged
    <3>. QED
      BY <2>1, <3>1, Cleared
  <2>2. CASE counter' = Corrupt /\ UNCHANGED admitted
    BY <1>23, <2>2 DEF CounterDamaged
  <2>. QED
    BY <1>23, <2>1, <2>2 DEF CounterDamaged
<1>24. ASSUME UNCHANGED vars PROVE CountInv'
  BY <1>24 DEF vars, files, history
<1>. HIDE DEF CountInv
<1>25. QED
  BY <1>1, <1>2, <1>3, <1>4, <1>5, <1>6, <1>7, <1>8, <1>9, <1>10, <1>11, <1>12,
     <1>13, <1>14, <1>15, <1>16, <1>17, <1>18, <1>19, <1>20, <1>21, <1>22, <1>23,
     <1>24,
     Zenon DEF Acts

\* Every step keeps the sentinel in front of the calls that come after a trip.
LEMMA TripStep == ASSUME BreakerTypeOK, StateInv, TripInv, Acts PROVE TripInv'
<1>. USE PartiesAssumption, FilesAssumption DEF BreakerTypeOK, StateInv, TripInv, Probing, Inside, Procs, Recorded
<1>1. ASSUME NEW p \in Procs, ProbeOpens(p) PROVE TripInv'
  BY <1>1 DEF ProbeOpens, Released, Goto, Answer, Fault, files, history
<1>2. ASSUME NEW p \in Procs, ProbeLooks(p) PROVE TripInv'
  BY <1>2 DEF ProbeLooks, Released, Goto, Answer, Fault, files, history
<1>3. ASSUME NEW p \in Procs, ProbeReclaims(p) PROVE TripInv'
  BY <1>3 DEF ProbeReclaims, Released, Goto, Answer, Fault, files, history
<1>4. ASSUME NEW p \in Procs, ProbeStamps(p) PROVE TripInv'
  BY <1>4 DEF ProbeStamps, Released, Goto, Answer, Fault, files, history
<1>5. ASSUME NEW p \in Procs, ProbeUnlinks(p) PROVE TripInv'
  BY <1>5 DEF ProbeUnlinks, Unlinks, Released, Goto, Answer, Fault, files, history
<1>6. ASSUME NEW p \in Procs, GivesUp(p) PROVE TripInv'
  BY <1>6 DEF GivesUp, Released, Goto, Answer, Fault, files, history
<1>7. ASSUME NEW p \in Procs, TakesLock(p) PROVE TripInv'
  BY <1>7 DEF TakesLock, Released, Goto, Answer, Fault, files, history
<1>8. ASSUME NEW p \in Procs, FindsOld(p) PROVE TripInv'
  BY <1>8 DEF FindsOld, Released, Goto, Answer, Fault, files, history
<1>9. ASSUME NEW p \in Procs, RemovesOld(p) PROVE TripInv'
  BY <1>9 DEF RemovesOld, Released, Goto, Answer, Fault, files, history
<1>10. ASSUME NEW p \in Procs, Signs(p) PROVE TripInv'
  BY <1>10 DEF Signs, Released, Goto, Answer, Fault, files, history
<1>11. ASSUME NEW p \in Procs, Releases(p) PROVE TripInv'
  BY <1>11 DEF Releases, Unlinks, Waiting, Released, Goto, Answer, Fault, files, history
<1>12. ASSUME NEW p \in Procs, Kill(p) PROVE TripInv'
  BY <1>12 DEF Kill, Released, Goto, Answer, Fault, files, history
<1>13. ASSUME NEW c \in Callers, FastPath(c) PROVE TripInv'
  BY <1>13 DEF FastPath, Waiting, Released, Goto, Answer, Fault, files, history
<1>14. ASSUME NEW c \in Callers, ReadCounter(c) PROVE TripInv'
  BY <1>14 DEF ReadCounter, Released, Goto, Answer, Fault, files, history
<1>15. ASSUME NEW c \in Callers, WriteTmp(c) PROVE TripInv'
  BY <1>15 DEF WriteTmp, Released, Goto, Answer, Fault, files, history
<1>16. ASSUME NEW c \in Callers, RenameTmp(c) PROVE TripInv'
  BY <1>16 DEF RenameTmp, Released, Goto, Answer, Fault, files, history
<1>17. ASSUME NEW c \in Callers, WriteSentinel(c) PROVE TripInv'
  BY <1>17 DEF WriteSentinel, Released, Goto, Answer, Fault, files, history
<1>18. ASSUME NEW r \in Resetters, StartReset(r) PROVE TripInv'
  BY <1>18 DEF StartReset, Released, Goto, Answer, Fault, files, history
<1>19. ASSUME NEW r \in Resetters, ClearCounter(r) PROVE TripInv'
  BY <1>19 DEF ClearCounter, Released, Goto, Answer, Fault, files, history
<1>20. ASSUME NEW r \in Resetters, ClearSentinel(r) PROVE TripInv'
  BY <1>20 DEF ClearSentinel, Released, Goto, Answer, Fault, files, history
<1>21. ASSUME WindowEnds PROVE TripInv'
  BY <1>21 DEF WindowEnds, Released, Goto, Answer, Fault, files, history
<1>22. ASSUME LockGetsOld PROVE TripInv'
  BY <1>22 DEF LockGetsOld, Released, Goto, Answer, Fault, files, history
<1>23. ASSUME CounterDamaged PROVE TripInv'
  BY <1>23 DEF CounterDamaged, Released, Goto, Answer, Fault, files, history
<1>24. ASSUME UNCHANGED vars PROVE TripInv'
  BY <1>24 DEF vars, files, history
<1>. HIDE DEF TripInv
<1>25. QED
  BY <1>1, <1>2, <1>3, <1>4, <1>5, <1>6, <1>7, <1>8, <1>9, <1>10, <1>11, <1>12,
     <1>13, <1>14, <1>15, <1>16, <1>17, <1>18, <1>19, <1>20, <1>21, <1>22, <1>23,
     <1>24,
     Zenon DEF Acts

\* Every step keeps the decisions with the calls that have taken them.
LEMMA FateStep == ASSUME BreakerTypeOK, StateInv, FateInv, Acts PROVE FateInv'
<1>. USE PartiesAssumption, FilesAssumption DEF BreakerTypeOK, StateInv, FateInv, Deciding, Probing, Inside, Procs, Recorded
<1>1. ASSUME NEW p \in Procs, ProbeOpens(p) PROVE FateInv'
  BY <1>1 DEF ProbeOpens, Goto, Answer, Fault, files, history
<1>2. ASSUME NEW p \in Procs, ProbeLooks(p) PROVE FateInv'
  BY <1>2 DEF ProbeLooks, Goto, Answer, Fault, files, history
<1>3. ASSUME NEW p \in Procs, ProbeReclaims(p) PROVE FateInv'
  BY <1>3 DEF ProbeReclaims, Goto, Answer, Fault, files, history
<1>4. ASSUME NEW p \in Procs, ProbeStamps(p) PROVE FateInv'
  BY <1>4 DEF ProbeStamps, Goto, Answer, Fault, files, history
<1>5. ASSUME NEW p \in Procs, ProbeUnlinks(p) PROVE FateInv'
  BY <1>5 DEF ProbeUnlinks, Unlinks, Goto, Answer, Fault, files, history
<1>6. ASSUME NEW p \in Procs, GivesUp(p) PROVE FateInv'
  BY <1>6 DEF GivesUp, Goto, Answer, Fault, files, history
<1>7. ASSUME NEW p \in Procs, TakesLock(p) PROVE FateInv'
  BY <1>7 DEF TakesLock, Goto, Answer, Fault, files, history
<1>8. ASSUME NEW p \in Procs, FindsOld(p) PROVE FateInv'
  BY <1>8 DEF FindsOld, Goto, Answer, Fault, files, history
<1>9. ASSUME NEW p \in Procs, RemovesOld(p) PROVE FateInv'
  BY <1>9 DEF RemovesOld, Goto, Answer, Fault, files, history
<1>10. ASSUME NEW p \in Procs, Signs(p) PROVE FateInv'
  BY <1>10 DEF Signs, Goto, Answer, Fault, files, history
<1>11. ASSUME NEW p \in Procs, Releases(p) PROVE FateInv'
  BY <1>11 DEF Releases, Unlinks, Goto, Answer, Fault, files, history
<1>12. ASSUME NEW p \in Procs, Kill(p) PROVE FateInv'
  BY <1>12 DEF Kill, Goto, Answer, Fault, files, history
<1>13. ASSUME NEW c \in Callers, FastPath(c) PROVE FateInv'
  BY <1>13 DEF FastPath, Waiting, Goto, Answer, Fault, files, history
<1>14. ASSUME NEW c \in Callers, ReadCounter(c) PROVE FateInv'
  <2>1. /\ \A x \in Callers \ {c} : pc'[x] = pc[x] /\ verdict'[x] = verdict[x]
        /\ pc[c] = "read" /\ pc'[c] \in {"write", "sentinel"} /\ verdict'[c] # "none"
        /\ pc'[c] = "sentinel" => verdict'[c] = "counter_corrupt"
    BY <1>14, Decision
  <2>2. UNCHANGED <<counter, faults, shaken, admitted, lifted>>
    BY <1>14 DEF ReadCounter, files, history
  <2>. QED
    BY <2>1, <2>2
<1>15. ASSUME NEW c \in Callers, WriteTmp(c) PROVE FateInv'
  BY <1>15 DEF WriteTmp, Goto, Answer, Fault, files, history
<1>16. ASSUME NEW c \in Callers, RenameTmp(c) PROVE FateInv'
  BY <1>16 DEF RenameTmp, Goto, Answer, Fault, files, history
<1>17. ASSUME NEW c \in Callers, WriteSentinel(c) PROVE FateInv'
  BY <1>17 DEF WriteSentinel, Goto, Answer, Fault, files, history
<1>18. ASSUME NEW r \in Resetters, StartReset(r) PROVE FateInv'
  BY <1>18 DEF StartReset, Goto, Answer, Fault, files, history
<1>19. ASSUME NEW r \in Resetters, ClearCounter(r) PROVE FateInv'
  BY <1>19 DEF ClearCounter, Goto, Answer, Fault, files, history
<1>20. ASSUME NEW r \in Resetters, ClearSentinel(r) PROVE FateInv'
  BY <1>20 DEF ClearSentinel, Goto, Answer, Fault, files, history
<1>21. ASSUME WindowEnds PROVE FateInv'
  BY <1>21 DEF WindowEnds, Goto, Answer, Fault, files, history
<1>22. ASSUME LockGetsOld PROVE FateInv'
  BY <1>22 DEF LockGetsOld, Goto, Answer, Fault, files, history
<1>23. ASSUME CounterDamaged PROVE FateInv'
  BY <1>23 DEF CounterDamaged, Goto, Answer, Fault, files, history
<1>24. ASSUME UNCHANGED vars PROVE FateInv'
  BY <1>24 DEF vars, files, history
<1>. HIDE DEF FateInv
<1>25. QED
  BY <1>1, <1>2, <1>3, <1>4, <1>5, <1>6, <1>7, <1>8, <1>9, <1>10, <1>11, <1>12,
     <1>13, <1>14, <1>15, <1>16, <1>17, <1>18, <1>19, <1>20, <1>21, <1>22, <1>23,
     <1>24,
     Zenon DEF Acts


\* One more call reaches a count that is one greater.
LEMMA ReachesOneMore ==
    ASSUME NEW A, NEW w, NEW n \in Nat, Reaches(A, w, n - 1),
           NEW c \in Callers, <<c, w>> \notin A
    PROVE  Reaches(A \cup {<<c, w>>}, w, n)
<1>. DEFINE x == Cardinality(CallsIn(A, w) \cup {c})
            y == Cardinality(CallsIn(A, w))
<1>1. CallsIn(A \cup {<<c, w>>}, w) = CallsIn(A, w) \cup {c} /\ c \notin CallsIn(A, w)
  BY DEF CallsIn
<1>2. x = y + 1
  BY <1>1, CallsFinite, FS_AddElement
<1>3. y \in Nat /\ y >= n - 1
  BY CallsFinite DEF Reaches
<1>. HIDE DEF x, y
<1>4. x >= n
  BY <1>2, <1>3
<1>. QED
  BY <1>1, <1>4 DEF Reaches, x

\* The state a call starts from counts no more than what was admitted.
LEMMA RolledReaches ==
    ASSUME BreakerTypeOK, ExactInv, faults = 0, counter # Corrupt
    PROVE  Reaches(admitted, Rolled(counter).window, Rolled(counter).count)
<1>1. CASE counter \in Counters /\ Rolled(counter) = counter
  BY <1>1 DEF ExactInv
<1>2. CASE Rolled(counter) = [count |-> 0, window |-> window]
  <2>1. Rolled(counter).count = 0 /\ Cardinality(CallsIn(admitted, Rolled(counter).window)) \in Nat
    BY <1>2, CallsFinite
  <2>. QED
    BY <2>1 DEF Reaches
<1>. QED
  BY RolledState, <1>1, <1>2

\* As long as nothing goes wrong, every step leaves no count above what was admitted.
LEMMA ExactStep == ASSUME BreakerTypeOK, StateInv, CalmInv, CountInv, FateInv, ExactInv, Acts PROVE ExactInv'
<1>. USE PartiesAssumption, FilesAssumption, LimitsAssumption DEF BreakerTypeOK, ExactInv, Procs
<1>1. ASSUME NEW p \in Procs, ProbeOpens(p) PROVE ExactInv'
  BY <1>1 DEF ProbeOpens, Goto, Answer, Fault, files, history
<1>2. ASSUME NEW p \in Procs, ProbeLooks(p) PROVE ExactInv'
  BY <1>2 DEF ProbeLooks, Goto, Answer, Fault, files, history
<1>3. ASSUME NEW p \in Procs, ProbeReclaims(p) PROVE ExactInv'
  BY <1>3 DEF ProbeReclaims, Goto, Answer, Fault, files, history
<1>4. ASSUME NEW p \in Procs, ProbeStamps(p) PROVE ExactInv'
  BY <1>4 DEF ProbeStamps, Goto, Answer, Fault, files, history
<1>5. ASSUME NEW p \in Procs, ProbeUnlinks(p) PROVE ExactInv'
  BY <1>5 DEF ProbeUnlinks, Unlinks, Goto, Answer, Fault, files, history
<1>6. ASSUME NEW p \in Procs, GivesUp(p) PROVE ExactInv'
  BY <1>6 DEF GivesUp, Goto, Answer, Fault, files, history
<1>7. ASSUME NEW p \in Procs, TakesLock(p) PROVE ExactInv'
  BY <1>7 DEF TakesLock, Goto, Answer, Fault, files, history
<1>8. ASSUME NEW p \in Procs, FindsOld(p) PROVE ExactInv'
  BY <1>8 DEF FindsOld, Goto, Answer, Fault, files, history
<1>9. ASSUME NEW p \in Procs, RemovesOld(p) PROVE ExactInv'
  BY <1>9 DEF RemovesOld, Goto, Answer, Fault, files, history
<1>10. ASSUME NEW p \in Procs, Signs(p) PROVE ExactInv'
  BY <1>10 DEF Signs, Goto, Answer, Fault, files, history
<1>11. ASSUME NEW p \in Procs, Releases(p) PROVE ExactInv'
  BY <1>11 DEF Releases, Unlinks, Goto, Answer, Fault, files, history
<1>12. ASSUME NEW p \in Procs, Kill(p) PROVE ExactInv'
  BY <1>12 DEF Kill, Goto, Answer, Fault, files, history
<1>13. ASSUME NEW c \in Callers, FastPath(c) PROVE ExactInv'
  BY <1>13 DEF FastPath, Waiting, Goto, Answer, Fault, files, history
<1>14. ASSUME NEW c \in Callers, ReadCounter(c) PROVE ExactInv'
  <2>. SUFFICES ASSUME faults = 0 PROVE ExactInv'
    BY <1>14 DEF ReadCounter
  <2>1. /\ UNCHANGED <<counter, faults, admitted>>
        /\ \A x \in Callers \ {c} : pc'[x] = pc[x] /\ state'[x] = state[x] /\ verdict'[x] = verdict[x]
    BY <1>14, Decision DEF ReadCounter, files, history
  <2>2. ASSUME pc'[c] = "write"
        PROVE  /\ verdict'[c] = "allowed" => Reaches(admitted, state'[c].window, state'[c].count - 1)
               /\ verdict'[c] = "tripped" => Reaches(admitted, state'[c].window, state'[c].count)
    <3>1. counter # Corrupt
      BY <1>14, <2>2, Decision
    <3>2. Rolled(counter).count \in Nat /\ Reaches(admitted, Rolled(counter).window, Rolled(counter).count)
      BY <3>1, RolledState, RolledReaches DEF Counters
    <3>3. CASE verdict'[c] = "tripped" /\ state'[c] = Rolled(counter)
      BY <3>2, <3>3
    <3>4. CASE /\ verdict'[c] = "allowed"
               /\ state'[c] = [count |-> Rolled(counter).count + 1, window |-> Rolled(counter).window]
      <4>1. state'[c].count - 1 = Rolled(counter).count /\ state'[c].window = Rolled(counter).window
        BY <3>2, <3>4
      <4>. QED
        BY <3>2, <3>4, <4>1
    <3>. QED
      BY <1>14, <2>2, <3>3, <3>4, Decision
  <2>3. pc'[c] \in {"write", "sentinel"}
    BY <1>14, Decision
  <2>. QED
    BY <2>1, <2>2, <2>3
<1>15. ASSUME NEW c \in Callers, WriteTmp(c) PROVE ExactInv'
  BY <1>15 DEF WriteTmp, Goto, Answer, Fault, files, history
<1>16. ASSUME NEW c \in Callers, RenameTmp(c) PROVE ExactInv'
  <2>. SUFFICES ASSUME faults = 0, faults' = 0 PROVE ExactInv'
    BY <1>16 DEF RenameTmp, Fault
  <2>. DEFINE s == state[c]
  <2>1. ~shaken
    BY DEF FateInv
  <2>2. pc[c] = "rename" /\ \A x \in Callers \ {c} : pc'[x] = pc[x] /\ pc[x] \notin {"write", "rename"}
    BY <1>16, <2>1 DEF RenameTmp, Goto, CalmInv, Probing, Inside
  <2>3. s \in Counters /\ verdict[c] \in {"allowed", "tripped"} /\ tmp = s /\ tmp # Absent
    BY <2>1, <2>2 DEF StateInv, CountInv
  <2>4. /\ counter' = s /\ faults' = faults /\ pc'[c] \in {"sentinel", "release"}
        /\ admitted' = IF verdict[c] = "allowed" THEN admitted \cup {<<c, s.window>>} ELSE admitted
    BY <1>16, <2>3 DEF RenameTmp, Goto, Fault
  <2>5. Reaches(admitted', s.window, s.count)
    <3>1. CASE verdict[c] = "allowed"
      <4>1. Reaches(admitted, s.window, s.count - 1) /\ <<c, s.window>> \notin admitted
        BY <2>2, <3>1 DEF FateInv
      <4>2. s.count \in Nat
        BY <2>3 DEF Counters
      <4>. QED
        BY <2>4, <3>1, <4>1, <4>2, ReachesOneMore
    <3>2. CASE verdict[c] = "tripped"
      BY <2>2, <2>4, <3>2
    <3>. QED
      BY <2>3, <3>1, <3>2
  <2>. QED
    BY <2>2, <2>4, <2>5
<1>17. ASSUME NEW c \in Callers, WriteSentinel(c) PROVE ExactInv'
  BY <1>17 DEF WriteSentinel, Goto, Answer, Fault, files, history
<1>18. ASSUME NEW r \in Resetters, StartReset(r) PROVE ExactInv'
  BY <1>18 DEF StartReset, Goto, Answer, Fault, files, history
<1>19. ASSUME NEW r \in Resetters, ClearCounter(r) PROVE ExactInv'
  <2>. SUFFICES ASSUME faults = 0, faults' = 0 PROVE ExactInv'
    BY <1>19 DEF ClearCounter, Fault
  <2>1. ~shaken /\ pc[r] = "clear"
    BY <1>19 DEF FateInv, ClearCounter, Goto
  <2>2. \A x \in Callers : pc'[x] = pc[x] /\ pc[x] \notin {"write", "rename"}
    BY <1>19, <2>1 DEF ClearCounter, Goto, CalmInv, Probing, Inside
  <2>3. counter' = Absent
    BY <1>19 DEF ClearCounter, Fault
  <2>. QED
    BY <2>2, <2>3
<1>20. ASSUME NEW r \in Resetters, ClearSentinel(r) PROVE ExactInv'
  BY <1>20 DEF ClearSentinel, Goto, Answer, Fault, files, history
<1>21. ASSUME WindowEnds PROVE ExactInv'
  BY <1>21 DEF WindowEnds, Goto, Answer, Fault, files, history
<1>22. ASSUME LockGetsOld PROVE ExactInv'
  BY <1>22 DEF LockGetsOld, Goto, Answer, Fault, files, history
<1>23. ASSUME CounterDamaged PROVE ExactInv'
  BY <1>23 DEF CounterDamaged, Goto, Answer, Fault, files, history
<1>24. ASSUME UNCHANGED vars PROVE ExactInv'
  BY <1>24 DEF vars, files, history
<1>. HIDE DEF ExactInv
<1>25. QED
  BY <1>1, <1>2, <1>3, <1>4, <1>5, <1>6, <1>7, <1>8, <1>9, <1>10, <1>11, <1>12,
     <1>13, <1>14, <1>15, <1>16, <1>17, <1>18, <1>19, <1>20, <1>21, <1>22, <1>23,
     <1>24,
     Zenon DEF Acts


\* As long as nothing goes wrong, every step leaves a sentinel with its reason.
LEMMA RecordStep ==
    ASSUME BreakerTypeOK, StateInv, CalmInv, CountInv, FateInv, RecordInv, Acts PROVE RecordInv'
<1>. SUFFICES ASSUME faults' = 0 PROVE RecordInv'
  BY DEF RecordInv
<1>. USE DEF RecordInv
<1>1. faults = 0 /\ ~shaken /\ ~Fault
  BY FaultsStay DEF FateInv, Fault, BreakerTypeOK
<1>2. pc \in [Procs -> Labels] /\ verdict \in [Callers -> Verdicts]
  BY DEF BreakerTypeOK
<1>. USE DEF Goto, Standing, Stands, Waiting, Recorded, Deciding, Procs
<1>3. ASSUME NEW p \in Procs,
             \/ ProbeOpens(p) \/ ProbeLooks(p) \/ ProbeReclaims(p) \/ ProbeStamps(p) \/ ProbeUnlinks(p)
             \/ GivesUp(p) \/ TakesLock(p) \/ FindsOld(p) \/ RemovesOld(p) \/ Signs(p)
      PROVE  RecordInv'
  <2>1. /\ UNCHANGED <<sentinel, lifted, barred>>
        /\ pc[p] \in {"probe", "probeReclaim", "stamp", "unprobe", "open", "reclaim", "sign"}
        /\ \A x \in Procs \ {p} : pc'[x] = pc[x]
        /\ \A x \in Callers \ {p} : verdict'[x] = verdict[x]
        /\ pc'[p] # "start"
    BY <1>1, <1>2, <1>3 DEF ProbeOpens, ProbeLooks, ProbeReclaims, ProbeStamps, ProbeUnlinks, GivesUp,
       TakesLock, FindsOld, RemovesOld, Signs, Answer, files, history
  <2>. QED
    BY <1>1, <2>1
<1>4. ASSUME NEW p \in Procs, Releases(p) PROVE RecordInv'
  <2>1. /\ UNCHANGED <<sentinel, verdict>> /\ pc[p] = "release" /\ lifted' = lifted \ {p}
        /\ \A x \in Procs \ {p} : pc'[x] = pc[x]
        /\ pc'[p] = "done"
        /\ barred' = IF p \in Callers \ lifted /\ verdict[p] \in Recorded
                     THEN barred \cup Waiting ELSE barred
    BY <1>2, <1>4 DEF Releases, files
  <2>. QED
    BY <1>1, <2>1
<1>5. ASSUME NEW c \in Callers, FastPath(c) PROVE RecordInv'
  <2>1. /\ UNCHANGED <<sentinel, lifted>> /\ pc[c] = "start"
        /\ pc'[c] \in {"probe", "done"} /\ \A x \in Callers \ {c} : pc'[x] = pc[x] /\ verdict'[x] = verdict[x]
        /\ barred \subseteq barred'
    BY <1>2, <1>5 DEF FastPath, Answer, files
  <2>. QED
    BY <1>1, <2>1
<1>6. ASSUME NEW c \in Callers, ReadCounter(c) PROVE RecordInv'
  <2>1. /\ UNCHANGED <<sentinel, lifted, barred>> /\ pc[c] = "read"
        /\ pc'[c] # "start" /\ \A x \in Callers \ {c} : pc'[x] = pc[x] /\ verdict'[x] = verdict[x]
    BY <1>2, <1>6, Decision DEF ReadCounter, files, history
  <2>. QED
    BY <1>1, <2>1
<1>7. ASSUME NEW c \in Callers, WriteTmp(c) \/ RenameTmp(c) PROVE RecordInv'
  <2>1. RenameTmp(c) => tmp # Absent
    BY <1>1, FilesAssumption DEF RenameTmp, CountInv, StateInv
  <2>2. /\ UNCHANGED <<sentinel, lifted, barred, verdict>> /\ pc[c] \in {"write", "rename"}
        /\ pc'[c] \in {"rename", "sentinel", "release"} /\ \A x \in Callers \ {c} : pc'[x] = pc[x]
    BY <1>1, <1>2, <1>7, <2>1 DEF WriteTmp, RenameTmp, history
  <2>. QED
    BY <1>1, <2>2
<1>8. ASSUME NEW c \in Callers, WriteSentinel(c) PROVE RecordInv'
  <2>1. /\ UNCHANGED <<lifted, verdict>> /\ pc[c] = "sentinel" /\ pc'[c] = "release"
    BY <1>1, <1>2, <1>8 DEF WriteSentinel, history
  <2>2. c \in Standing'
    BY <1>1, <2>1 DEF FateInv
  <2>. QED
    BY <1>1, <2>1, <2>2
<1>9. ASSUME NEW r \in Resetters, ClearSentinel(r) PROVE RecordInv'
  <2>1. pc[r] = "clearSentinel" /\ \A c \in Callers : pc[c] \notin Deciding \cup {"dead"}
    BY <1>1, <1>9, PartiesAssumption DEF ClearSentinel, CalmInv, Inside
  <2>2. \A c \in Callers : verdict[c] \in Recorded => pc[c] = "done"
    BY <2>1 DEF FateInv
  <2>3. sentinel' = Absent /\ lifted' = lifted
    <3>1. {d \in Callers : verdict[d] \in Recorded /\ pc[d] # "done"} = {}
      BY <2>2
    <3>. HIDE DEF Recorded
    <3>2. /\ sentinel' = Absent
          /\ lifted' = lifted \cup {d \in Callers : verdict[d] \in Recorded /\ pc[d] # "done"}
      BY <1>1, <1>9 DEF ClearSentinel
    <3>. QED
      BY <3>1, <3>2, Zenon
  <2>. QED
    BY <1>1, <2>3
<1>10. ASSUME NEW r \in Resetters, StartReset(r) \/ ClearCounter(r) PROVE RecordInv'
  <2>1. UNCHANGED <<sentinel, lifted, barred, verdict>> /\ \A x \in Callers : pc'[x] = pc[x]
    BY <1>2, <1>10, PartiesAssumption DEF StartReset, ClearCounter, files, history
  <2>. QED
    BY <1>1, <2>1
<1>11. CASE WindowEnds \/ UNCHANGED vars
  BY <1>1, <1>11 DEF WindowEnds, vars, files, history
<1>. QED
  BY <1>1, <1>3, <1>4, <1>5, <1>6, <1>7, <1>8, <1>9, <1>10, <1>11
     DEF Acts, Kill, LockGetsOld, CounterDamaged
-----------------------------------------------------------------------------

\* The invariant holds at the start.
LEMMA InitInv == Init => BreakerInv
<1>. SUFFICES ASSUME Init PROVE BreakerInv
  OBVIOUS
<1>. USE PartiesAssumption, FilesAssumption, LimitsAssumption DEF Init, Procs
<1>1. BreakerTypeOK
  <2>1. shaken \in BOOLEAN
    BY Zenon DEF Init
  <2>2. window \in Windows /\ faults \in 0 .. MaxFaults
    BY DEF Windows
  <2>3. pc \in [Procs -> Labels]
    BY DEF Labels
  <2>. QED
    BY <2>1, <2>2, <2>3 DEF BreakerTypeOK, Verdicts
<1>2. StateInv /\ NoStrayLock /\ TripInv /\ FateInv /\ ExactInv /\ RecordInv
  BY DEF StateInv, NoStrayLock, TripInv, FateInv, ExactInv, RecordInv, Deciding
<1>3. CalmInv
  BY DEF CalmInv, Probing, Inside
<1>4. \A w \in Windows : Cardinality(CallsIn(admitted, w)) <= Max
  <2>1. \A w : CallsIn(admitted, w) = {}
    BY DEF CallsIn
  <2>. QED
    BY <2>1, FS_EmptySet
<1>5. CountInv
  BY <1>4 DEF CountInv
<1>. QED
  BY <1>1, <1>2, <1>3, <1>5 DEF BreakerInv

\* Every step keeps the invariant.
LEMMA StepInv == BreakerInv /\ [Next]_vars => BreakerInv'
<1>. SUFFICES ASSUME BreakerInv, [Next]_vars PROVE BreakerInv'
  OBVIOUS
<1>1. Acts
  BY Steps
<1>2. BreakerTypeOK' /\ StateInv' /\ NoStrayLock' /\ CalmInv'
  BY <1>1, TypeStep, StateStep, StrayStep, CalmStep DEF BreakerInv
<1>3. CountInv' /\ TripInv' /\ FateInv' /\ ExactInv'
  BY <1>1, CountStep, TripStep, FateStep, ExactStep DEF BreakerInv
<1>4. RecordInv'
  BY <1>1, RecordStep DEF BreakerInv
<1>. QED
  BY <1>2, <1>3, <1>4 DEF BreakerInv

LEMMA AlwaysInv == Spec => []BreakerInv
  BY InitInv, StepInv, PTL DEF Spec

\* The types hold: among them, no count in a file goes beyond Max.
THEOREM BreakerTypeCorrect == Spec => []BreakerTypeOK
<1>1. BreakerInv => BreakerTypeOK
  BY DEF BreakerInv
<1>. QED
  BY <1>1, AlwaysInv, PTL

\* As long as no process has died with a lock file and none has got old, one
\* process at a time works on the files, for any number of calls and resets.
THEOREM LockExcludes == Spec => []OneInside
<1>1. BreakerInv => OneInside
  BY DEF BreakerInv, CalmInv, OneInside
<1>. QED
  BY <1>1, AlwaysInv, PTL

\* Under the same condition, no more than Max calls are admitted in a window,
\* whatever Max is and however many processes call.
THEOREM CapIsKept == Spec => []CapHolds
<1>1. BreakerInv => CapHolds
  BY DEF BreakerInv, CountInv, CapHolds, CallsIn, AdmittedIn
<1>. QED
  BY <1>1, AlwaysInv, PTL

\* No call that comes after a recorded trip was reported is admitted before a
\* reset, for any number of windows, deletions, failures and deaths.  (A "tripped"
\* that stands for an error has no record, and nothing is claimed of it.)
THEOREM TripIsKept == Spec => []TripHolds
<1>1. BreakerInv => TripHolds
  BY DEF BreakerInv, TripInv, TripHolds
<1>. QED
  BY <1>1, AlwaysInv, PTL

\* A lock file is never left behind but by a process that dies or whose unlink
\* fails.
THEOREM LocksGoAway == Spec => []NoStrayLock
<1>1. BreakerInv => NoStrayLock
  BY DEF BreakerInv
<1>. QED
  BY <1>1, AlwaysInv, PTL
-----------------------------------------------------------------------------
(* CircuitBreaker implements AdvisoryLock.                                 *)

InsideNow == {p \in Procs : pc[p] \in Inside}
LockMove == [Lock!LockNext]_(Lock!lockVars)

\* What shook the lock is never forgotten.
LEMMA ShakenStays == ASSUME BreakerTypeOK, Acts, shaken PROVE shaken'
<1>1. ASSUME NEW p \in Procs, ProbeUnlinks(p) \/ Releases(p) PROVE shaken'
  BY <1>1, Unlinking DEF ProbeUnlinks, Releases
<1>. QED
  BY <1>1 DEF BreakerTypeOK, Acts, ProbeOpens, ProbeLooks, ProbeReclaims, ProbeStamps, GivesUp,
     TakesLock, FindsOld, RemovesOld, Signs, Kill, FastPath, ReadCounter, WriteTmp,
     RenameTmp, WriteSentinel, StartReset, ClearCounter, ClearSentinel, WindowEnds, LockGetsOld,
     CounterDamaged, vars, history

\* As long as nobody goes in or out, at most the lock is shaken.
LEMMA SameInside == ASSUME BreakerTypeOK, Acts, InsideNow' = InsideNow PROVE LockMove
<1>1. CASE ~shaken' <=> ~shaken
  BY <1>1, Zenon DEF LockMove, Lock!lockVars, InsideNow
<1>2. CASE ~(~shaken' <=> ~shaken)
  <2>1. ~shaken /\ shaken'
    BY <1>2, ShakenStays
  <2>2. (~shaken)' = FALSE
    BY <2>1, Zenon
  <2>3. Lock!Unsettle
    BY <2>1, <2>2, Zenon DEF Lock!Unsettle, InsideNow
  <2>. QED
    BY <2>3, Zenon DEF LockMove, Lock!LockNext
<1>. QED
  BY <1>1, <1>2

\* Every step lets one process in, lets one out, or leaves those inside alone.
LEMMA LockMaps == ASSUME BreakerInv, Acts PROVE LockMove
<1>. USE DEF Goto, InsideNow
<1>0. DOMAIN pc = Procs /\ Callers \subseteq Procs /\ Resetters \subseteq Procs /\ BreakerTypeOK
  BY DEF BreakerInv, BreakerTypeOK, Procs
<1>1. ASSUME NEW p \in Procs, TakesLock(p) PROVE LockMove
  <2>1. p \notin InsideNow /\ InsideNow' = InsideNow \cup {p} /\ UNCHANGED shaken
    BY <1>0, <1>1 DEF TakesLock, Inside, history
  <2>2. ASSUME ~shaken PROVE InsideNow = {}
    BY <1>1, <2>2 DEF BreakerInv, CalmInv, TakesLock
  <2>3. Lock!Enter(p)
    BY <2>1, <2>2, Zenon DEF Lock!Enter
  <2>. QED
    BY <2>3, Zenon DEF LockMove, Lock!LockNext
<1>2. ASSUME NEW p \in Procs, Releases(p) \/ (Kill(p) /\ p \in InsideNow) PROVE LockMove
  <2>1. p \in InsideNow /\ InsideNow' = InsideNow \ {p}
    BY <1>0, <1>2 DEF Releases, Kill, Inside
  <2>2. (~shaken)' => ~shaken
    BY <1>0, ShakenStays
  <2>3. Lock!Leave(p)
    BY <2>1, <2>2, Zenon DEF Lock!Leave
  <2>. QED
    BY <2>3, Zenon DEF LockMove, Lock!LockNext
<1>3. ASSUME NEW p \in Procs,
             \/ ProbeOpens(p) \/ ProbeLooks(p) \/ ProbeReclaims(p) \/ ProbeStamps(p)
             \/ ProbeUnlinks(p) \/ GivesUp(p) \/ FindsOld(p) \/ RemovesOld(p) \/ Signs(p)
             \/ (Kill(p) /\ p \notin InsideNow)
      PROVE  LockMove
  <2>1. InsideNow' = InsideNow
    BY <1>0, <1>3 DEF ProbeOpens, ProbeLooks, ProbeReclaims, ProbeStamps, ProbeUnlinks, GivesUp,
       FindsOld, RemovesOld, Signs, Kill, Inside
  <2>. QED
    BY <1>0, <2>1, SameInside
<1>4. ASSUME NEW c \in Callers,
             FastPath(c) \/ ReadCounter(c) \/ WriteTmp(c) \/ RenameTmp(c) \/ WriteSentinel(c)
      PROVE  LockMove
  <2>1. InsideNow' = InsideNow
    BY <1>0, <1>4 DEF FastPath, ReadCounter, WriteTmp, RenameTmp, WriteSentinel, Inside
  <2>. QED
    BY <1>0, <2>1, SameInside
<1>5. ASSUME NEW r \in Resetters, StartReset(r) \/ ClearCounter(r) \/ ClearSentinel(r)
      PROVE  LockMove
  <2>1. InsideNow' = InsideNow
    BY <1>0, <1>5 DEF StartReset, ClearCounter, ClearSentinel, Inside
  <2>. QED
    BY <1>0, <2>1, SameInside
<1>6. CASE WindowEnds \/ LockGetsOld \/ CounterDamaged \/ UNCHANGED vars
  <2>1. InsideNow' = InsideNow
    BY <1>6 DEF WindowEnds, LockGetsOld, CounterDamaged, vars
  <2>. QED
    BY <1>0, <2>1, SameInside
<1>. QED
  BY <1>1, <1>2, <1>3, <1>4, <1>5, <1>6 DEF Acts

\* Until a process dies with the lock file or it gets old, it is a lock, whatever
\* probes take and remove it in between.
THEOREM BreakerLockImplemented == Spec => ImplementsLock
<1>1. Init => Lock!LockInit
  <2>. SUFFICES ASSUME Init PROVE Lock!LockInit
    OBVIOUS
  <2>1. InsideNow = {}
    BY DEF Init, InsideNow, Inside
  <2>2. (~shaken) = TRUE
    BY Zenon DEF Init
  <2>. QED
    BY <2>1, <2>2, Zenon DEF Lock!LockInit, InsideNow
<1>2. BreakerInv /\ [Next]_vars => [Lock!LockNext]_(Lock!lockVars)
  BY Steps, LockMaps DEF LockMove
<1>. QED
  BY <1>1, <1>2, AlwaysInv, PTL DEF Spec, ImplementsLock, Lock!LockSpec
-----------------------------------------------------------------------------
(* CircuitBreaker implements ExtractionBudget.                             *)

BudgetMove == [Budget!BudgetNext]_(Budget!budgetVars)

\* What the budget sees of a call.
SameCall(c) == Stage(c)' = Stage(c) /\ Outcome(c)' = Outcome(c) /\ (Stands(c)' <=> Stands(c))
SameCalls == \A c \in Callers : SameCall(c)
OnlyCall(c) == \A d \in Callers \ {c} : SameCall(d)

\* What the budget sees, as functions and a set, when no call changes.
LEMMA SameView ==
    ASSUME SameCalls
    PROVE  Stages' = Stages /\ Outcomes' = Outcomes /\ Standing' = Standing
  BY DEF SameCalls, SameCall, Stages, Outcomes, Standing

\* The same, when one call changes.
LEMMA OneView ==
    ASSUME NEW c \in Callers, OnlyCall(c), NEW s, Stage(c)' = s, NEW o, Outcome(c)' = o
    PROVE  /\ Stages' = [Stages EXCEPT ![c] = s]
           /\ Outcomes' = [Outcomes EXCEPT ![c] = o]
           /\ Stands(c)' => Standing' = Standing \cup {c}
           /\ ~Stands(c)' => Standing' = Standing \ {c}
           /\ Stages[c] = Stage(c) /\ Outcomes[c] = Outcome(c) /\ (c \in Standing <=> Stands(c))
           /\ s = Stage(c) => Stages' = Stages
           /\ o = Outcome(c) => Outcomes' = Outcomes
           /\ (Stands(c)' <=> Stands(c)) => Standing' = Standing
<1>. USE DEF OnlyCall, SameCall
<1>1. Stages' = [Stages EXCEPT ![c] = s] /\ Stages[c] = Stage(c) /\ (s = Stage(c) => Stages' = Stages)
  BY DEF Stages
<1>2. Outcomes' = [Outcomes EXCEPT ![c] = o] /\ Outcomes[c] = Outcome(c)
      /\ (o = Outcome(c) => Outcomes' = Outcomes)
  BY DEF Outcomes
<1>3. /\ Stands(c)' => Standing' = Standing \cup {c}
      /\ ~Stands(c)' => Standing' = Standing \ {c}
      /\ c \in Standing <=> Stands(c)
      /\ (Stands(c)' <=> Stands(c)) => Standing' = Standing
  BY DEF Standing
<1>. QED
  BY <1>1, <1>2, <1>3

\* A step that no call notices is trouble at most.
LEMMA Unnoticed ==
    ASSUME BreakerTypeOK, Acts, SameCalls, admitted' = admitted, barred' = barred
    PROVE  BudgetMove
<1>1. ((~shaken)' => ~shaken) /\ ((faults = 0)' => faults = 0)
  BY ShakenStays, FaultsStay
<1>2. Stages' = Stages /\ Outcomes' = Outcomes /\ Standing' = Standing
  BY SameView
<1>3. Budget!Trouble
  BY <1>1, <1>2, Zenon DEF Budget!Trouble
<1>. QED
  BY <1>3, Zenon DEF BudgetMove, Budget!BudgetNext

\* A step of one process is not noticed by the calls of the others.
LEMMA StepOfOne ==
    ASSUME BreakerTypeOK, NEW p \in Procs, NEW to, pc' = [pc EXCEPT ![p] = to],
           \A d \in Callers \ {p} : verdict'[d] = verdict[d] /\ (d \in lifted' <=> d \in lifted)
    PROVE  \A d \in Callers \ {p} : SameCall(d)
<1>1. \A d \in Callers \ {p} : pc'[d] = pc[d]
  BY DEF BreakerTypeOK, Procs
<1>. QED
  BY <1>1 DEF SameCall, Stage, Outcome, Stands, Recorded

\* Who has not asked yet.
LEMMA WaitingCalls == Budget!Waiting = Waiting
  BY DEF Budget!Waiting, Waiting, Stages, Stage

\* Looking at the sentinel begins a call or finds a trip.
LEMMA FastPathMaps == ASSUME BreakerInv, NEW c \in Callers, FastPath(c) PROVE BudgetMove
<1>. USE DEF BreakerInv, Procs
<1>1. PICK to : pc' = [pc EXCEPT ![c] = to]
  BY DEF FastPath, Waiting, Goto
<1>2. OnlyCall(c)
  BY <1>1, StepOfOne DEF FastPath, Answer, OnlyCall, history
<1>3. pc[c] = "start" /\ verdict[c] = "none" /\ UNCHANGED <<admitted, shaken, faults>>
  BY DEF FastPath, Goto, FateInv, Deciding
<1>4. Stage(c) = "waiting" /\ Outcome(c) = "none" /\ ~Stands(c)
  BY <1>3 DEF Stage, Outcome, Stands, Recorded
<1>5. (~shaken)' = ~shaken /\ (faults = 0)' = (faults = 0)
  BY <1>3
<1>6. CASE sentinel = Absent
  <2>1. pc'[c] = "probe" /\ verdict'[c] = "none"
    BY <1>3, <1>6 DEF FastPath, Waiting, Goto, BreakerTypeOK
  <2>2. Stage(c)' = "open" /\ Outcome(c)' = "none" /\ ~Stands(c)'
    BY <2>1 DEF Stage, Outcome, Stands, Recorded, Deciding
  <2>3. /\ Stages' = [Stages EXCEPT ![c] = "open"] /\ Stages[c] = "waiting"
        /\ Outcomes' = Outcomes /\ Standing' = Standing
    BY <1>2, <1>4, <2>2, OneView
  <2>4. barred' = barred
    BY <1>6 DEF FastPath
  <2>5. Budget!Begin(c)
    BY <1>3, <1>5, <2>3, <2>4, Zenon DEF Budget!Begin
  <2>. QED
    BY <2>5, Zenon DEF BudgetMove, Budget!BudgetNext
<1>7. CASE sentinel # Absent
  <2>1. pc'[c] = "done" /\ verdict'[c] = "sentinel"
    BY <1>3, <1>7 DEF FastPath, Goto, Answer, BreakerTypeOK
  <2>2. Stage(c)' = "answered" /\ Outcome(c)' = "tripped" /\ ~Stands(c)'
    BY <2>1 DEF Stage, Outcome, Stands, Recorded, Deciding
  <2>3. /\ Stages' = [Stages EXCEPT ![c] = "answered"] /\ Stages[c] = "waiting"
        /\ Outcomes' = [Outcomes EXCEPT ![c] = "tripped"] /\ Outcomes[c] = "none"
        /\ Standing' = Standing
    BY <1>2, <1>4, <2>2, OneView
  <2>4. barred' = barred \cup Budget!Waiting
    BY <1>7, WaitingCalls DEF FastPath
  <2>5. faults = 0 => c \in barred \/ Standing # {}
    BY <1>3, <1>7 DEF RecordInv, Waiting
  <2>6. Budget!Find(c)
    BY <1>3, <1>5, <2>3, <2>4, <2>5, Zenon DEF Budget!Find
  <2>. QED
    BY <2>6, Zenon DEF BudgetMove, Budget!BudgetNext
<1>. QED
  BY <1>6, <1>7

\* Who does not get the lock is refused.
LEMMA GivesUpMaps == ASSUME BreakerInv, Acts, NEW p \in Procs, GivesUp(p) PROVE BudgetMove
<1>. USE DEF BreakerInv
<1>1. pc' = [pc EXCEPT ![p] = "done"] /\ pc[p] \in {"probe", "open"}
      /\ UNCHANGED <<admitted, barred, shaken, faults, lifted>>
  BY DEF GivesUp, Goto, history
<1>2. \A d \in Callers \ {p} : SameCall(d)
  BY <1>1, StepOfOne DEF GivesUp, Answer
<1>3. (~shaken)' = ~shaken /\ (faults = 0)' = (faults = 0)
  BY <1>1
<1>4. CASE p \in Callers
  <2>1. verdict[p] = "none" /\ verdict'[p] = "lock_unavailable" /\ pc'[p] = "done"
    BY <1>1, <1>4 DEF GivesUp, Answer, FateInv, Deciding, BreakerTypeOK, Procs
  <2>2. Stage(p) = "open" /\ Outcome(p) = "none" /\ ~Stands(p)
    BY <1>1, <2>1 DEF Stage, Outcome, Stands, Recorded
  <2>3. Stage(p)' = "answered" /\ Outcome(p)' = "lock_unavailable" /\ ~Stands(p)'
    BY <2>1 DEF Stage, Outcome, Stands, Recorded, Deciding
  <2>4. /\ Stages' = [Stages EXCEPT ![p] = "answered"] /\ Stages[p] = "open"
        /\ Outcomes' = [Outcomes EXCEPT ![p] = "lock_unavailable"] /\ Outcomes[p] = "none"
        /\ Standing' = Standing
    BY <1>2, <1>4, <2>2, <2>3, OneView DEF OnlyCall
  <2>6. Budget!Refuse(p)
    BY <1>1, <1>3, <2>4, Zenon DEF Budget!Refuse
  <2>. QED
    BY <1>4, <2>6, Zenon DEF BudgetMove, Budget!BudgetNext
<1>5. CASE p \notin Callers
  BY <1>1, <1>2, <1>5, Unnoticed DEF SameCalls
<1>. QED
  BY <1>4, <1>5

\* Releasing the lock answers the call.
LEMMA ReleasesMaps == ASSUME BreakerInv, Acts, NEW p \in Procs, Releases(p) PROVE BudgetMove
<1>. USE DEF BreakerInv
<1>1. pc' = [pc EXCEPT ![p] = "done"] /\ pc[p] = "release" /\ lifted' = lifted \ {p}
      /\ UNCHANGED <<admitted, verdict>>
  BY DEF Releases, Goto
<1>2. \A d \in Callers \ {p} : SameCall(d)
  BY <1>1, StepOfOne
<1>3. ((~shaken)' => ~shaken) /\ ((faults = 0)' => faults = 0)
  BY ShakenStays, FaultsStay
<1>4. CASE p \in Callers
  <2>1. verdict[p] # "none" /\ pc'[p] = "done"
    BY <1>1, <1>4 DEF FateInv, BreakerTypeOK
  <2>2. Stage(p) = "open" /\ Outcome(p) # "none"
        /\ (Stands(p) <=> verdict[p] \in Recorded /\ p \notin lifted)
    BY <1>1, <2>1 DEF Stage, Outcome, Stands, Recorded, Deciding
  <2>3. Stage(p)' = "answered" /\ Outcome(p)' = Outcome(p) /\ ~Stands(p)'
    BY <1>1, <2>1, <2>2 DEF Stage, Outcome, Stands, Recorded, Deciding
  <2>4. /\ Stages' = [Stages EXCEPT ![p] = "answered"] /\ Stages[p] = "open"
        /\ Outcomes' = Outcomes /\ Outcomes[p] # "none"
        /\ Standing' = Standing \ {p} /\ (p \in Standing <=> Stands(p))
    BY <1>2, <1>4, <2>1, <2>2, <2>3, OneView DEF OnlyCall
  <2>6. barred' = IF p \in Standing THEN barred \cup Budget!Waiting ELSE barred
    BY <1>4, <2>2, <2>4, WaitingCalls DEF Releases
  <2>7. Budget!Answer(p)
    BY <1>1, <1>3, <2>4, <2>6, Zenon DEF Budget!Answer
  <2>. QED
    BY <1>4, <2>7, Zenon DEF BudgetMove, Budget!BudgetNext
<1>5. CASE p \notin Callers
  BY <1>1, <1>2, <1>5, Unnoticed DEF SameCalls, Releases
<1>. QED
  BY <1>4, <1>5

\* A call that dies is lost.
LEMMA KillMaps == ASSUME BreakerInv, Acts, NEW p \in Procs, Kill(p) PROVE BudgetMove
<1>. USE DEF BreakerInv
<1>1. pc' = [pc EXCEPT ![p] = "dead"] /\ pc[p] \in Probing \cup Inside /\ lifted' = lifted \ {p}
      /\ UNCHANGED <<admitted, barred>> /\ shaken' /\ faults' = faults + 1
  BY DEF Kill, Fault
<1>2. \A d \in Callers \ {p} : SameCall(d)
  BY <1>1, StepOfOne DEF Kill, Answer
<1>3. faults' # 0
  BY <1>1, LimitsAssumption DEF BreakerTypeOK
<1>4. (~shaken)' = FALSE /\ (faults = 0)' = FALSE
  BY <1>1, <1>3
<1>5. CASE p \in Callers
  <2>1. verdict'[p] = "none" /\ pc'[p] = "dead"
    BY <1>1, <1>5 DEF Kill, Answer, BreakerTypeOK
  <2>2. Stage(p) = "open"
    BY <1>1 DEF Stage, Probing, Inside
  <2>3. Stage(p)' = "lost" /\ Outcome(p)' = "none" /\ ~Stands(p)'
    BY <2>1 DEF Stage, Outcome, Stands, Recorded, Deciding
  <2>4. /\ Stages' = [Stages EXCEPT ![p] = "lost"] /\ Stages[p] = "open"
        /\ Outcomes' = [Outcomes EXCEPT ![p] = "none"]
        /\ Standing' = Standing \ {p}
    BY <1>2, <1>5, <2>2, <2>3, OneView DEF OnlyCall
  <2>5. Budget!Lose(p)
    BY <1>1, <1>4, <2>4, Zenon DEF Budget!Lose
  <2>. QED
    BY <1>5, <2>5, Zenon DEF BudgetMove, Budget!BudgetNext
<1>6. CASE p \notin Callers
  BY <1>1, <1>2, <1>6, Unnoticed DEF SameCalls
<1>. QED
  BY <1>5, <1>6

\* The budget counts calls the way CallsIn does.
LEMMA UsedIsCalls == \A w : Budget!Used(w) = Cardinality(CallsIn(admitted, w))
<1>1. \A S : Budget!Cardinality(S) = Cardinality(S)
  BY DEF Budget!Cardinality, Cardinality
<1>. QED
  BY <1>1 DEF Budget!Used, CallsIn

\* A trip is decided when the budget of the window is spent.
LEMMA SpentIsUsed ==
    ASSUME BreakerInv, counter # Corrupt, Rolled(counter).count >= Max, faults = 0
    PROVE  \E w \in Windows : Budget!Used(w) = Max
<1>. USE LimitsAssumption DEF BreakerInv
<1>. DEFINE x == Cardinality(CallsIn(admitted, window))
<1>1. window \in Windows /\ Rolled(counter).window = window /\ Rolled(counter).count \in Nat
  BY RolledState DEF BreakerTypeOK, Counters
<1>2. Reaches(admitted, window, Rolled(counter).count)
  BY <1>1, RolledReaches
<1>3. x <= Max
  BY <1>1 DEF FateInv, CountInv
<1>4. x \in Nat /\ x >= Rolled(counter).count
  BY <1>2, CallsFinite DEF Reaches
<1>. HIDE DEF x
<1>5. x = Max
  BY <1>1, <1>3, <1>4
<1>6. Budget!Used(window) = Max
  BY <1>5, UsedIsCalls DEF x
<1>. QED
  BY <1>1, <1>6

\* Reading the counter decides a trip, or nothing that a caller could notice yet.
LEMMA ReadCounterMaps == ASSUME BreakerInv, Acts, NEW c \in Callers, ReadCounter(c) PROVE BudgetMove
<1>. USE DEF BreakerInv
<1>1. pc[c] = "read" /\ UNCHANGED <<admitted, barred, shaken, faults, lifted>>
      /\ \A d \in Callers \ {c} : pc'[d] = pc[d] /\ verdict'[d] = verdict[d]
  BY Decision DEF ReadCounter, history, Procs
<1>2. OnlyCall(c)
  BY <1>1 DEF OnlyCall, SameCall, Stage, Outcome, Stands, Recorded
<1>3. (~shaken)' = ~shaken /\ (faults = 0)' = (faults = 0)
  BY <1>1
<1>4. verdict[c] = "none" /\ c \notin lifted
  BY <1>1 DEF FateInv, Deciding
<1>5. Stage(c) = "open" /\ Outcome(c) = "none" /\ ~Stands(c)
  BY <1>1, <1>4 DEF Stage, Outcome, Stands, Recorded
<1>6. CASE pc'[c] = "sentinel" /\ counter = Corrupt /\ verdict'[c] = "counter_corrupt"
  <2>1. Stage(c)' = "open" /\ Outcome(c)' = "counter_corrupt" /\ Stands(c)'
    BY <1>1, <1>4, <1>6 DEF Stage, Outcome, Stands, Recorded, Deciding
  <2>2. /\ Stages' = Stages /\ Stages[c] = "open" /\ Outcomes[c] = "none"
        /\ Outcomes' = [Outcomes EXCEPT ![c] = "counter_corrupt"]
        /\ Standing' = Standing \cup {c}
    BY <1>2, <1>5, <2>1, OneView
  <2>3. ~(faults = 0)
    BY <1>6 DEF FateInv
  <2>4. Budget!Distrust(c)
    BY <1>1, <1>3, <2>2, <2>3, Zenon DEF Budget!Distrust, Budget!ComesTo
  <2>. QED
    BY <2>4, Zenon DEF BudgetMove, Budget!BudgetNext
<1>7. CASE /\ pc'[c] = "write" /\ counter # Corrupt /\ verdict'[c] = "tripped"
           /\ Rolled(counter).count >= Max
  <2>1. Stage(c)' = "open" /\ Outcome(c)' = "tripped" /\ Stands(c)'
    BY <1>1, <1>4, <1>7 DEF Stage, Outcome, Stands, Recorded, Deciding
  <2>2. /\ Stages' = Stages /\ Stages[c] = "open" /\ Outcomes[c] = "none"
        /\ Outcomes' = [Outcomes EXCEPT ![c] = "tripped"]
        /\ Standing' = Standing \cup {c}
    BY <1>2, <1>5, <2>1, OneView
  <2>3. faults = 0 => \E w \in Windows : Budget!Used(w) = Max
    BY <1>7, SpentIsUsed
  <2>4. Budget!Trip(c)
    BY <1>1, <1>3, <2>2, <2>3, Zenon DEF Budget!Trip, Budget!ComesTo
  <2>. QED
    BY <2>4, Zenon DEF BudgetMove, Budget!BudgetNext
<1>8. CASE pc'[c] = "write" /\ verdict'[c] = "allowed"
  <2>1. Stage(c)' = "open" /\ Outcome(c)' = "none" /\ ~Stands(c)'
    BY <1>8 DEF Stage, Outcome, Stands, Recorded
  <2>2. SameCalls
    BY <1>2, <1>5, <2>1 DEF OnlyCall, SameCalls, SameCall
  <2>. QED
    BY <1>1, <2>2, Unnoticed
<1>. QED
  BY <1>6, <1>7, <1>8, Decision

\* An error turns a call that has not been admitted into one that answers
\* tripped and is not recorded.
LEMMA FailMaps ==
    ASSUME BreakerInv, NEW c \in Callers, pc[c] \in {"sign", "write", "rename", "sentinel"},
           pc' = [pc EXCEPT ![c] = "release"], Answer(c, "internal_error"), faults' # 0,
           UNCHANGED <<admitted, barred, shaken, lifted>>
    PROVE  BudgetMove
<1>. USE DEF BreakerInv
<1>1. OnlyCall(c)
  BY StepOfOne DEF Answer, OnlyCall, Procs
<1>2. pc'[c] = "release" /\ verdict'[c] = "internal_error"
  BY DEF Answer, BreakerTypeOK, Procs
<1>3. Stage(c) = "open" /\ Outcome(c) # "allowed"
  BY DEF Stage, Outcome, FateInv, Deciding
<1>4. Stage(c)' = "open" /\ Outcome(c)' = "tripped" /\ ~Stands(c)'
  BY <1>2 DEF Stage, Outcome, Stands, Recorded
<1>5. /\ Stages' = Stages /\ Stages[c] = "open" /\ Outcomes[c] # "allowed"
      /\ Outcomes' = [Outcomes EXCEPT ![c] = "tripped"]
      /\ Standing' = Standing \ {c}
  BY <1>1, <1>3, <1>4, OneView
<1>6. (~shaken)' = ~shaken /\ (faults = 0)' = FALSE
  OBVIOUS
<1>7. Budget!Fail(c)
  BY <1>5, <1>6, Zenon DEF Budget!Fail
<1>. QED
  BY <1>7, Zenon DEF BudgetMove, Budget!BudgetNext

\* A fault is counted.
LEMMA FaultCounted == ASSUME BreakerTypeOK, Fault PROVE faults' # 0
  BY LimitsAssumption DEF BreakerTypeOK, Fault

\* The temporary file is not noticed, the error is.
LEMMA WriteTmpMaps == ASSUME BreakerInv, Acts, NEW c \in Callers, WriteTmp(c) PROVE BudgetMove
<1>. USE DEF BreakerInv, history
<1>1. CASE Goto(c, "write", "rename") /\ UNCHANGED <<verdict, lifted, admitted, barred>>
  <2>1. OnlyCall(c)
    BY <1>1, StepOfOne DEF OnlyCall, Goto, Procs
  <2>2. pc[c] = "write" /\ pc'[c] = "rename" /\ verdict'[c] = verdict[c]
    BY <1>1 DEF Goto, BreakerTypeOK, Procs
  <2>3. SameCalls
    BY <1>1, <2>1, <2>2 DEF OnlyCall, SameCalls, SameCall, Stage, Outcome, Stands, Recorded, Deciding
  <2>. QED
    BY <1>1, <2>3, Unnoticed
<1>2. CASE Goto(c, "write", "release") /\ Answer(c, "internal_error") /\ Fault
  BY <1>2, FailMaps, FaultCounted DEF Goto, WriteTmp
<1>. QED
  BY <1>1, <1>2 DEF WriteTmp

\* The rename admits the call, within the budget and not after a trip.
LEMMA RenameTmpMaps == ASSUME BreakerInv, Acts, NEW c \in Callers, RenameTmp(c) PROVE BudgetMove
<1>. USE DEF BreakerInv
<1>1. pc[c] = "rename" /\ verdict[c] \in {"allowed", "tripped"}
      /\ state[c] \in Counters /\ state[c].window \in Windows
      /\ UNCHANGED <<barred, shaken, lifted>>
  BY DEF RenameTmp, Goto, StateInv, Counters
<1>3. CASE Goto(c, "rename", "release") /\ Answer(c, "internal_error") /\ UNCHANGED admitted
           /\ (tmp = Absent \/ Fault)
  <2>1. tmp = Absent => shaken
    BY <1>1, FilesAssumption DEF CountInv
  <2>2. faults' # 0
    BY <1>3, <2>1, FaultCounted, FaultsStay DEF FateInv
  <2>. QED
    BY <1>1, <1>3, <2>2, FailMaps DEF Goto
<1>. SUFFICES ASSUME ~(/\ Goto(c, "rename", "release") /\ Answer(c, "internal_error") /\ UNCHANGED admitted
                       /\ (tmp = Absent \/ Fault))
              PROVE  BudgetMove
  BY <1>3
<1>0. tmp # Absent /\ counter' = tmp /\ UNCHANGED <<verdict, faults>>
      /\ Goto(c, "rename", IF verdict[c] = "tripped" THEN "sentinel" ELSE "release")
      /\ admitted' = IF verdict[c] = "allowed"
                     THEN admitted \cup {<<c, state[c].window>>} ELSE admitted
  BY DEF RenameTmp
<1>2. (~shaken)' = ~shaken /\ (faults = 0)' = (faults = 0)
  BY <1>0, <1>1
<1>4. CASE tmp # Absent /\ verdict[c] = "tripped"
  <2>1. pc' = [pc EXCEPT ![c] = "sentinel"] /\ UNCHANGED <<verdict, admitted>>
    BY <1>0, <1>4 DEF Goto
  <2>2. OnlyCall(c)
    BY <1>1, <2>1, StepOfOne DEF OnlyCall, Procs
  <2>3. pc'[c] = "sentinel" /\ verdict'[c] = "tripped"
    BY <1>4, <2>1 DEF BreakerTypeOK, Procs
  <2>4. SameCalls
    BY <1>1, <1>4, <2>2, <2>3 DEF OnlyCall, SameCalls, SameCall, Stage, Outcome, Stands, Recorded, Deciding
  <2>. QED
    BY <1>1, <2>1, <2>4, Unnoticed
<1>5. CASE tmp # Absent /\ verdict[c] = "allowed"
  <2>. DEFINE w == state[c].window
  <2>1. pc' = [pc EXCEPT ![c] = "release"] /\ verdict' = verdict
        /\ admitted' = admitted \cup {<<c, w>>}
    BY <1>0, <1>5 DEF Goto
  <2>2. OnlyCall(c)
    BY <1>1, <2>1, StepOfOne DEF OnlyCall, Procs
  <2>3. pc'[c] = "release" /\ verdict'[c] = "allowed"
    BY <1>5, <2>1 DEF BreakerTypeOK, Procs
  <2>4. /\ Stage(c) = "open" /\ Outcome(c) = "none" /\ ~Stands(c)
        /\ Stage(c)' = "open" /\ Outcome(c)' = "allowed" /\ ~Stands(c)'
    BY <1>1, <1>5, <2>3 DEF Stage, Outcome, Stands, Recorded
  <2>5. /\ Stages' = Stages /\ Stages[c] = "open" /\ Outcomes[c] = "none"
        /\ Outcomes' = [Outcomes EXCEPT ![c] = "allowed"] /\ Standing' = Standing
    BY <2>2, <2>4, OneView
  <2>6. c \notin barred
    BY <1>1 DEF TripInv
  <2>7. ASSUME ~shaken PROVE Budget!Used(w) < Max
    <3>. DEFINE x == Cardinality(CallsIn(admitted, w))
    <3>1. Covers(admitted, w, state[c].count - 1) /\ state[c].count \in 0 .. Max
      BY <1>1, <1>5, <2>7 DEF CountInv, Counters
    <3>2. x <= state[c].count - 1 /\ x \in Nat
      BY <3>1, CallsFinite DEF Covers
    <3>. HIDE DEF x
    <3>3. x < Max
      BY <3>1, <3>2, LimitsAssumption
    <3>. QED
      BY <3>3, UsedIsCalls DEF x
  <2>8. w \in Windows
    BY <1>1
  <2>. HIDE DEF w
  <2>9. Budget!Admit(c)
    BY <1>1, <1>2, <2>1, <2>5, <2>6, <2>7, <2>8, Zenon DEF Budget!Admit, Budget!ComesTo
  <2>. QED
    BY <2>9, Zenon DEF BudgetMove, Budget!BudgetNext
<1>. QED
  BY <1>0, <1>1, <1>4, <1>5

\* The sentinel is not noticed, the error is.
LEMMA WriteSentinelMaps ==
    ASSUME BreakerInv, Acts, NEW c \in Callers, WriteSentinel(c)
    PROVE  BudgetMove
<1>. USE DEF BreakerInv, history
<1>1. CASE UNCHANGED verdict
  <2>1. pc[c] = "sentinel" /\ pc' = [pc EXCEPT ![c] = "release"] /\ UNCHANGED <<lifted, admitted, barred>>
    BY DEF WriteSentinel, Goto
  <2>2. OnlyCall(c)
    BY <1>1, <2>1, StepOfOne DEF OnlyCall, Procs
  <2>3. pc'[c] = "release" /\ verdict'[c] = verdict[c]
    BY <1>1, <2>1 DEF BreakerTypeOK, Procs
  <2>4. SameCalls
    BY <2>1, <2>2, <2>3 DEF OnlyCall, SameCalls, SameCall, Stage, Outcome, Stands, Recorded, Deciding
  <2>. QED
    BY <2>1, <2>4, Unnoticed
<1>2. CASE Answer(c, "internal_error") /\ Fault
  BY <1>2, FailMaps, FaultCounted DEF Goto, WriteSentinel
<1>. QED
  BY <1>1, <1>2 DEF WriteSentinel

\* Where no call notices anything and the count starts again.
LEMMA RestartMaps ==
    ASSUME BreakerInv, Acts, SameCalls, admitted' = {}, UNCHANGED <<barred, shaken>>
    PROVE  BudgetMove
<1>1. Stages' = Stages /\ Outcomes' = Outcomes /\ Standing' = Standing
  BY SameView
<1>2. ((faults = 0)' => faults = 0) /\ (~shaken)' = ~shaken
  BY FaultsStay DEF BreakerInv
<1>3. Budget!Restart
  BY <1>1, <1>2, Zenon DEF Budget!Restart
<1>. QED
  BY <1>3, Zenon DEF BudgetMove, Budget!BudgetNext

\* A reset starts the count again and takes trips back, or fails.
LEMMA ResetMaps ==
    ASSUME BreakerInv, Acts, NEW r \in Resetters, StartReset(r) \/ ClearCounter(r) \/ ClearSentinel(r)
    PROVE  BudgetMove
<1>. USE DEF BreakerInv, history
<1>1. verdict' = verdict /\ shaken' = shaken /\ \A d \in Callers : pc'[d] = pc[d]
  BY PartiesAssumption DEF StartReset, ClearCounter, ClearSentinel, Goto, BreakerTypeOK, Procs
<1>2. CASE lifted' = lifted
  <2>1. SameCalls
    BY <1>1, <1>2 DEF SameCalls, SameCall, Stage, Outcome, Stands, Recorded
  <2>2. CASE UNCHANGED <<admitted, barred>>
    BY <2>1, <2>2, Unnoticed
  <2>3. CASE admitted' = {} /\ UNCHANGED barred
    BY <1>1, <2>1, <2>3, RestartMaps
  <2>4. CASE ClearSentinel(r) /\ barred' = {} /\ UNCHANGED <<admitted, faults>>
             /\ lifted' = lifted \cup {d \in Callers : verdict[d] \in Recorded /\ pc[d] # "done"}
    <3>1. Standing' = {} /\ Standing = {}
      BY <1>1, <1>2, <2>4 DEF Standing, Stands, Recorded, Deciding
    <3>2. Stages' = Stages /\ Outcomes' = Outcomes
      BY <2>1, SameView
    <3>3. (~shaken)' = ~shaken /\ (faults = 0)' = (faults = 0)
      BY <1>1, <2>4
    <3>4. Budget!Lift
      BY <2>4, <3>1, <3>2, <3>3, Zenon DEF Budget!Lift
    <3>. QED
      BY <3>4, Zenon DEF BudgetMove, Budget!BudgetNext
  <2>. QED
    BY <2>2, <2>3, <2>4 DEF StartReset, ClearCounter, ClearSentinel
<1>3. CASE lifted' # lifted
  <2>1. /\ barred' = {} /\ UNCHANGED <<admitted, faults>>
        /\ lifted' = lifted \cup {d \in Callers : verdict[d] \in Recorded /\ pc[d] # "done"}
    BY <1>3 DEF StartReset, ClearCounter, ClearSentinel
  <2>2. Stages' = Stages /\ Outcomes' = Outcomes
    BY <1>1 DEF Stages, Outcomes, Stage, Outcome
  <2>3. Standing' = {}
    BY <1>1, <2>1 DEF Standing, Stands, Recorded, Deciding
  <2>4. (~shaken)' = ~shaken /\ (faults = 0)' = (faults = 0)
    BY <1>1, <2>1
  <2>5. Budget!Lift
    BY <2>1, <2>2, <2>3, <2>4, Zenon DEF Budget!Lift
  <2>. QED
    BY <2>5, Zenon DEF BudgetMove, Budget!BudgetNext
<1>. QED
  BY <1>2, <1>3

\* Every step is one of the budget's.
LEMMA BudgetMaps == ASSUME BreakerInv, Acts PROVE BudgetMove
<1>0. BreakerTypeOK
  BY DEF BreakerInv
<1>1. ASSUME NEW p \in Procs,
             \/ ProbeOpens(p) \/ ProbeLooks(p) \/ ProbeReclaims(p) \/ ProbeStamps(p) \/ ProbeUnlinks(p)
             \/ TakesLock(p) \/ FindsOld(p) \/ RemovesOld(p)
             \/ Signs(p) /\ UNCHANGED verdict
      PROVE  BudgetMove
  <2>1. UNCHANGED <<verdict, lifted, admitted, barred>>
    BY <1>1 DEF ProbeOpens, ProbeLooks, ProbeReclaims, ProbeStamps, ProbeUnlinks, TakesLock,
       FindsOld, RemovesOld, Signs, history
  <2>2. PICK to \in {"stamp", "probeReclaim", "probe", "unprobe", "open", "sign", "reclaim", "read", "clear", "release"} :
           pc' = [pc EXCEPT ![p] = to]
    BY <1>1 DEF ProbeOpens, ProbeLooks, ProbeReclaims, ProbeStamps, ProbeUnlinks, TakesLock,
       FindsOld, RemovesOld, Signs, Goto
  <2>3. pc[p] \in {"probe", "probeReclaim", "stamp", "unprobe", "open", "reclaim", "sign"} /\ pc'[p] = to
    BY <1>0, <1>1, <2>2 DEF ProbeOpens, ProbeLooks, ProbeReclaims, ProbeStamps, ProbeUnlinks, TakesLock,
       FindsOld, RemovesOld, Signs, Goto, BreakerTypeOK
  <2>4. \A d \in Callers \ {p} : SameCall(d)
    BY <1>0, <2>1, <2>2, StepOfOne
  <2>6. p \in Callers => verdict[p] = "none"
    BY <2>3 DEF BreakerInv, FateInv, Deciding
  <2>5. p \in Callers => SameCall(p)
    BY <2>1, <2>3, <2>6 DEF SameCall, Stage, Outcome, Stands, Recorded, Deciding
  <2>. QED
    BY <1>0, <2>1, <2>4, <2>5, Unnoticed DEF SameCalls
<1>6. ASSUME NEW p \in Procs, Signs(p), verdict' # verdict PROVE BudgetMove
  <2>1. /\ Goto(p, "sign", "release") /\ Answer(p, "internal_error") /\ Fault
        /\ UNCHANGED <<admitted, barred, shaken, lifted>>
    BY <1>6 DEF Signs, history
  <2>2. p \in Callers
    BY <1>0, <1>6, <2>1 DEF Answer, BreakerTypeOK
  <2>. QED
    BY <1>0, <2>1, <2>2, FailMaps, FaultCounted DEF Goto
<1>2. ASSUME NEW p \in Procs, GivesUp(p) \/ Releases(p) \/ Kill(p) PROVE BudgetMove
  BY <1>2, GivesUpMaps, ReleasesMaps, KillMaps
<1>3. ASSUME NEW c \in Callers,
             FastPath(c) \/ ReadCounter(c) \/ WriteTmp(c) \/ RenameTmp(c) \/ WriteSentinel(c)
      PROVE  BudgetMove
  BY <1>3, FastPathMaps, ReadCounterMaps, WriteTmpMaps, RenameTmpMaps, WriteSentinelMaps
<1>4. ASSUME NEW r \in Resetters, StartReset(r) \/ ClearCounter(r) \/ ClearSentinel(r)
      PROVE  BudgetMove
  BY <1>4, ResetMaps
<1>5. CASE WindowEnds \/ LockGetsOld \/ CounterDamaged \/ UNCHANGED vars
  <2>1. UNCHANGED <<pc, verdict, lifted, barred>>
    BY <1>5 DEF WindowEnds, LockGetsOld, CounterDamaged, vars, history
  <2>2. SameCalls
    BY <2>1 DEF SameCalls, SameCall, Stage, Outcome, Stands, Recorded
  <2>3. CASE admitted' = admitted
    BY <1>0, <2>1, <2>2, <2>3, Unnoticed
  <2>4. CASE admitted' # admitted
    <3>1. admitted' = {} /\ shaken' = shaken
      BY <1>5, <2>4 DEF WindowEnds, LockGetsOld, CounterDamaged, vars, history
    <3>. QED
      BY <2>1, <2>2, <3>1, RestartMaps
  <2>. QED
    BY <2>3, <2>4
<1>. QED
  BY <1>1, <1>2, <1>3, <1>4, <1>5, <1>6 DEF Acts

\* The breaker is a budget to its callers, for every number of calls, every limit
\* and every number of windows: it admits within it, decides a recorded trip only
\* when it is spent or the counter damaged, holds that trip until a reset, and
\* answers each call once; only an error is reported as a trip without one.
THEOREM BudgetImplemented == Spec => ImplementsBudget
<1>1. Init => Budget!BudgetInit
  <2>. SUFFICES ASSUME Init PROVE Budget!BudgetInit
    OBVIOUS
  <2>1. \A c \in Callers : Stage(c) = "waiting" /\ Outcome(c) = "none" /\ ~Stands(c)
    BY DEF Init, Stage, Outcome, Stands, Recorded, Procs
  <2>2. /\ Stages = [c \in Callers |-> "waiting"] /\ Outcomes = [c \in Callers |-> "none"]
        /\ Standing = {}
    BY <2>1 DEF Stages, Outcomes, Standing
  <2>3. (~shaken) = TRUE
    BY Zenon DEF Init
  <2>4. admitted = {} /\ barred = {} /\ (faults = 0) = TRUE
    BY DEF Init
  <2>. QED
    BY <2>2, <2>3, <2>4, Zenon DEF Budget!BudgetInit
<1>2. BreakerInv /\ [Next]_vars => [Budget!BudgetNext]_(Budget!budgetVars)
  BY Steps, BudgetMaps DEF BudgetMove
<1>. QED
  BY <1>1, <1>2, AlwaysInv, PTL DEF Spec, ImplementsBudget, Budget!BudgetSpec
-----------------------------------------------------------------------------
(* The two abstract specifications are enough to know what the callers     *)
(* are told.                                                               *)

\* A lock that nothing has shaken lets one process in at a time.
THEOREM BreakerLockSuffices == ImplementsLock => []OneInside
<1>1. Lock!LockInit => OneInside
  BY DEF Lock!LockInit, OneInside
<1>2. OneInside /\ [Lock!LockNext]_(Lock!lockVars) => OneInside'
  <2>. SUFFICES ASSUME OneInside, LockMove, (~shaken)' PROVE \A p, q \in InsideNow' : p = q
    BY DEF LockMove, OneInside, InsideNow
  <2>1. (~shaken) => \A p, q \in InsideNow : p = q
    BY DEF OneInside, InsideNow
  <2>2. ASSUME NEW p \in Procs, Lock!Enter(p) PROVE \A q, r \in InsideNow' : q = r
    <3>1. ~shaken
      BY <2>2, Zenon DEF Lock!Enter
    <3>2. InsideNow = {} /\ InsideNow' = InsideNow \cup {p}
      BY <2>2, <3>1 DEF Lock!Enter, InsideNow
    <3>. QED
      BY <3>2
  <2>3. ASSUME NEW p \in Procs, Lock!Leave(p) PROVE \A q, r \in InsideNow' : q = r
    <3>1. ~shaken
      BY <2>3, Zenon DEF Lock!Leave
    <3>2. InsideNow' = InsideNow \ {p}
      BY <2>3 DEF Lock!Leave, InsideNow
    <3>. QED
      BY <2>1, <3>1, <3>2
  <2>4. CASE UNCHANGED Lock!lockVars
    <3>1. ~shaken
      BY <2>4, Zenon DEF Lock!lockVars
    <3>2. InsideNow' = InsideNow
      BY <2>4 DEF Lock!lockVars, InsideNow
    <3>. QED
      BY <2>1, <3>1, <3>2
  <2>5. ~Lock!Unsettle
    BY Zenon DEF Lock!Unsettle
  <2>. QED
    BY <2>2, <2>3, <2>4, <2>5, Zenon DEF LockMove, Lock!LockNext
<1>. QED
  BY <1>1, <1>2, PTL DEF ImplementsLock, Lock!LockSpec

\* What a budget keeps: who has not asked yet is counted nowhere.
KeptBudget ==
    /\ \A c \in Callers : Stages[c] = "waiting" => \A w \in Windows : <<c, w>> \notin admitted
    /\ TripHolds
    /\ CapHolds

\* A step that admits nobody and bars only calls that have not asked yet.
LEMMA NobodyAdmitted ==
    ASSUME KeptBudget, admitted' \in {admitted, {}}, (~shaken)' => ~shaken,
           \A c \in Callers : Stages'[c] = "waiting" => Stages[c] = "waiting",
           \A c \in barred' \ barred : c \in Callers /\ Stages[c] = "waiting"
    PROVE  KeptBudget'
<1>1. admitted' \subseteq admitted
  OBVIOUS
<1>2. TripHolds'
  BY <1>1 DEF KeptBudget, TripHolds
<1>3. CapHolds'
  <2>. SUFFICES ASSUME ~shaken, NEW w \in Windows PROVE Cardinality(AdmittedIn(w)') <= Max
    BY Zenon DEF CapHolds
  <2>1. CASE admitted' = admitted
    <3>1. AdmittedIn(w)' = AdmittedIn(w)
      BY <2>1 DEF AdmittedIn
    <3>. QED
      BY <3>1 DEF KeptBudget, CapHolds
  <2>2. CASE admitted' = {}
    <3>1. AdmittedIn(w)' = {}
      BY <2>2 DEF AdmittedIn
    <3>. QED
      BY <3>1, FS_EmptySet, LimitsAssumption
  <2>. QED
    BY <2>1, <2>2
<1>. QED
  BY <1>1, <1>2, <1>3 DEF KeptBudget

\* An admission is counted in one window, and that has room for it.
LEMMA OneAdmitted ==
    ASSUME KeptBudget, NEW c \in Callers, Budget!Admit(c)
    PROVE  KeptBudget'
<1>1. /\ c \notin barred /\ Stages[c] = "open" /\ Stages' = Stages /\ barred' = barred
  BY DEF Budget!Admit, Budget!ComesTo
<1>2. (~shaken)' = ~shaken
  BY Zenon DEF Budget!Admit, Budget!ComesTo
<1>3. PICK w \in Windows : (~shaken => Budget!Used(w) < Max) /\ admitted' = admitted \cup {<<c, w>>}
  BY Zenon DEF Budget!Admit
<1>4. TripHolds'
  BY <1>1, <1>3 DEF KeptBudget, TripHolds
<1>5. CapHolds'
  <2>. SUFFICES ASSUME ~shaken, NEW v \in Windows PROVE Cardinality(AdmittedIn(v)') <= Max
    BY <1>2, Zenon DEF CapHolds
  <2>1. CASE v # w
    <3>1. AdmittedIn(v)' = AdmittedIn(v)
      BY <1>3, <2>1 DEF AdmittedIn
    <3>. QED
      BY <3>1 DEF KeptBudget, CapHolds
  <2>2. CASE v = w
    <3>. DEFINE n == Cardinality(AdmittedIn(w))
                m == Cardinality(AdmittedIn(w)')
    <3>1. AdmittedIn(w) = CallsIn(admitted, w) /\ AdmittedIn(w)' = AdmittedIn(w) \cup {c}
      BY <1>3 DEF AdmittedIn, CallsIn
    <3>2. IsFiniteSet(AdmittedIn(w)) /\ n \in Nat
      BY <3>1, CallsFinite
    <3>3. n < Max
      BY <1>3, <3>1, UsedIsCalls
    <3>4. m = n \/ m = n + 1
      BY <3>1, <3>2, FS_AddElement
    <3>. HIDE DEF n, m
    <3>5. m <= Max
      BY <3>2, <3>3, <3>4, LimitsAssumption
    <3>. QED
      BY <2>2, <3>5 DEF m
  <2>. QED
    BY <2>1, <2>2
<1>. QED
  BY <1>1, <1>3, <1>4, <1>5 DEF KeptBudget

LEMMA BudgetStep == ASSUME KeptBudget, BudgetMove PROVE KeptBudget'
<1>0. DOMAIN Stages = Callers
  BY DEF Stages
<1>1. CASE Budget!Trouble \/ Budget!Restart \/ Budget!Lift \/ UNCHANGED Budget!budgetVars
  <2>1. /\ admitted' \in {admitted, {}} /\ Stages' = Stages /\ barred' \subseteq barred
    BY <1>1 DEF Budget!Trouble, Budget!Restart, Budget!Lift, Budget!budgetVars
  <2>2. (~shaken)' => ~shaken
    BY <1>1, Zenon DEF Budget!Trouble, Budget!Restart, Budget!Lift, Budget!budgetVars
  <2>. QED
    BY <2>1, <2>2, NobodyAdmitted
<1>2. ASSUME NEW c \in Callers, Budget!Admit(c) PROVE KeptBudget'
  BY <1>2, OneAdmitted
<1>3. ASSUME NEW c \in Callers, Budget!Trip(c) \/ Budget!Distrust(c) \/ Budget!Fail(c) PROVE KeptBudget'
  <2>1. admitted' = admitted /\ Stages' = Stages /\ barred' = barred
    BY <1>3 DEF Budget!Trip, Budget!Distrust, Budget!Fail, Budget!ComesTo
  <2>2. (~shaken)' => ~shaken
    BY <1>3, Zenon DEF Budget!Trip, Budget!Distrust, Budget!Fail, Budget!ComesTo
  <2>. QED
    BY <2>1, <2>2, NobodyAdmitted
<1>4. ASSUME NEW c \in Callers, Budget!Begin(c) \/ Budget!Find(c) \/ Budget!Refuse(c) \/ Budget!Answer(c) PROVE KeptBudget'
  <2>1. PICK s \in {"open", "answered"} : Stages' = [Stages EXCEPT ![c] = s]
    BY <1>4 DEF Budget!Begin, Budget!Find, Budget!Refuse, Budget!Answer, Budget!Waiting
  <2>2. admitted' = admitted /\ barred' \subseteq barred \cup {d \in Callers : Stages[d] = "waiting"}
    BY <1>4 DEF Budget!Begin, Budget!Find, Budget!Refuse, Budget!Answer, Budget!Waiting
  <2>3. (~shaken)' => ~shaken
    BY <1>4, Zenon DEF Budget!Begin, Budget!Find, Budget!Refuse, Budget!Answer, Budget!Waiting
  <2>. QED
    BY <1>0, <2>1, <2>2, <2>3, NobodyAdmitted
<1>5. ASSUME NEW c \in Callers, Budget!Lose(c) PROVE KeptBudget'
  <2>1. Stages' = [Stages EXCEPT ![c] = "lost"] /\ admitted' = admitted /\ barred' = barred
    BY <1>5 DEF Budget!Lose
  <2>2. (~shaken)' => ~shaken
    BY <1>5, Zenon DEF Budget!Lose
  <2>. QED
    BY <1>0, <2>1, <2>2, NobodyAdmitted
<1>. QED
  BY <1>1, <1>2, <1>3, <1>4, <1>5, Zenon DEF BudgetMove, Budget!BudgetNext

\* From the steps its callers see alone it follows that a budget is kept in every
\* window, and that no call admitted has come after a recorded trip
\* was reported.
THEOREM BudgetSuffices == ImplementsBudget => [](CapHolds /\ TripHolds)
<1>1. Budget!BudgetInit => KeptBudget
  <2>. SUFFICES ASSUME Budget!BudgetInit PROVE KeptBudget
    OBVIOUS
  <2>1. admitted = {}
    BY DEF Budget!BudgetInit
  <2>2. \A w : AdmittedIn(w) = {}
    BY <2>1 DEF AdmittedIn
  <2>3. CapHolds
    BY <2>2, FS_EmptySet, LimitsAssumption DEF CapHolds
  <2>. QED
    BY <2>1, <2>3 DEF KeptBudget, TripHolds
<1>2. KeptBudget /\ [Budget!BudgetNext]_(Budget!budgetVars) => KeptBudget'
  BY BudgetStep DEF BudgetMove
<1>3. KeptBudget => CapHolds /\ TripHolds
  BY DEF KeptBudget
<1>. QED
  BY <1>1, <1>2, <1>3, PTL DEF ImplementsBudget, Budget!BudgetSpec
=============================================================================
