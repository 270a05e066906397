---------------------------- MODULE AdvisoryLock ----------------------------
(***************************************************************************)
(* What a program may rely on when it works on a shared file under a lock  *)
(* file: as long as the lock is sound, nobody enters while somebody is     *)
(* inside.  AtomicAppend and CircuitBreaker, which build their locks from  *)
(* a file that is created exclusively and removed by its name, provide it. *)
(***************************************************************************)
CONSTANT Clients

VARIABLES
    inside,  \* the processes that work on the file under the lock
    sound    \* nothing has happened that the recovery of stale locks may get wrong

lockVars == <<inside, sound>>

LockInit == inside = {} /\ sound = TRUE

Enter(p) ==
    /\ p \notin inside
    /\ sound => inside = {}
    /\ inside' = inside \cup {p}
    /\ UNCHANGED sound

\* The process is done, or dies; then the lock file may stay.
Leave(p) ==
    /\ p \in inside
    /\ inside' = inside \ {p}
    /\ sound' => sound

Unsettle ==
    /\ sound /\ sound' = FALSE
    /\ UNCHANGED inside

LockNext ==
    \/ \E p \in Clients : Enter(p) \/ Leave(p)
    \/ Unsettle

LockSpec == LockInit /\ [][LockNext]_lockVars
=============================================================================
