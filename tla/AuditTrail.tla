----------------------------- MODULE AuditTrail -----------------------------
(***************************************************************************)
(* What the readers of an orchestration's audit rows may rely on while it  *)
(* is being closed: rows are only ever appended to the live log, a         *)
(* complete archive of the orchestration appears or disappears as a whole, *)
(* and the live log is replaced in one step, by what is not archived.      *)
(* Markers, sentinels, partial files and the four programs that close an   *)
(* orchestration are the business of EventsArchive, which implements this. *)
(***************************************************************************)
CONSTANTS
    Own,    \* rows of the orchestration
    Others  \* all other rows

VARIABLES
    written, \* the rows appended so far
    log,     \* the live log
    old,     \* the logs that were rolled away
    store,   \* the complete archive; empty when there is none
    closed,  \* the orchestration's rows are said to have left the log
    calm,    \* nothing has happened that the closing programs do not guard against
    steady   \* no row was appended while a program was replacing the log

trailVars == <<written, log, old, store, closed, calm, steady>>

TrailInit ==
    /\ written = {} /\ log = {} /\ old = {} /\ store = {}
    /\ closed = FALSE /\ calm = TRUE /\ steady = TRUE

OnlyWorse == (calm' => calm) /\ (steady' => steady)

\* A row of the orchestration comes too late when its log is closed.
Append(r) ==
    /\ log' = log \cup {r} /\ written' = written \cup {r}
    /\ OnlyWorse
    /\ closed /\ r \in Own => ~calm'
    /\ UNCHANGED <<old, store, closed>>

Roll ==
    /\ log # {}
    /\ old' = old \cup log /\ log' = {}
    /\ UNCHANGED <<written, store, closed, calm, steady>>

\* An archive is written, or removed.  It has all that is in the log, and what
\* the previous one had is still in a log.
Archive ==
    /\ store' \subseteq written \cap Own
    /\ calm => /\ store \cup store' \subseteq log \cup old
               /\ store' # {} => log \cap Own \subseteq store'
    /\ UNCHANGED <<written, log, old, closed, calm, steady>>

\* The rows of the orchestration leave the log because they are archived; no
\* other row leaves it but to a rolled log.
Replace ==
    /\ log' \subseteq (log \cup old) \ Own
    /\ steady => log \cap Others \subseteq log' \cup old
    /\ calm => log \cap Own \subseteq store
    /\ UNCHANGED <<written, old, store, closed, calm, steady>>

Close ==
    /\ ~closed /\ closed' = TRUE
    /\ calm => /\ log \cap Own = {}
               /\ written \cap Own \subseteq store \cup old
    /\ UNCHANGED <<written, log, old, store, calm, steady>>

\* The sentinel is deleted or torn.
Reopen ==
    /\ closed /\ closed' = FALSE
    /\ UNCHANGED <<written, log, old, store, calm, steady>>

Trouble ==
    /\ OnlyWorse
    /\ UNCHANGED <<written, log, old, store, closed>>

TrailNext ==
    \/ Trouble \/ Roll \/ Archive \/ Replace \/ Close \/ Reopen
    \/ \E r \in Own \cup Others : Append(r)

TrailSpec == TrailInit /\ [][TrailNext]_trailVars
=============================================================================
