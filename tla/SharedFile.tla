----------------------------- MODULE SharedFile -----------------------------
(***************************************************************************)
(* What the callers of bin/_lib/atomic-append.js may rely on: each call    *)
(* changes the file in one step and is answered once, with what it did.    *)
(* Lock files, attempts, reads and crashes are the business of             *)
(* AtomicAppend, which implements this.                                    *)
(***************************************************************************)
CONSTANTS Procs, Keys

VARIABLES
    job,        \* the operation and the key of each call
    rows,       \* the rows of the file, each named by the call that wrote it
    result,     \* the answer of each call
    exclusive,  \* the lock has kept callers apart so far
    readable    \* the file could be read so far

fileVars == <<job, rows, result, exclusive, readable>>

FileInit ==
    /\ job \in [Procs -> [op : {"append", "ifAbsent", "rewrite"}, key : Keys]]
    /\ rows = {}
    /\ result = [p \in Procs |-> "none"]
    /\ exclusive = TRUE /\ readable = TRUE

\* A call is answered once, and its answer stays.
Answers(p, what) ==
    /\ result[p] = "none"
    /\ result' = [result EXCEPT ![p] = what]
    /\ UNCHANGED <<job, exclusive, readable>>

AnsweredWith(what) == {p \in Procs : result[p] = what}

Append(p) ==
    /\ job[p].op = "append"
    /\ Answers(p, "added")
    /\ rows' = rows \cup {p}

\* The row of a claim is written only if nobody has made the same claim.
Claim(p) ==
    /\ job[p].op = "ifAbsent"
    /\ exclusive /\ readable => \A r \in rows : job[r] # job[p]
    /\ Answers(p, "added")
    /\ rows' = rows \cup {p}

\* A rewrite drops no row that was written under the lock; rows that were
\* written without it may be lost.  It never writes a row that no call reported.
Rewrite(p) ==
    /\ job[p].op = "rewrite"
    /\ Answers(p, "added")
    /\ \E kept \in SUBSET (AnsweredWith("added") \cup AnsweredWith("unlocked")) :
          /\ exclusive => kept \subseteq rows /\ rows \ kept \subseteq AnsweredWith("unlocked")
          /\ rows' = kept \cup {p}

\* Only an append is made without the lock.
AppendUnlocked(p) ==
    /\ job[p].op = "append"
    /\ Answers(p, "unlocked")
    /\ rows' = rows \cup {p}

\* A claim is refused because of a row with its key.
Refuse(p) ==
    /\ job[p].op = "ifAbsent"
    /\ \E r \in rows : job[r].key = job[p].key
    /\ Answers(p, "present")
    /\ UNCHANGED rows

Skip(p) ==
    /\ Answers(p, "skipped")
    /\ UNCHANGED rows

\* A holder leaves its lock behind or is overtaken by a stale threshold; a read
\* fails.
Trouble ==
    /\ exclusive' => exclusive
    /\ readable' => readable
    /\ UNCHANGED <<job, rows, result>>

FileNext ==
    \/ Trouble
    \/ \E p \in Procs :
          \/ Append(p) \/ Claim(p) \/ Rewrite(p) \/ AppendUnlocked(p)
          \/ Refuse(p) \/ Skip(p)

FileSpec == FileInit /\ [][FileNext]_fileVars
=============================================================================
