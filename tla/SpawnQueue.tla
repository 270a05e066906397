----------------------------- MODULE SpawnQueue -----------------------------
(***************************************************************************)
(* The queue of reactive spawn requests and the queue of approved ones:    *)
(*   mcp-server/tools/spawn_agent.js     a worker asks for another agent;  *)
(*   spawn-housekeeper-on-trigger.js     a hook asks for a housekeeper;    *)
(*   process-spawn-requests.js           a hook decides what is pending;   *)
(*   inject-spawn-approved-drainer.js    a hook tells the model what was   *)
(*                                       approved.                         *)
(*                                                                         *)
(* Each is a process of its own; an action is one access to a shared file, *)
(* and a file is read where its lock is taken, as nothing lies between.  A *)
(* request is named by the invocation that makes it, a row of the approved *)
(* file by the drain that wrote it and its request.                        *)
(*                                                                         *)
(* The advisory lock is taken as AtomicAppend describes it when none of    *)
(* its mishaps happens: it excludes, a live holder's waiters give up, and  *)
(* a dead holder's lock is taken over.                                     *)
(***************************************************************************)
EXTENDS Naturals, FiniteSets

CONSTANTS
    Workers,     \* calls of the spawn_agent tool
    Triggers,    \* runs of the housekeeper hook
    Drains,      \* runs of process-spawn-requests
    Prompts,     \* runs of inject-spawn-approved-drainer
    Nobody,
    Orchs,       \* orchestration ids
    NoOrch,
    Quota,       \* per_orchestration_quota
    BlockRows,   \* rows the 600 characters of an injected block have room for
    MaxFaults    \* bound on kills, failing system calls, skipped runs
                 \* and changes of the orchestration, together

Requests == Workers \cup Triggers
Procs == Requests \cup Drains \cup Prompts
Rows == Drains \X Requests

ASSUME DistinctAssumption ==
    /\ Workers \cap Triggers = {} /\ Requests \cap Drains = {}
    /\ (Requests \cup Drains) \cap Prompts = {}
    /\ Nobody \notin Procs /\ NoOrch \notin Orchs
ASSUME FiniteAssumption == IsFiniteSet(Requests) /\ IsFiniteSet(Drains)
ASSUME BoundsAssumption == Quota \in Nat /\ BlockRows \in Nat \ {0} /\ MaxFaults \in Nat

VARIABLES
    pc,           \* what each process does next
    home,         \* orchestration_id, as each process read it
    orch,         \* current-orchestration.json
    past,         \* what it held before
    requestsLock, \* holder of spawn-requests.jsonl.lock
    approvedLock, \* holder of spawn-approved.jsonl.lock
    requests,     \* spawn-requests.jsonl: the status of each request in it
    announced,    \* requests with a spawn_requested row in events.jsonl
    entries,      \* entries, in a drain
    todo,         \* pending rows a drain has still to decide
    counted,      \* the requests spawnRequestedCount starts from
    approved,     \* spawn-approved.jsonl
    drained,      \* rows of it that carry drained_at
    snapshot,     \* entries, in a prompt hook
    block,        \* the rows a prompt hook will inject
    faults

\* History of what happened, for the properties.
VARIABLES
    blind,        \* housekeeper hooks that could not read the request file
    granted,      \* approvals, each of which appends a row to the approved file
    exposed,      \* those whose append failed or was made without the lock
    evicted,      \* requests removed because their orchestration is over
    unsaved,      \* drains whose decisions did not reach the request file
    unmarked,     \* prompt hooks whose rewrite of the approved file failed
    cut,          \* rows marked drained whose line was cut off the block
    injected      \* rows each prompt hook has shown to the model

sharedVars == <<orch, past, requestsLock, approvedLock, requests, announced, approved, drained>>
drainVars == <<entries, todo, counted>>
promptVars == <<snapshot, block>>
history == <<blind, granted, exposed, evicted, unsaved, unmarked, cut, injected>>
vars == <<pc, home, sharedVars, drainVars, promptVars, faults, history>>

Status == {"absent", "pending", "approved", "denied"}
Labels == {"start", "append", "announce", "release", "leave",
           "count", "decide", "truncate", "rewrite", "mark", "inject", "done", "dead"}

SpawnTypeOK ==
    /\ pc \in [Procs -> Labels]
    /\ home \in [Procs -> Orchs \cup {NoOrch}]
    /\ orch \in Orchs /\ past \subseteq Orchs
    /\ requestsLock \in Triggers \cup Drains \cup {Nobody}
    /\ approvedLock \in Prompts \cup {Nobody}
    /\ requests \in [Requests -> Status]
    /\ announced \subseteq Requests
    /\ entries \in [Drains -> [Requests -> Status]]
    /\ todo \in [Drains -> SUBSET Requests]
    /\ counted \in [Drains -> SUBSET Requests]
    /\ approved \subseteq Rows /\ drained \subseteq Rows
    /\ snapshot \in [Prompts -> SUBSET Rows]
    /\ block \in [Prompts -> SUBSET Rows]
    /\ injected \in [Prompts -> SUBSET Rows]
    /\ granted \subseteq Rows /\ exposed \subseteq Rows /\ cut \subseteq Rows
    /\ evicted \subseteq Requests
    /\ blind \subseteq Triggers /\ unsaved \subseteq Drains /\ unmarked \subseteq Prompts
    /\ faults \in 0 .. MaxFaults

NoRows == [r \in Requests |-> "absent"]

Init ==
    /\ pc = [p \in Procs |-> "start"]
    /\ home = [p \in Procs |-> NoOrch]
    /\ orch \in Orchs /\ past = {}
    /\ requestsLock = Nobody /\ approvedLock = Nobody
    /\ requests = NoRows
    /\ announced = {}
    /\ entries = [d \in Drains |-> NoRows]
    /\ todo = [d \in Drains |-> {}]
    /\ counted = [d \in Drains |-> {}]
    /\ approved = {} /\ drained = {}
    /\ snapshot = [q \in Prompts |-> {}]
    /\ block = [q \in Prompts |-> {}]
    /\ faults = 0
    /\ blind = {} /\ granted = {} /\ exposed = {} /\ evicted = {}
    /\ unsaved = {} /\ unmarked = {} /\ cut = {}
    /\ injected = [q \in Prompts |-> {}]

Goto(p, from, to) == pc[p] = from /\ pc' = [pc EXCEPT ![p] = to]
Fault == faults < MaxFaults /\ faults' = faults + 1

\* Rows of the request file that are pending for an orchestration.
PendingOf(rows, o) == {r \in Requests : rows[r] = "pending" /\ home[r] = o}
AnnouncedOf(o) == {r \in announced : home[r] = o}

-----------------------------------------------------------------------------
(* spawn_agent.js: count, append, announce; no lock.                       *)

\* readOrchestrationId, then countSpawnRequests; a log that cannot be read
\* counts as empty.
WorkerCounts(w) ==
    /\ home' = [home EXCEPT ![w] = orch]
    /\ IF Cardinality(AnnouncedOf(orch)) < Quota
       THEN Goto(w, "start", "append") /\ UNCHANGED faults
       ELSE \/ Goto(w, "start", "done") /\ UNCHANGED faults
            \/ Goto(w, "start", "append") /\ Fault
    /\ UNCHANGED <<sharedVars, drainVars, promptVars, history>>

\* appendSpawnRequest; an error is reported to the worker.
WorkerAppends(w) ==
    /\ \/ /\ Goto(w, "append", "announce")
          /\ requests' = [requests EXCEPT ![w] = "pending"]
          /\ UNCHANGED faults
       \/ Goto(w, "append", "done") /\ Fault /\ UNCHANGED requests
    /\ UNCHANGED <<home, orch, past, requestsLock, approvedLock, announced, approved, drained,
                   drainVars, promptVars, history>>

\* writeEvent of spawn_requested, of the tool and of the hook; errors are
\* ignored.
Announce(r) ==
    /\ Goto(r, "announce", "done")
    /\ \/ announced' = announced \cup {r} /\ UNCHANGED faults
       \/ UNCHANGED announced /\ Fault
    /\ UNCHANGED <<home, orch, past, requestsLock, approvedLock, requests, approved, drained,
                   drainVars, promptVars, history>>

-----------------------------------------------------------------------------
(* The lock of the request file, shared by the housekeeper hook and the    *)
(* drain.  Both read the orchestration before they wait for it, so it may  *)
(* be one that is over when they get it.                                   *)

\* Mutant: a caller goes on without the lock when it is held.
FreeOrImpatient(holder) == TRUE

\* Nobody holds the lock, or the holder is dead.
Free(holder) == holder # Nobody => pc[holder] = "dead"

\* The lock is taken for orchestration o, and the process goes on to label "to".
TakesRequestsLock(p, o, to) ==
    /\ Goto(p, "start", to)
    /\ o \in {orch} \cup past
    /\ home' = [home EXCEPT ![p] = o]
    /\ Free(requestsLock) /\ requestsLock' = p
    /\ UNCHANGED <<orch, past, approvedLock, requests, announced, approved, drained>>

\* _withAdvisoryLock skips its function when the attempts are used up.
SkipsRequestsLock(p) ==
    /\ Goto(p, "start", "done")
    /\ requestsLock # Nobody
    /\ Fault
    /\ UNCHANGED <<home, sharedVars, drainVars, promptVars, history>>

\* "release" is the way out of a hook that has still to announce its request.
ReleasesRequestsLock(p) ==
    /\ Goto(p, "leave", "done") \/ Goto(p, "release", "announce")
    /\ requestsLock' = Nobody
    /\ IF p \in Drains
       THEN /\ entries' = [entries EXCEPT ![p] = NoRows]
            /\ counted' = [counted EXCEPT ![p] = {}]
       ELSE UNCHANGED <<entries, counted>>
    /\ UNCHANGED <<home, orch, past, approvedLock, requests, announced, approved, drained,
                   todo, promptVars, faults, history>>

-----------------------------------------------------------------------------
(* spawn-housekeeper-on-trigger.js.                                        *)

\* readPendingHousekeeperRequests; a file that cannot be read counts as empty.
TriggerChecks(t) ==
    /\ \E o \in Orchs :
          IF PendingOf(requests, o) \cap Triggers = {}
          THEN TakesRequestsLock(t, o, "append") /\ UNCHANGED <<faults, blind>>
          ELSE \/ TakesRequestsLock(t, o, "leave") /\ UNCHANGED <<faults, blind>>
               \/ TakesRequestsLock(t, o, "append") /\ blind' = blind \cup {t} /\ Fault
    /\ UNCHANGED <<drainVars, promptVars, granted, exposed, evicted, unsaved,
                   unmarked, cut, injected>>

\* atomicAppendJsonl finds the lock held, by its own caller, ten times and
\* appends without it.  An error is swallowed: the request is announced all
\* the same.
TriggerAppends(t) ==
    /\ Goto(t, "append", "release")
    /\ \/ requests' = [requests EXCEPT ![t] = "pending"] /\ UNCHANGED faults
       \/ UNCHANGED requests /\ Fault
    /\ UNCHANGED <<home, orch, past, requestsLock, approvedLock, announced, approved, drained,
                   drainVars, promptVars, history>>

-----------------------------------------------------------------------------
(* process-spawn-requests.js, under the lock.                              *)

\* The rows are read once.  Pending rows of another orchestration that have
\* got old are evicted, and that is saved before anything is decided.  A file
\* that cannot be read counts as empty.
DrainReads(d) ==
    /\ \E o \in Orchs :
          \/ \E old \in SUBSET {r \in Requests : requests[r] = "pending" /\ home[r] # o} :
                /\ TakesRequestsLock(d, o, IF old # {} THEN "truncate"
                                           ELSE IF PendingOf(requests, o) # {} THEN "count"
                                           ELSE "leave")
                /\ entries' = [entries EXCEPT ![d] =
                      [r \in Requests |-> IF r \in old THEN "absent" ELSE requests[r]]]
                /\ todo' = [todo EXCEPT ![d] = PendingOf(requests, o)]
                /\ evicted' = evicted \cup old
                /\ UNCHANGED faults
          \/ /\ TakesRequestsLock(d, o, "leave") /\ Fault
             /\ UNCHANGED <<entries, todo, evicted>>
    /\ UNCHANGED <<counted, promptVars, blind, granted, exposed, unsaved, unmarked,
                   cut, injected>>

\* countSpawnRequestedEvents.
DrainCounts(d) ==
    /\ Goto(d, "count", "decide")
    /\ \/ counted' = [counted EXCEPT ![d] = AnnouncedOf(home[d])] /\ UNCHANGED faults
       \/ UNCHANGED counted /\ Fault
    /\ UNCHANGED <<home, sharedVars, entries, todo, promptVars, history>>

GrantsOf(d) == {r \in Requests : <<d, r>> \in granted}

\* spawnRequestedCount >= per_orchestration_quota.
QuotaReached(d) == Cardinality(counted[d]) + Cardinality(GrantsOf(d)) >= Quota

\* Mutant: the decided row is not put back among the entries.
DecidesOnACopy(d, r, verdict) ==
    /\ pc[d] = "decide" /\ r \in todo[d]
    /\ todo' = [todo EXCEPT ![d] = @ \ {r}]
    /\ Goto(d, "decide", IF todo[d] = {r} THEN "truncate" ELSE "decide")
    /\ UNCHANGED <<home, orch, past, requestsLock, approvedLock, requests, announced, drained,
                   entries, counted, promptVars, blind, evicted, unsaved, unmarked, cut,
                   injected>>

\* Mutant: the index is taken in another list than the one that is written.
DecidesAnother(d, r, verdict) ==
    /\ pc[d] = "decide" /\ r \in todo[d]
    /\ \E other \in {s \in Requests : entries[d][s] # "absent"} :
          entries' = [entries EXCEPT ![d] = [entries[d] EXCEPT ![other] = verdict]]
    /\ todo' = [todo EXCEPT ![d] = @ \ {r}]
    /\ Goto(d, "decide", IF todo[d] = {r} THEN "truncate" ELSE "decide")
    /\ UNCHANGED <<home, orch, past, requestsLock, approvedLock, requests, announced, drained,
                   counted, promptVars, blind, evicted, unsaved, unmarked, cut, injected>>

\* The decision on one row; the last one leads to the rewrite of the file.
Decides(d, r, verdict) ==
    /\ pc[d] = "decide" /\ r \in todo[d]
    /\ entries' = [entries EXCEPT ![d] = [entries[d] EXCEPT ![r] = verdict]]
    /\ todo' = [todo EXCEPT ![d] = @ \ {r}]
    /\ Goto(d, "decide", IF todo[d] = {r} THEN "truncate" ELSE "decide")
    /\ UNCHANGED <<home, orch, past, requestsLock, approvedLock, requests, announced, drained,
                   counted, promptVars, blind, evicted, unsaved, unmarked, cut, injected>>

\* Below the quota a housekeeper request is approved and a worker's request may
\* be, as its cost and the budget are.  appendApproved gives up on the lock of
\* the approved file when somebody holds it, and appends all the same.
Approve(d, r) ==
    /\ ~QuotaReached(d)
    /\ Decides(d, r, "approved")
    /\ granted' = granted \cup {<<d, r>>}
    /\ \/ /\ approved' = approved \cup {<<d, r>>}
          /\ exposed' = IF Free(approvedLock) THEN exposed ELSE exposed \cup {<<d, r>>}
          /\ UNCHANGED faults
       \/ /\ exposed' = exposed \cup {<<d, r>>}
          /\ Fault /\ UNCHANGED approved

\* Mutant: a status that nobody looks for.
Refuse(d, r) ==
    /\ Decides(d, r, "refused")
    /\ IF QuotaReached(d) \/ r \in Workers THEN UNCHANGED faults ELSE Fault
    /\ UNCHANGED <<approved, granted, exposed>>

\* Over the quota, above the threshold or too deep; a housekeeper request also
\* when its signature cannot be verified.
Deny(d, r) ==
    /\ Decides(d, r, "denied")
    /\ IF QuotaReached(d) \/ r \in Workers THEN UNCHANGED faults ELSE Fault
    /\ UNCHANGED <<approved, granted, exposed>>

\* writeSpawnRequests is writeFileSync in place: the file is emptied, then
\* filled.  Its errors are ignored.
TruncateRequests(d) ==
    /\ \/ /\ Goto(d, "truncate", "rewrite")
          /\ requests' = NoRows
          /\ UNCHANGED <<faults, unsaved>>
       \/ /\ Goto(d, "truncate", IF todo[d] # {} THEN "count" ELSE "leave")
          /\ unsaved' = IF todo[d] = {} THEN unsaved \cup {d} ELSE unsaved
          /\ Fault /\ UNCHANGED requests
    /\ UNCHANGED <<home, orch, past, requestsLock, approvedLock, announced, approved, drained,
                   drainVars, promptVars, blind, granted, exposed, evicted,
                   unmarked, cut, injected>>

\* The content is written from the beginning of the file: it covers, wholly or
\* in part, the rows that were appended since the file was emptied.
RewriteRequests(d) ==
    /\ Goto(d, "rewrite", IF todo[d] # {} THEN "count" ELSE "leave")
    /\ \/ /\ \E kept \in SUBSET {r \in Requests : requests[r] # "absent"} :
                /\ entries[d] = NoRows => kept = {r \in Requests : requests[r] # "absent"}
                /\ requests' = [r \in Requests |->
                      IF entries[d][r] # "absent" THEN entries[d][r]
                      ELSE IF r \in kept THEN requests[r] ELSE "absent"]
          /\ UNCHANGED <<faults, unsaved>>
       \/ /\ unsaved' = IF todo[d] = {} THEN unsaved \cup {d} ELSE unsaved
          /\ Fault /\ UNCHANGED requests
    /\ UNCHANGED <<home, orch, past, requestsLock, approvedLock, announced, approved, drained,
                   drainVars, promptVars, blind, granted, exposed, evicted,
                   unmarked, cut, injected>>

-----------------------------------------------------------------------------
(* inject-spawn-approved-drainer.js.                                       *)

SkipsApprovedLock(q) ==
    /\ Goto(q, "start", "done")
    /\ approvedLock # Nobody
    /\ Fault
    /\ UNCHANGED <<home, sharedVars, drainVars, promptVars, history>>

\* Mutant: rows that were drained before count too.
HousekeeperRows(rows) == {row \in rows : row[2] \in Triggers}

\* Only housekeeper rows are drained.
Undrained(rows) == {row \in rows \ drained : row[2] \in Triggers}

\* Mutant: the rows are read and rewritten without the lock.
PromptReadsUnlocked(q) ==
    /\ Goto(q, "start", IF Undrained(approved) # {} THEN "mark" ELSE "leave")
    /\ snapshot' = [snapshot EXCEPT ![q] = approved]
    /\ UNCHANGED <<home, sharedVars, drainVars, block, faults, history>>

PromptReads(q) ==
    /\ Free(approvedLock) /\ approvedLock' = q
    /\ \/ /\ Undrained(approved) # {}
          /\ Goto(q, "start", "mark")
          /\ snapshot' = [snapshot EXCEPT ![q] = approved]
          /\ UNCHANGED faults
       \/ /\ Undrained(approved) = {}
          /\ Goto(q, "start", "leave") /\ UNCHANGED <<snapshot, faults>>
       \/ /\ Undrained(approved) # {}
          /\ Goto(q, "start", "leave") /\ Fault /\ UNCHANGED snapshot
    /\ UNCHANGED <<home, orch, past, requestsLock, requests, announced, approved, drained,
                   drainVars, block, history>>

\* Mutant: the rows are read again when they are marked.
PromptMarksWhatIsThere(q) ==
    /\ Goto(q, "mark", "leave")
    /\ block' = [block EXCEPT ![q] = Undrained(snapshot[q])]
    /\ snapshot' = [snapshot EXCEPT ![q] = {}]
    /\ \/ /\ drained' = drained \cup Undrained(approved)
          /\ UNCHANGED <<approved, faults, unmarked>>
       \/ unmarked' = unmarked \cup {q} /\ Fault /\ UNCHANGED <<approved, drained>>
    /\ UNCHANGED <<home, orch, past, requestsLock, approvedLock, requests, announced, drainVars,
                   blind, granted, exposed, evicted, unsaved, cut, injected>>

\* writeApproved renames a new file over the old one.  An error is ignored, and
\* the rows are injected all the same.
PromptMarks(q) ==
    /\ Goto(q, "mark", "leave")
    /\ block' = [block EXCEPT ![q] = Undrained(snapshot[q])]
    /\ snapshot' = [snapshot EXCEPT ![q] = {}]
    /\ \/ /\ approved' = snapshot[q]
          /\ drained' = drained \cup Undrained(snapshot[q])
          /\ UNCHANGED <<faults, unmarked>>
       \/ unmarked' = unmarked \cup {q} /\ Fault /\ UNCHANGED <<approved, drained>>
    /\ UNCHANGED <<home, orch, past, requestsLock, approvedLock, requests, announced, drainVars,
                   blind, granted, exposed, evicted, unsaved, cut, injected>>

ReleasesApprovedLock(q) ==
    /\ Goto(q, "leave", IF block[q] # {} THEN "inject" ELSE "done")
    /\ approvedLock' = Nobody
    /\ UNCHANGED <<home, orch, past, requestsLock, requests, announced, approved, drained,
                   drainVars, promptVars, faults, history>>

\* buildPromptBlock and the write to stdout.  The block is cut at its maximal
\* length; the line in which the cut falls is lost.
PromptInjects(q) ==
    /\ Goto(q, "inject", "done")
    /\ \E shown \in SUBSET block[q] :
          /\ IF Cardinality(block[q]) <= BlockRows THEN shown = block[q]
             ELSE Cardinality(shown) = BlockRows
          /\ injected' = [injected EXCEPT ![q] = shown]
          /\ cut' = cut \cup (block[q] \ shown)
    /\ block' = [block EXCEPT ![q] = {}]
    /\ UNCHANGED <<home, sharedVars, drainVars, snapshot, faults, blind, granted,
                   exposed, evicted, unsaved, unmarked>>

-----------------------------------------------------------------------------

\* The active orchestration changes.
SwitchOrchestration ==
    /\ orch' \in Orchs \ {orch}
    /\ past' = past \cup {orch}
    /\ Fault
    /\ UNCHANGED <<pc, home, requestsLock, approvedLock, requests, announced, approved,
                   drained, drainVars, promptVars, history>>

\* A process is killed while it holds a lock, or before it prints its block;
\* elsewhere that is what the failure of its next call would do.  What a drain
\* has decided and not written is lost.
Kill(p) ==
    /\ p \in {requestsLock, approvedLock} \/ pc[p] = "inject"
    /\ pc[p] # "dead"
    /\ pc' = [pc EXCEPT ![p] = "dead"]
    /\ unsaved' = IF p \in Drains /\ pc[p] \in {"decide", "truncate", "rewrite"}
                  THEN unsaved \cup {p} ELSE unsaved
    /\ IF p \in Drains
       THEN /\ entries' = [entries EXCEPT ![p] = NoRows]
            /\ todo' = [todo EXCEPT ![p] = {}]
            /\ counted' = [counted EXCEPT ![p] = {}]
       ELSE UNCHANGED drainVars
    /\ snapshot' = IF p \in Prompts THEN [snapshot EXCEPT ![p] = {}] ELSE snapshot
    /\ Fault
    /\ UNCHANGED <<home, sharedVars, block, blind, granted, exposed, evicted,
                   unmarked, cut, injected>>

WorkerStep(w) == WorkerCounts(w) \/ WorkerAppends(w) \/ Announce(w)
LockStep(p) == SkipsRequestsLock(p) \/ ReleasesRequestsLock(p)
TriggerStep(t) == TriggerChecks(t) \/ TriggerAppends(t) \/ Announce(t)
DrainStep(d) ==
    \/ DrainReads(d) \/ DrainCounts(d)
    \/ \E r \in Requests : Approve(d, r) \/ Deny(d, r)
    \/ TruncateRequests(d) \/ RewriteRequests(d)
PromptStep(q) ==
    \/ SkipsApprovedLock(q) \/ ReleasesApprovedLock(q)
    \/ PromptReads(q) \/ PromptMarks(q) \/ PromptInjects(q)

Next ==
    \/ \E w \in Workers : WorkerStep(w)
    \/ \E t \in Triggers : LockStep(t) \/ TriggerStep(t)
    \/ \E d \in Drains : LockStep(d) \/ DrainStep(d)
    \/ \E q \in Prompts : PromptStep(q)
    \/ \E p \in Procs \ Workers : Kill(p)
    \/ SwitchOrchestration

Spec == Init /\ [][Next]_vars

-----------------------------------------------------------------------------
(* Properties.                                                             *)

\* At most one housekeeper request of an orchestration is pending, however many
\* hooks fire at once and whatever drains do meanwhile, unless a hook could not
\* read the file (the debounce of spawn-housekeeper-on-trigger.js).
OnePendingHousekeeper ==
    \A t, u \in Triggers \ blind :
        requests[t] = "pending" /\ requests[u] = "pending" /\ home[t] = home[u] => t = u

\* A request is approved once.  It is approved again only behind a drain whose
\* decisions did not reach the request file.
ApprovedOnce ==
    \A r \in Requests, d, e \in Drains :
        <<d, r>> \in granted /\ <<e, r>> \in granted => d = e \/ {d, e} \cap unsaved # {}

\* The two files agree.  A request that is recorded as approved has its row in
\* the approved file, unless its append failed or was made without the lock; one
\* that is recorded as denied has been approved by nobody whose decisions were
\* saved.  The row is appended when the decision is made, the decision is saved
\* when all are made.
VerdictsAgree ==
    \A r \in Requests :
        /\ requests[r] = "approved" => \E d \in Drains : <<d, r>> \in approved \cup exposed
        /\ requests[r] = "denied" =>
              \A d \in Drains : <<d, r>> \in granted => d \in unsaved

\* No approved row is lost from the file, whatever is appended while a prompt
\* hook rewrites it, unless its append failed or was made without the lock.
ApprovalsSurvive == granted \ exposed \subseteq approved

\* A row is shown to the model by two prompts only if one of them could not
\* mark it.
InjectedOnce ==
    \A q, r \in Prompts :
        injected[q] \cap injected[r] # {} => q = r \/ {q, r} \cap unmarked # {}

\* A row that is marked drained was shown, will be shown by the hook that marked
\* it unless that hook is killed, or was cut off a block that was full.
DrainedReachesModel ==
    \A row \in drained :
        \/ row \in cut
        \/ \E q \in Prompts :
              \/ row \in injected[q]
              \/ row \in block[q] /\ pc[q] \in {"leave", "inject", "dead"}

\* Once announced, a worker's request stays in the file until it is evicted (it
\* is out of sight while a drain fills the file): what the drain and the
\* housekeeper hook say the shared lock is for.
QueuedRequestKept ==
    \A w \in Workers \cap announced :
        requests[w] # "absent" \/ w \in evicted \/ \E d \in Drains : pc[d] = "rewrite"
=============================================================================
