-------------------------- MODULE SpawnQueueProofs --------------------------
(***************************************************************************)
(* Proofs about SpawnQueue, for every number of workers, hooks and         *)
(* orchestrations and every quota.                                         *)
(***************************************************************************)
EXTENDS SpawnQueue, TLAPS

\* Labels of a drain between its reading the request file and its last write.
Deciding == {"count", "decide", "truncate", "rewrite"}

\* Who is in the middle of something holds the lock.
LockInv ==
    /\ \A t \in Triggers : pc[t] \in {"append", "release", "leave"} => requestsLock = t
    /\ \A d \in Drains : pc[d] \in Deciding \cup {"leave"} => requestsLock = d
    /\ \A q \in Prompts : pc[q] \in {"mark", "leave"} => approvedLock = q
    /\ \A t \in Triggers :
          pc[t] \in {"start", "append", "release", "leave", "announce", "done", "dead"}
    /\ \A d \in Drains : pc[d] \in {"start"} \cup Deciding \cup {"leave", "done", "dead"}
    /\ \A q \in Prompts : pc[q] \in {"start", "mark", "leave", "inject", "done", "dead"}

\* What is in a file, or in a drain's copy of it, was appended by a process that
\* has gone on.
OriginInv ==
    \A r \in Requests : pc[r] \in {"start", "append"} =>
          /\ requests[r] = "absent" /\ r \notin announced
          /\ \A d \in Drains : /\ entries[d][r] = "absent" /\ r \notin todo[d]
                               /\ <<d, r>> \notin granted

\* A drain decides what is pending in its copy, for its own orchestration, and
\* has granted nothing before it begins to decide.
TodoInv ==
    \A d \in Drains :
        /\ pc[d] \notin Deciding => todo[d] = {}
        /\ \A r \in todo[d] : entries[d][r] = "pending" /\ home[r] = home[d]
        /\ pc[d] \in {"start", "count"} => \A r \in Requests : <<d, r>> \notin granted
        /\ pc[d] \in {"truncate", "rewrite"} /\ todo[d] # {} =>
              \A r \in Requests : <<d, r>> \notin granted

\* The same bound on the copies of drains, and on a hook about to append.
DebounceInv ==
    /\ OnePendingHousekeeper
    /\ \A t, u \in Triggers \ blind :
          pc[t] = "append" /\ requests[u] = "pending" => home[t] # home[u]
    /\ \A d \in Drains : pc[d] \in Deciding =>
          \A t, u \in Triggers \ blind :
             entries[d][t] = "pending" /\ entries[d][u] = "pending" /\ home[t] = home[u] => t = u
    /\ \A d \in Drains : pc[d] = "rewrite" => \A t \in Triggers : requests[t] = "absent"

\* What a drain granted and saved is pending nowhere.
GrantInv ==
    /\ ApprovedOnce
    /\ \A d \in Drains \ unsaved, r \in Requests : <<d, r>> \in granted =>
          IF pc[d] \in Deciding THEN entries[d][r] = "approved"
          ELSE /\ requests[r] # "pending"
               /\ \A e \in Drains : pc[e] \in Deciding => entries[e][r] # "pending"

\* What the request file says, or a drain is about to write there, is what was
\* granted.  What a drain has still to decide, nobody has decided.
VerdictInv ==
    /\ \A r \in Requests : requests[r] = "approved" => \E e \in Drains : <<e, r>> \in granted
    /\ \A r \in Requests : requests[r] = "denied" =>
          \A e \in Drains : <<e, r>> \in granted => e \in unsaved
    /\ \A d \in Drains, r \in Requests : r \in todo[d] => requests[r] \in {"pending", "absent"}
    /\ \A d \in Drains : pc[d] \in Deciding => \A r \in Requests :
          /\ entries[d][r] = "approved" => \E e \in Drains : <<e, r>> \in granted
          /\ entries[d][r] = "denied" => \A e \in Drains : <<e, r>> \in granted => e \in unsaved

\* The copy of a prompt hook misses nothing that was appended under the lock.
SurviveInv ==
    /\ ApprovalsSurvive
    /\ \A q \in Prompts : pc[q] = "mark" => granted \ exposed \subseteq snapshot[q]

Taken(q) == injected[q] \cup block[q]

\* What a prompt hook took and marked is drained, and nobody else takes it.
TakenInv ==
    /\ DrainedReachesModel
    /\ \A q \in Prompts : pc[q] \in {"start", "mark"} => block[q] = {}
    /\ \A q \in Prompts : pc[q] \in {"start", "mark", "leave", "inject"} => injected[q] = {}
    /\ \A q \in Prompts \ unmarked : Taken(q) \subseteq drained
    /\ \A q, r \in Prompts :
          q # r /\ Taken(q) \cap Taken(r) # {} => {q, r} \cap unmarked # {}

SpawnInv ==
    /\ SpawnTypeOK /\ LockInv /\ OriginInv /\ TodoInv /\ DebounceInv /\ GrantInv
    /\ VerdictInv /\ SurviveInv /\ TakenInv

\* One step, by its kind.
Acts ==
    \/ \E w \in Workers : WorkerCounts(w) \/ WorkerAppends(w)
    \/ \E r \in Requests : Announce(r)
    \/ \E p \in Triggers \cup Drains : SkipsRequestsLock(p) \/ ReleasesRequestsLock(p)
    \/ \E t \in Triggers : TriggerChecks(t) \/ TriggerAppends(t)
    \/ \E d \in Drains : DrainReads(d) \/ DrainCounts(d) \/ TruncateRequests(d) \/ RewriteRequests(d)
    \/ \E d \in Drains, r \in Requests : Approve(d, r) \/ Deny(d, r)
    \/ \E q \in Prompts : SkipsApprovedLock(q) \/ ReleasesApprovedLock(q) \/ PromptReads(q)
                          \/ PromptMarks(q) \/ PromptInjects(q)
    \/ \E p \in Procs : Kill(p)
    \/ SwitchOrchestration
    \/ UNCHANGED vars

LEMMA StepsAct == ASSUME [Next]_vars PROVE Acts
  BY Zenon DEF Acts, Next, WorkerStep, LockStep, TriggerStep, DrainStep, PromptStep,
     Requests, Procs

-----------------------------------------------------------------------------
(* Types.                                                                  *)

LEMMA TypeStep == ASSUME SpawnTypeOK, Acts PROVE SpawnTypeOK'
<1>. USE DEF Acts, vars, sharedVars, drainVars, promptVars, history
<1>1. pc' \in [Procs -> Labels]
  <2>1. UNCHANGED pc \/ \E p \in Procs, to \in Labels : pc' = [pc EXCEPT ![p] = to]
    BY DEF Labels, WorkerCounts, WorkerAppends, Announce, SkipsRequestsLock,
     ReleasesRequestsLock, TriggerChecks, TriggerAppends, DrainReads, DrainCounts, Approve,
     Deny, TruncateRequests, RewriteRequests, SkipsApprovedLock, ReleasesApprovedLock,
     PromptReads, PromptMarks, PromptInjects, Kill, SwitchOrchestration, TakesRequestsLock,
     Decides, Goto, Fault, Requests, Procs
  <2>. QED
    BY <2>1 DEF SpawnTypeOK
<1>2. home' \in [Procs -> Orchs \cup {NoOrch}]
  <2>1. UNCHANGED home \/ \E p \in Procs, o \in Orchs : home' = [home EXCEPT ![p] = o]
    BY ZenonT(150) DEF SpawnTypeOK, WorkerCounts, WorkerAppends, Announce, SkipsRequestsLock,
     ReleasesRequestsLock, TriggerChecks, TriggerAppends, DrainReads, DrainCounts, Approve,
     Deny, TruncateRequests, RewriteRequests, SkipsApprovedLock, ReleasesApprovedLock,
     PromptReads, PromptMarks, PromptInjects, Kill, SwitchOrchestration, TakesRequestsLock,
     Decides, Goto, Fault, Requests, Procs
  <2>. QED
    BY <2>1 DEF SpawnTypeOK
<1>3. orch' \in Orchs /\ past' \subseteq Orchs
  BY ZenonT(150) DEF SpawnTypeOK, WorkerCounts, WorkerAppends, Announce, SkipsRequestsLock,
     ReleasesRequestsLock, TriggerChecks, TriggerAppends, DrainReads, DrainCounts, Approve,
     Deny, TruncateRequests, RewriteRequests, SkipsApprovedLock, ReleasesApprovedLock,
     PromptReads, PromptMarks, PromptInjects, Kill, SwitchOrchestration, TakesRequestsLock,
     Decides, Goto, Fault, Requests, Procs
<1>4. /\ requestsLock' \in Triggers \cup Drains \cup {Nobody}
      /\ approvedLock' \in Prompts \cup {Nobody}
  BY ZenonT(150) DEF SpawnTypeOK, WorkerCounts, WorkerAppends, Announce, SkipsRequestsLock,
     ReleasesRequestsLock, TriggerChecks, TriggerAppends, DrainReads, DrainCounts, Approve,
     Deny, TruncateRequests, RewriteRequests, SkipsApprovedLock, ReleasesApprovedLock,
     PromptReads, PromptMarks, PromptInjects, Kill, SwitchOrchestration, TakesRequestsLock,
     Decides, Goto, Fault, Requests, Procs
<1>5. requests' \in [Requests -> Status]
  BY SMTT(150) DEF SpawnTypeOK, NoRows, Status, WorkerCounts, WorkerAppends, Announce,
     SkipsRequestsLock, ReleasesRequestsLock, TriggerChecks, TriggerAppends, DrainReads,
     DrainCounts, Approve, Deny, TruncateRequests, RewriteRequests, SkipsApprovedLock,
     ReleasesApprovedLock, PromptReads, PromptMarks, PromptInjects, Kill,
     SwitchOrchestration, TakesRequestsLock, Decides, Goto, Fault, Requests, Procs
<1>6. announced' \subseteq Requests
  BY ZenonT(150) DEF SpawnTypeOK, WorkerCounts, WorkerAppends, Announce, SkipsRequestsLock,
     ReleasesRequestsLock, TriggerChecks, TriggerAppends, DrainReads, DrainCounts, Approve,
     Deny, TruncateRequests, RewriteRequests, SkipsApprovedLock, ReleasesApprovedLock,
     PromptReads, PromptMarks, PromptInjects, Kill, SwitchOrchestration, TakesRequestsLock,
     Decides, Goto, Fault, Requests, Procs
<1>7. entries' \in [Drains -> [Requests -> Status]]
  <2>. DEFINE Copied == \/ UNCHANGED entries
                        \/ \E d \in Drains, f \in [Requests -> Status] :
                              entries' = [entries EXCEPT ![d] = f]
  <2>1. ASSUME NEW d \in Drains, DrainReads(d) PROVE Copied
    <3>1. CASE UNCHANGED entries
      BY <3>1
    <3>2. ASSUME NEW old \in SUBSET Requests,
                 entries' = [entries EXCEPT ![d] =
                    [r \in Requests |-> IF r \in old THEN "absent" ELSE requests[r]]]
          PROVE  Copied
      <4>1. [r \in Requests |-> IF r \in old THEN "absent" ELSE requests[r]] \in [Requests -> Status]
        BY DEF SpawnTypeOK, Status
      <4>. QED
        BY <3>2, <4>1
    <3>. QED
      BY <2>1, <3>1, <3>2 DEF DrainReads
  <2>2. ASSUME NEW d \in Drains, NEW r \in Requests, Approve(d, r) \/ Deny(d, r) PROVE Copied
    <3>1. PICK v \in Status : entries' = [entries EXCEPT ![d] = [entries[d] EXCEPT ![r] = v]]
      BY <2>2 DEF Approve, Deny, Decides, Status
    <3>2. [entries[d] EXCEPT ![r] = v] \in [Requests -> Status]
      BY DEF SpawnTypeOK
    <3>. QED
      BY <3>1, <3>2
  <2>3. ASSUME NEW p \in Procs, ReleasesRequestsLock(p) \/ Kill(p) PROVE Copied
    <3>1. NoRows \in [Requests -> Status]
      BY DEF NoRows, Status
    <3>. QED
      BY <2>3, <3>1 DEF ReleasesRequestsLock, Kill, drainVars
  <2>4. Copied
    BY ZenonT(60), <2>1, <2>2, <2>3 DEF WorkerCounts, WorkerAppends, Announce,
       SkipsRequestsLock, ReleasesRequestsLock, TriggerChecks, TriggerAppends, DrainReads,
       DrainCounts, Approve, Deny, TruncateRequests, RewriteRequests, SkipsApprovedLock,
       ReleasesApprovedLock, PromptReads, PromptMarks, PromptInjects, Kill,
       SwitchOrchestration, TakesRequestsLock, Decides, Goto, Fault, Requests, Procs
  <2>. QED
    BY <2>4 DEF SpawnTypeOK
<1>8. todo' \in [Drains -> SUBSET Requests]
  <2>. DEFINE Kept == \/ UNCHANGED todo
                      \/ \E d \in Drains, f \in SUBSET Requests : todo' = [todo EXCEPT ![d] = f]
  <2>1. ASSUME NEW d \in Drains, DrainReads(d) PROVE Kept
    <3>1. \A o \in Orchs : PendingOf(requests, o) \in SUBSET Requests
      BY DEF PendingOf
    <3>. QED
      BY <2>1, <3>1 DEF DrainReads
  <2>2. ASSUME NEW d \in Drains, NEW r \in Requests, Approve(d, r) \/ Deny(d, r) PROVE Kept
    <3>1. todo' = [todo EXCEPT ![d] = todo[d] \ {r}]
      BY <2>2 DEF Approve, Deny, Decides
    <3>2. todo[d] \ {r} \in SUBSET Requests
      BY DEF SpawnTypeOK
    <3>. QED
      BY <3>1, <3>2
  <2>3. Kept
    BY ZenonT(60), <2>1, <2>2 DEF WorkerCounts, WorkerAppends, Announce, SkipsRequestsLock,
     ReleasesRequestsLock, TriggerChecks, TriggerAppends, DrainReads, DrainCounts, Approve,
     Deny, TruncateRequests, RewriteRequests, SkipsApprovedLock, ReleasesApprovedLock,
     PromptReads, PromptMarks, PromptInjects, Kill, SwitchOrchestration, TakesRequestsLock,
     Decides, Goto, Fault, Requests, Procs
  <2>. QED
    BY <2>3 DEF SpawnTypeOK
<1>9. counted' \in [Drains -> SUBSET Requests]
  <2>1. \/ UNCHANGED counted
        \/ \E d \in Drains, f \in SUBSET Requests : counted' = [counted EXCEPT ![d] = f]
    BY ZenonT(60) DEF SpawnTypeOK, AnnouncedOf, WorkerCounts, WorkerAppends, Announce,
       SkipsRequestsLock, ReleasesRequestsLock, TriggerChecks, TriggerAppends, DrainReads,
       DrainCounts, Approve, Deny, TruncateRequests, RewriteRequests, SkipsApprovedLock,
       ReleasesApprovedLock, PromptReads, PromptMarks, PromptInjects, Kill,
       SwitchOrchestration, TakesRequestsLock, Decides, Goto, Fault, Requests, Procs
  <2>. QED
    BY <2>1 DEF SpawnTypeOK
<1>10. /\ granted' \subseteq Rows /\ exposed' \subseteq Rows
  BY SMTT(150) DEF SpawnTypeOK, Rows, WorkerCounts, WorkerAppends, Announce, SkipsRequestsLock,
     ReleasesRequestsLock, TriggerChecks, TriggerAppends, DrainReads, DrainCounts, Approve,
     Deny, TruncateRequests, RewriteRequests, SkipsApprovedLock, ReleasesApprovedLock,
     PromptReads, PromptMarks, PromptInjects, Kill, SwitchOrchestration, TakesRequestsLock,
     Decides, Goto, Fault, Requests, Procs
<1>11. /\ approved' \subseteq Rows /\ drained' \subseteq Rows
  BY SMTT(150) DEF SpawnTypeOK, Rows, Undrained, WorkerCounts, WorkerAppends, Announce,
     SkipsRequestsLock, ReleasesRequestsLock, TriggerChecks, TriggerAppends, DrainReads,
     DrainCounts, Approve, Deny, TruncateRequests, RewriteRequests, SkipsApprovedLock,
     ReleasesApprovedLock, PromptReads, PromptMarks, PromptInjects, Kill,
     SwitchOrchestration, TakesRequestsLock, Decides, Goto, Fault, Requests, Procs
<1>12. snapshot' \in [Prompts -> SUBSET Rows] /\ block' \in [Prompts -> SUBSET Rows]
  BY SMTT(150) DEF SpawnTypeOK, Undrained, WorkerCounts, WorkerAppends, Announce,
     SkipsRequestsLock, ReleasesRequestsLock, TriggerChecks, TriggerAppends, DrainReads,
     DrainCounts, Approve, Deny, TruncateRequests, RewriteRequests, SkipsApprovedLock,
     ReleasesApprovedLock, PromptReads, PromptMarks, PromptInjects, Kill,
     SwitchOrchestration, TakesRequestsLock, Decides, Goto, Fault, Requests, Procs
<1>13. injected' \in [Prompts -> SUBSET Rows] /\ cut' \subseteq Rows
  BY SMTT(150) DEF SpawnTypeOK, WorkerCounts, WorkerAppends, Announce, SkipsRequestsLock,
     ReleasesRequestsLock, TriggerChecks, TriggerAppends, DrainReads, DrainCounts, Approve,
     Deny, TruncateRequests, RewriteRequests, SkipsApprovedLock, ReleasesApprovedLock,
     PromptReads, PromptMarks, PromptInjects, Kill, SwitchOrchestration, TakesRequestsLock,
     Decides, Goto, Fault, Requests, Procs
<1>14. /\ blind' \subseteq Triggers /\ evicted' \subseteq Requests
       /\ unsaved' \subseteq Drains /\ unmarked' \subseteq Prompts
  BY SMTT(150) DEF SpawnTypeOK, WorkerCounts, WorkerAppends, Announce, SkipsRequestsLock,
     ReleasesRequestsLock, TriggerChecks, TriggerAppends, DrainReads, DrainCounts, Approve,
     Deny, TruncateRequests, RewriteRequests, SkipsApprovedLock, ReleasesApprovedLock,
     PromptReads, PromptMarks, PromptInjects, Kill, SwitchOrchestration, TakesRequestsLock,
     Decides, Goto, Fault, Requests, Procs
<1>15. faults' \in 0 .. MaxFaults
  <2>1. UNCHANGED faults \/ Fault
    BY DEF WorkerCounts, WorkerAppends, Announce, SkipsRequestsLock,
     ReleasesRequestsLock, TriggerChecks, TriggerAppends, DrainReads, DrainCounts, Approve,
     Deny, TruncateRequests, RewriteRequests, SkipsApprovedLock, ReleasesApprovedLock,
     PromptReads, PromptMarks, PromptInjects, Kill, SwitchOrchestration, TakesRequestsLock,
     Decides, Goto, Requests, Procs
  <2>. QED
    BY <2>1, BoundsAssumption DEF SpawnTypeOK, Fault
<1>. QED
  BY <1>1, <1>2, <1>3, <1>4, <1>5, <1>6, <1>7, <1>8, <1>9, <1>10, <1>11, <1>12, <1>13, <1>14,
     <1>15 DEF SpawnTypeOK

-----------------------------------------------------------------------------
(* Locks, and whose rows are where.                                        *)

\* How the two hooks that respect the lock of the request file come to hold it.
LEMMA TriggerTakesLock ==
    ASSUME NEW t \in Triggers, TriggerChecks(t)
    PROVE  \E o \in Orchs, to \in {"append", "leave"} :
              /\ TakesRequestsLock(t, o, to)
              /\ to = "append" => PendingOf(requests, o) \cap Triggers = {} \/ blind' = blind \cup {t}
  BY DEF TriggerChecks

LEMMA DrainTakesLock ==
    ASSUME NEW d \in Drains, DrainReads(d)
    PROVE  \E o \in Orchs, old \in SUBSET Requests :
              \/ /\ TakesRequestsLock(d, o, IF old # {} THEN "truncate"
                                            ELSE IF PendingOf(requests, o) # {} THEN "count"
                                            ELSE "leave")
                 /\ entries' = [entries EXCEPT ![d] =
                       [r \in Requests |-> IF r \in old THEN "absent" ELSE requests[r]]]
                 /\ todo' = [todo EXCEPT ![d] = PendingOf(requests, o)]
                 /\ \A r \in old : requests[r] = "pending" /\ home[r] # o
              \/ TakesRequestsLock(d, o, "leave") /\ UNCHANGED <<entries, todo>>
  BY DEF DrainReads

\* Every step keeps the locks with those who work under them.
LEMMA LocksStep == ASSUME SpawnTypeOK, LockInv, Acts PROVE LockInv'
<1>. USE DistinctAssumption DEF SpawnTypeOK, LockInv, Deciding, Requests, Procs, Free
<1>1. ASSUME NEW w \in Workers, WorkerCounts(w) PROVE LockInv'
  BY SMTT(40), <1>1 DEF WorkerCounts, Goto, Fault, sharedVars, drainVars, promptVars, history
<1>2. ASSUME NEW w \in Workers, WorkerAppends(w) PROVE LockInv'
  BY <1>2 DEF WorkerAppends, Goto, Fault, sharedVars, drainVars, promptVars, history
<1>3. ASSUME NEW r \in Requests, Announce(r) PROVE LockInv'
  BY <1>3 DEF Announce, Goto, Fault, sharedVars, drainVars, promptVars, history
<1>4. ASSUME NEW p \in Triggers \cup Drains, SkipsRequestsLock(p) PROVE LockInv'
  BY <1>4 DEF SkipsRequestsLock, Goto, Fault, sharedVars, drainVars, promptVars, history
<1>5. ASSUME NEW p \in Triggers \cup Drains, ReleasesRequestsLock(p) PROVE LockInv'
  BY SMTT(60), <1>5 DEF ReleasesRequestsLock, Goto, Fault, sharedVars, drainVars, promptVars,
     history
<1>6. ASSUME NEW t \in Triggers, TriggerChecks(t) PROVE LockInv'
  <2>1. PICK o \in Orchs, to \in {"append", "leave"} : TakesRequestsLock(t, o, to)
    BY <1>6, TriggerTakesLock
  <2>. QED
    BY <2>1 DEF TakesRequestsLock, Goto
<1>7. ASSUME NEW t \in Triggers, TriggerAppends(t) PROVE LockInv'
  BY <1>7 DEF TriggerAppends, Goto, Fault, sharedVars, drainVars, promptVars, history
<1>8. ASSUME NEW d \in Drains, DrainReads(d) PROVE LockInv'
  <2>1. PICK o \in Orchs, to \in {"leave", "truncate", "count"} : TakesRequestsLock(d, o, to)
    BY <1>8, DrainTakesLock
  <2>. QED
    BY <2>1 DEF TakesRequestsLock, Goto
<1>9. ASSUME NEW d \in Drains, DrainCounts(d) PROVE LockInv'
  BY <1>9 DEF DrainCounts, Goto, Fault, sharedVars, drainVars, promptVars, history
<1>10. ASSUME NEW d \in Drains, NEW r \in Requests, Approve(d, r) PROVE LockInv'
  BY <1>10 DEF Decides, Approve, Goto, Fault, sharedVars, drainVars, promptVars, history
<1>11. ASSUME NEW d \in Drains, NEW r \in Requests, Deny(d, r) PROVE LockInv'
  BY <1>11 DEF Decides, Deny, Goto, Fault, sharedVars, drainVars, promptVars, history
<1>12. ASSUME NEW d \in Drains, TruncateRequests(d) PROVE LockInv'
  BY SMTT(40), <1>12 DEF TruncateRequests, Goto, Fault, sharedVars, drainVars, promptVars, history
<1>13. ASSUME NEW d \in Drains, RewriteRequests(d) PROVE LockInv'
  BY <1>13 DEF RewriteRequests, Goto, Fault, sharedVars, drainVars, promptVars, history
<1>14. ASSUME NEW q \in Prompts, SkipsApprovedLock(q) PROVE LockInv'
  BY <1>14 DEF SkipsApprovedLock, Goto, Fault, sharedVars, drainVars, promptVars, history
<1>15. ASSUME NEW q \in Prompts, ReleasesApprovedLock(q) PROVE LockInv'
  BY <1>15 DEF ReleasesApprovedLock, Goto, Fault, sharedVars, drainVars, promptVars, history
<1>16. ASSUME NEW q \in Prompts, PromptReads(q) PROVE LockInv'
  <2>1. /\ \A x \in Triggers \cup Drains : pc'[x] = pc[x]
        /\ UNCHANGED requestsLock
    BY <1>16 DEF PromptReads, Goto
  <2>2. /\ pc'[q] \in {"mark", "leave"} /\ approvedLock' = q
        /\ \A x \in Prompts \ {q} : pc'[x] = pc[x]
    BY <1>16 DEF PromptReads, Goto
  <2>3. \A x \in Prompts : pc[x] \notin {"mark", "leave"}
    BY <1>16 DEF PromptReads
  <2>4. \A x \in Prompts : /\ pc'[x] \in {"mark", "leave"} => approvedLock' = x
                           /\ pc'[x] \in {"start", "mark", "leave", "inject", "done", "dead"}
    BY <2>2, <2>3
  <2>5. /\ \A t \in Triggers : pc'[t] \in {"append", "release", "leave"} => requestsLock' = t
        /\ \A d \in Drains : pc'[d] \in Deciding \cup {"leave"} => requestsLock' = d
        /\ \A t \in Triggers :
              pc'[t] \in {"start", "append", "release", "leave", "announce", "done", "dead"}
        /\ \A d \in Drains : pc'[d] \in {"start"} \cup Deciding \cup {"leave", "done", "dead"}
    BY <2>1
  <2>. QED
    BY <2>4, <2>5
<1>17. ASSUME NEW q \in Prompts, PromptMarks(q) PROVE LockInv'
  BY <1>17 DEF PromptMarks, Goto, Fault, sharedVars, drainVars, promptVars, history
<1>18. ASSUME NEW q \in Prompts, PromptInjects(q) PROVE LockInv'
  BY <1>18 DEF PromptInjects, Goto, Fault, sharedVars, drainVars, promptVars, history
<1>19. ASSUME NEW p \in Procs, Kill(p) PROVE LockInv'
  BY <1>19 DEF Kill, Goto, Fault, sharedVars, drainVars, promptVars, history
<1>20. ASSUME SwitchOrchestration PROVE LockInv'
  BY <1>20 DEF SwitchOrchestration, Goto, Fault, sharedVars, drainVars, promptVars, history
<1>21. ASSUME UNCHANGED vars PROVE LockInv'
  BY <1>21 DEF vars, sharedVars, drainVars, promptVars, history
<1>. HIDE DEF LockInv
<1>22. QED
  BY <1>1, <1>2, <1>3, <1>4, <1>5, <1>6, <1>7, <1>8, <1>9, <1>10, <1>11, <1>12, <1>13, <1>14,
     <1>15, <1>16, <1>17, <1>18, <1>19, <1>20, <1>21, Zenon DEF Acts

\* A row is somebody's who has appended it.
LEMMA OriginStep == ASSUME SpawnTypeOK, LockInv, OriginInv, TodoInv, Acts PROVE OriginInv'
<1>. USE DistinctAssumption DEF SpawnTypeOK, LockInv, Deciding, Requests, Procs, Free,
   OriginInv, NoRows, PendingOf, AnnouncedOf
<1>1. ASSUME NEW w \in Workers, WorkerCounts(w) PROVE OriginInv'
  BY <1>1 DEF WorkerCounts, Goto, Fault, sharedVars, drainVars, promptVars, history
<1>2. ASSUME NEW w \in Workers, WorkerAppends(w) PROVE OriginInv'
  BY <1>2 DEF WorkerAppends, Goto, Fault, sharedVars, drainVars, promptVars, history
<1>3. ASSUME NEW r \in Requests, Announce(r) PROVE OriginInv'
  BY <1>3 DEF Announce, Goto, Fault, sharedVars, drainVars, promptVars, history
<1>4. ASSUME NEW p \in Triggers \cup Drains, SkipsRequestsLock(p) PROVE OriginInv'
  BY <1>4 DEF SkipsRequestsLock, Goto, Fault, sharedVars, drainVars, promptVars, history
<1>5. ASSUME NEW p \in Triggers \cup Drains, ReleasesRequestsLock(p) PROVE OriginInv'
  BY SMTT(30), <1>5 DEF ReleasesRequestsLock, Goto, Fault, sharedVars, drainVars, promptVars,
     history
<1>6. ASSUME NEW t \in Triggers, TriggerChecks(t) PROVE OriginInv'
  BY <1>6 DEF TakesRequestsLock, TriggerChecks, Goto, Fault, sharedVars, drainVars,
     promptVars, history
<1>7. ASSUME NEW t \in Triggers, TriggerAppends(t) PROVE OriginInv'
  BY <1>7 DEF TriggerAppends, Goto, Fault, sharedVars, drainVars, promptVars, history
<1>8. ASSUME NEW d \in Drains, DrainReads(d) PROVE OriginInv'
  <2>1. PICK o \in Orchs, old \in SUBSET Requests :
              \/ /\ TakesRequestsLock(d, o, IF old # {} THEN "truncate"
                                            ELSE IF PendingOf(requests, o) # {} THEN "count"
                                            ELSE "leave")
                 /\ entries' = [entries EXCEPT ![d] =
                       [r \in Requests |-> IF r \in old THEN "absent" ELSE requests[r]]]
                 /\ todo' = [todo EXCEPT ![d] = PendingOf(requests, o)]
                 /\ \A r \in old : requests[r] = "pending" /\ home[r] # o
              \/ TakesRequestsLock(d, o, "leave") /\ UNCHANGED <<entries, todo>>
    BY <1>8, DrainTakesLock
  <2>2. UNCHANGED <<requests, announced, granted>> /\ \A r \in Requests : pc'[r] \in {"start", "append"} => pc[r] \in {"start", "append"}
    BY <2>1, <1>8 DEF TakesRequestsLock, Goto, DrainReads
  <2>3. \A e \in Drains \ {d} : entries'[e] = entries[e] /\ todo'[e] = todo[e]
    BY <2>1
  <2>4. \A r \in Requests : requests[r] = "absent" => entries'[d][r] = "absent" \/ entries' = entries
    BY <2>1
  <2>5. \A r \in Requests : requests[r] = "absent" => r \notin todo'[d] \/ todo' = todo
    BY <2>1
  <2>. QED
    BY <2>2, <2>3, <2>4, <2>5
<1>9. ASSUME NEW d \in Drains, DrainCounts(d) PROVE OriginInv'
  BY <1>9 DEF DrainCounts, Goto, Fault, sharedVars, drainVars, promptVars, history
<1>10. ASSUME NEW d \in Drains, NEW r \in Requests, Approve(d, r) PROVE OriginInv'
  BY <1>10 DEF Decides, Approve, Goto, Fault, sharedVars, drainVars, promptVars, history
<1>11. ASSUME NEW d \in Drains, NEW r \in Requests, Deny(d, r) PROVE OriginInv'
  BY <1>11 DEF Decides, Deny, Goto, Fault, sharedVars, drainVars, promptVars, history
<1>12. ASSUME NEW d \in Drains, TruncateRequests(d) PROVE OriginInv'
  BY <1>12 DEF TruncateRequests, Goto, Fault, sharedVars, drainVars, promptVars, history
<1>13. ASSUME NEW d \in Drains, RewriteRequests(d) PROVE OriginInv'
  <2>1. UNCHANGED <<announced, entries, todo, granted>>
    BY <1>13 DEF RewriteRequests, drainVars
  <2>2. \A r \in Requests : entries[d][r] = "absent" /\ requests[r] = "absent" => requests'[r] = "absent"
    BY <1>13 DEF RewriteRequests
  <2>3. \A r \in Requests : pc'[r] \in {"start", "append"} => pc[r] \in {"start", "append"}
    BY <1>13 DEF RewriteRequests, Goto
  <2>. QED
    BY <2>1, <2>2, <2>3
<1>14. ASSUME NEW q \in Prompts, SkipsApprovedLock(q) PROVE OriginInv'
  BY <1>14 DEF SkipsApprovedLock, Goto, Fault, sharedVars, drainVars, promptVars, history
<1>15. ASSUME NEW q \in Prompts, ReleasesApprovedLock(q) PROVE OriginInv'
  BY <1>15 DEF ReleasesApprovedLock, Goto, Fault, sharedVars, drainVars, promptVars, history
<1>16. ASSUME NEW q \in Prompts, PromptReads(q) PROVE OriginInv'
  BY <1>16 DEF PromptReads, Goto, Fault, sharedVars, drainVars, promptVars, history
<1>17. ASSUME NEW q \in Prompts, PromptMarks(q) PROVE OriginInv'
  BY <1>17 DEF PromptMarks, Goto, Fault, sharedVars, drainVars, promptVars, history
<1>18. ASSUME NEW q \in Prompts, PromptInjects(q) PROVE OriginInv'
  BY <1>18 DEF PromptInjects, Goto, Fault, sharedVars, drainVars, promptVars, history
<1>19. ASSUME NEW p \in Procs, Kill(p) PROVE OriginInv'
  BY SMTT(40), <1>19 DEF Kill, Goto, Fault, sharedVars, drainVars, promptVars, history
<1>20. ASSUME SwitchOrchestration PROVE OriginInv'
  BY <1>20 DEF SwitchOrchestration, Goto, Fault, sharedVars, drainVars, promptVars, history
<1>21. ASSUME UNCHANGED vars PROVE OriginInv'
  BY <1>21 DEF vars, sharedVars, drainVars, promptVars, history
<1>. HIDE DEF OriginInv
<1>22. QED
  BY <1>1, <1>2, <1>3, <1>4, <1>5, <1>6, <1>7, <1>8, <1>9, <1>10, <1>11, <1>12, <1>13, <1>14,
     <1>15, <1>16, <1>17, <1>18, <1>19, <1>20, <1>21, Zenon DEF Acts

\* A drain decides what is pending in its copy.
LEMMA TodoStep == ASSUME SpawnTypeOK, LockInv, OriginInv, TodoInv, Acts PROVE TodoInv'
<1>. USE DistinctAssumption DEF SpawnTypeOK, LockInv, Deciding, Requests, Procs, Free,
   OriginInv, TodoInv, PendingOf
<1>1. ASSUME NEW w \in Workers, WorkerCounts(w) PROVE TodoInv'
  <2>1. \A d \in Drains : w \notin todo[d]
    BY <1>1 DEF WorkerCounts, Goto
  <2>2. /\ UNCHANGED <<todo, entries, granted>>
        /\ \A d \in Drains : pc'[d] = pc[d] /\ home'[d] = home[d]
        /\ \A r \in Requests \ {w} : home'[r] = home[r]
    BY <1>1 DEF WorkerCounts, Goto, drainVars, history
  <2>3. \A d \in Drains : \A r \in todo[d] : home'[r] = home[r]
    BY <2>1, <2>2
  <2>. QED
    BY SMTT(30), <2>2, <2>3
<1>2. ASSUME NEW w \in Workers, WorkerAppends(w) PROVE TodoInv'
  BY SMTT(30), <1>2 DEF WorkerAppends, Goto, Fault, sharedVars, drainVars, promptVars, history
<1>3. ASSUME NEW r \in Requests, Announce(r) PROVE TodoInv'
  BY <1>3 DEF Announce, Goto, Fault, sharedVars, drainVars, promptVars, history
<1>4. ASSUME NEW p \in Triggers \cup Drains, SkipsRequestsLock(p) PROVE TodoInv'
  BY <1>4 DEF SkipsRequestsLock, Goto, Fault, sharedVars, drainVars, promptVars, history
<1>5. ASSUME NEW p \in Triggers \cup Drains, ReleasesRequestsLock(p) PROVE TodoInv'
  <2>1. UNCHANGED <<requests, todo, granted, home, unsaved, blind>>
    BY <1>5 DEF ReleasesRequestsLock, promptVars, history, drainVars
  <2>2. /\ \A d \in Drains \ {p} : entries'[d] = entries[d] /\ pc'[d] = pc[d]
        /\ p \in Drains => pc[p] = "leave" /\ pc'[p] = "done"
    BY SMTT(30), <1>5 DEF ReleasesRequestsLock, Goto, drainVars
  <2>. QED
    BY <2>1, <2>2
<1>6. ASSUME NEW t \in Triggers, TriggerChecks(t) PROVE TodoInv'
  BY <1>6 DEF TakesRequestsLock, TriggerChecks, Goto, Fault, sharedVars, drainVars,
     promptVars, history
<1>7. ASSUME NEW t \in Triggers, TriggerAppends(t) PROVE TodoInv'
  BY <1>7 DEF TriggerAppends, Goto, Fault, sharedVars, drainVars, promptVars, history
<1>8. ASSUME NEW d \in Drains, DrainReads(d) PROVE TodoInv'
  BY SMTT(30), <1>8 DEF TakesRequestsLock, DrainReads, Goto, Fault, sharedVars, drainVars,
     promptVars, history
<1>9. ASSUME NEW d \in Drains, DrainCounts(d) PROVE TodoInv'
  BY <1>9 DEF DrainCounts, Goto, Fault, sharedVars, drainVars, promptVars, history
<1>10. ASSUME NEW d \in Drains, NEW r \in Requests, Approve(d, r) PROVE TodoInv'
  BY <1>10 DEF Decides, Approve, Goto, Fault, sharedVars, drainVars, promptVars, history
<1>11. ASSUME NEW d \in Drains, NEW r \in Requests, Deny(d, r) PROVE TodoInv'
  BY <1>11 DEF Decides, Deny, Goto, Fault, sharedVars, drainVars, promptVars, history
<1>12. ASSUME NEW d \in Drains, TruncateRequests(d) PROVE TodoInv'
  BY <1>12 DEF TruncateRequests, Goto, Fault, sharedVars, drainVars, promptVars, history
<1>13. ASSUME NEW d \in Drains, RewriteRequests(d) PROVE TodoInv'
  BY <1>13 DEF RewriteRequests, Goto, Fault, sharedVars, drainVars, promptVars, history
<1>14. ASSUME NEW q \in Prompts, SkipsApprovedLock(q) PROVE TodoInv'
  BY <1>14 DEF SkipsApprovedLock, Goto, Fault, sharedVars, drainVars, promptVars, history
<1>15. ASSUME NEW q \in Prompts, ReleasesApprovedLock(q) PROVE TodoInv'
  BY <1>15 DEF ReleasesApprovedLock, Goto, Fault, sharedVars, drainVars, promptVars, history
<1>16. ASSUME NEW q \in Prompts, PromptReads(q) PROVE TodoInv'
  BY <1>16 DEF PromptReads, Goto, Fault, sharedVars, drainVars, promptVars, history
<1>17. ASSUME NEW q \in Prompts, PromptMarks(q) PROVE TodoInv'
  BY SMTT(30), <1>17 DEF PromptMarks, Goto, Fault, sharedVars, drainVars, promptVars, history
<1>18. ASSUME NEW q \in Prompts, PromptInjects(q) PROVE TodoInv'
  BY <1>18 DEF PromptInjects, Goto, Fault, sharedVars, drainVars, promptVars, history
<1>19. ASSUME NEW p \in Procs, Kill(p) PROVE TodoInv'
  <2>1. UNCHANGED <<granted, home>>
    BY <1>19 DEF Kill, history
  <2>2. \A x \in Procs \ {p} : pc'[x] = pc[x]
    BY <1>19 DEF Kill
  <2>3. pc'[p] = "dead"
    BY <1>19 DEF Kill
  <2>4. /\ \A d \in Drains \ {p} : entries'[d] = entries[d] /\ todo'[d] = todo[d]
        /\ p \in Drains => todo'[p] = {}
    BY <1>19 DEF Kill, drainVars
  <2>. QED
    BY <2>1, <2>2, <2>3, <2>4
<1>20. ASSUME SwitchOrchestration PROVE TodoInv'
  BY SMTT(30), <1>20 DEF SwitchOrchestration, Goto, Fault, sharedVars, drainVars, promptVars,
     history
<1>21. ASSUME UNCHANGED vars PROVE TodoInv'
  BY SMTT(30), <1>21 DEF vars, sharedVars, drainVars, promptVars, history
<1>. HIDE DEF TodoInv
<1>22. QED
  BY <1>1, <1>2, <1>3, <1>4, <1>5, <1>6, <1>7, <1>8, <1>9, <1>10, <1>11, <1>12, <1>13, <1>14,
     <1>15, <1>16, <1>17, <1>18, <1>19, <1>20, <1>21, Zenon DEF Acts

-----------------------------------------------------------------------------
(* The request file: the debounce and the decisions.                       *)

\* Every step keeps the debounce.
LEMMA DebounceStep == ASSUME SpawnTypeOK, LockInv, OriginInv, TodoInv, DebounceInv, Acts PROVE DebounceInv'
<1>. USE DistinctAssumption DEF SpawnTypeOK, LockInv, Deciding, Requests, Procs, Free,
   OriginInv, DebounceInv, OnePendingHousekeeper, PendingOf, NoRows
<1>1. ASSUME NEW w \in Workers, WorkerCounts(w) PROVE DebounceInv'
  BY <1>1 DEF WorkerCounts, Goto, Fault, sharedVars, drainVars, promptVars, history
<1>2. ASSUME NEW w \in Workers, WorkerAppends(w) PROVE DebounceInv'
  <2>1. /\ UNCHANGED <<entries, home, blind>>
        /\ \A x \in Triggers \cup Drains : pc'[x] = pc[x]
        /\ \A t \in Triggers : requests'[t] = requests[t]
    BY <1>2 DEF WorkerAppends, Goto, drainVars, history
  <2>. QED
    BY <2>1
<1>3. ASSUME NEW r \in Requests, Announce(r) PROVE DebounceInv'
  BY <1>3 DEF Announce, Goto, Fault, sharedVars, drainVars, promptVars, history
<1>4. ASSUME NEW p \in Triggers \cup Drains, SkipsRequestsLock(p) PROVE DebounceInv'
  BY <1>4 DEF SkipsRequestsLock, Goto, Fault, sharedVars, drainVars, promptVars, history
<1>5. ASSUME NEW p \in Triggers \cup Drains, ReleasesRequestsLock(p) PROVE DebounceInv'
  BY SMTT(60), <1>5 DEF ReleasesRequestsLock, Goto, Fault, sharedVars, drainVars, promptVars, history
<1>6. ASSUME NEW t \in Triggers, TriggerChecks(t) PROVE DebounceInv'
  <2>1. PICK o \in Orchs, to \in {"append", "leave"} :
              /\ TakesRequestsLock(t, o, to)
              /\ to = "append" => PendingOf(requests, o) \cap Triggers = {} \/ blind' = blind \cup {t}
    BY <1>6, TriggerTakesLock
  <2>6. UNCHANGED entries /\ blind \subseteq blind'
    BY <1>6 DEF TriggerChecks, drainVars
  <2>2. /\ UNCHANGED requests
        /\ \A u \in Triggers \ {t} : pc'[u] = pc[u] /\ home'[u] = home[u]
        /\ \A d \in Drains : pc'[d] = pc[d]
        /\ pc[t] = "start" /\ pc'[t] = to /\ home'[t] = o
    BY <2>1 DEF TakesRequestsLock, Goto
  <2>7. requests[t] = "absent" /\ \A d \in Drains : entries[d][t] = "absent"
    BY ZenonT(60), <2>2
  <2>3. to = "append" /\ t \notin blind' =>
           \A u \in Triggers : requests[u] = "pending" => home[u] # o
    BY <2>1
  <2>4. OnePendingHousekeeper'
    BY <2>2, <2>6, <2>7
  <2>5. \A v, u \in Triggers \ blind' :
           pc'[v] = "append" /\ requests'[u] = "pending" => home'[v] # home'[u]
    BY <2>2, <2>3, <2>6, <2>7
  <2>. QED
    BY <2>2, <2>4, <2>5, <2>6, <2>7
<1>7. ASSUME NEW t \in Triggers, TriggerAppends(t) PROVE DebounceInv'
  BY <1>7 DEF TriggerAppends, Goto, Fault, sharedVars, drainVars, promptVars, history
<1>8. ASSUME NEW d \in Drains, DrainReads(d) PROVE DebounceInv'
  <2>1. PICK o \in Orchs, old \in SUBSET Requests :
              \/ /\ TakesRequestsLock(d, o, IF old # {} THEN "truncate"
                                            ELSE IF PendingOf(requests, o) # {} THEN "count"
                                            ELSE "leave")
                 /\ entries' = [entries EXCEPT ![d] =
                       [r \in Requests |-> IF r \in old THEN "absent" ELSE requests[r]]]
                 /\ todo' = [todo EXCEPT ![d] = PendingOf(requests, o)]
                 /\ \A r \in old : requests[r] = "pending" /\ home[r] # o
              \/ TakesRequestsLock(d, o, "leave") /\ UNCHANGED <<entries, todo>>
    BY <1>8, DrainTakesLock
  <2>2. /\ UNCHANGED <<requests, blind>>
        /\ \A x \in Procs \ {d} : pc'[x] = pc[x] /\ home'[x] = home[x]
        /\ \A e \in Drains \ {d} : entries'[e] = entries[e]
        /\ pc'[d] # "rewrite"
    BY <2>1, <1>8 DEF TakesRequestsLock, Goto, DrainReads
  <2>3. d \notin Triggers
    OBVIOUS
  <2>4. pc'[d] \in Deciding => \A r \in Requests : entries'[d][r] = "pending" => requests[r] = "pending"
    BY <2>1 DEF TakesRequestsLock, Goto
  <2>. QED
    BY SMTT(30), <2>2, <2>3, <2>4
<1>9. ASSUME NEW d \in Drains, DrainCounts(d) PROVE DebounceInv'
  BY <1>9 DEF DrainCounts, Goto, Fault, sharedVars, drainVars, promptVars, history
<1>10. ASSUME NEW d \in Drains, NEW r \in Requests, Approve(d, r) PROVE DebounceInv'
  BY <1>10 DEF Decides, Approve, Goto, Fault, sharedVars, drainVars, promptVars, history
<1>11. ASSUME NEW d \in Drains, NEW r \in Requests, Deny(d, r) PROVE DebounceInv'
  BY <1>11 DEF Decides, Deny, Goto, Fault, sharedVars, drainVars, promptVars, history
<1>12. ASSUME NEW d \in Drains, TruncateRequests(d) PROVE DebounceInv'
  <2>1. /\ UNCHANGED <<entries, home, blind>>
        /\ \A x \in Triggers : pc'[x] = pc[x]
        /\ \A e \in Drains \ {d} : pc'[e] = pc[e]
        /\ pc[d] = "truncate"
    BY <1>12 DEF TruncateRequests, Goto, drainVars
  <2>2. CASE requests' = NoRows
    BY <2>1, <2>2
  <2>3. CASE requests' = requests /\ pc'[d] \in {"count", "leave"}
    BY <2>1, <2>3
  <2>. QED
    BY <1>12, <2>2, <2>3 DEF TruncateRequests, Goto
<1>13. ASSUME NEW d \in Drains, RewriteRequests(d) PROVE DebounceInv'
  BY <1>13 DEF RewriteRequests, Goto, Fault, sharedVars, drainVars, promptVars, history
<1>14. ASSUME NEW q \in Prompts, SkipsApprovedLock(q) PROVE DebounceInv'
  BY <1>14 DEF SkipsApprovedLock, Goto, Fault, sharedVars, drainVars, promptVars, history
<1>15. ASSUME NEW q \in Prompts, ReleasesApprovedLock(q) PROVE DebounceInv'
  BY <1>15 DEF ReleasesApprovedLock, Goto, Fault, sharedVars, drainVars, promptVars, history
<1>16. ASSUME NEW q \in Prompts, PromptReads(q) PROVE DebounceInv'
  <2>1. /\ UNCHANGED <<requests, entries, home, blind>>
        /\ \A x \in Triggers \cup Drains : pc'[x] = pc[x]
    BY <1>16 DEF PromptReads, Goto, drainVars, history
  <2>. QED
    BY <2>1
<1>17. ASSUME NEW q \in Prompts, PromptMarks(q) PROVE DebounceInv'
  BY <1>17 DEF PromptMarks, Goto, Fault, sharedVars, drainVars, promptVars, history
<1>18. ASSUME NEW q \in Prompts, PromptInjects(q) PROVE DebounceInv'
  BY <1>18 DEF PromptInjects, Goto, Fault, sharedVars, drainVars, promptVars, history
<1>19. ASSUME NEW p \in Procs, Kill(p) PROVE DebounceInv'
  BY <1>19 DEF Kill, Goto, Fault, sharedVars, drainVars, promptVars, history
<1>20. ASSUME SwitchOrchestration PROVE DebounceInv'
  BY <1>20 DEF SwitchOrchestration, Goto, Fault, sharedVars, drainVars, promptVars, history
<1>21. ASSUME UNCHANGED vars PROVE DebounceInv'
  BY <1>21 DEF vars, sharedVars, drainVars, promptVars, history
<1>. HIDE DEF DebounceInv
<1>22. QED
  BY <1>1, <1>2, <1>3, <1>4, <1>5, <1>6, <1>7, <1>8, <1>9, <1>10, <1>11, <1>12, <1>13, <1>14,
     <1>15, <1>16, <1>17, <1>18, <1>19, <1>20, <1>21, Zenon DEF Acts

\* What is granted and saved is pending nowhere.
LEMMA GrantStep == ASSUME SpawnTypeOK, LockInv, OriginInv, TodoInv, GrantInv, Acts PROVE GrantInv'
<1>. USE DistinctAssumption DEF SpawnTypeOK, LockInv, Deciding, Requests, Procs, Free,
   OriginInv, TodoInv, GrantInv, ApprovedOnce, PendingOf, NoRows
<1>1. ASSUME NEW w \in Workers, WorkerCounts(w) PROVE GrantInv'
  BY <1>1 DEF WorkerCounts, Goto, Fault, sharedVars, drainVars, promptVars, history
<1>2. ASSUME NEW w \in Workers, WorkerAppends(w) PROVE GrantInv'
  BY <1>2 DEF WorkerAppends, Goto, Fault, sharedVars, drainVars, promptVars, history
<1>3. ASSUME NEW r \in Requests, Announce(r) PROVE GrantInv'
  BY <1>3 DEF Announce, Goto, Fault, sharedVars, drainVars, promptVars, history
<1>4. ASSUME NEW p \in Triggers \cup Drains, SkipsRequestsLock(p) PROVE GrantInv'
  BY <1>4 DEF SkipsRequestsLock, Goto, Fault, sharedVars, drainVars, promptVars, history
<1>5. ASSUME NEW p \in Triggers \cup Drains, ReleasesRequestsLock(p) PROVE GrantInv'
  <2>1. UNCHANGED <<requests, todo, granted, home, unsaved, blind>>
    BY <1>5 DEF ReleasesRequestsLock, promptVars, history, drainVars
  <2>2a. \A d \in Drains \ {p} : entries'[d] = entries[d] /\ pc'[d] = pc[d]
    BY <1>5 DEF ReleasesRequestsLock, Goto, drainVars
  <2>2b. p \in Drains => pc[p] = "leave" /\ pc'[p] = "done"
    BY SMTT(30), <1>5 DEF ReleasesRequestsLock, Goto
  <2>2. /\ \A d \in Drains \ {p} : entries'[d] = entries[d] /\ pc'[d] = pc[d]
        /\ p \in Drains => pc[p] = "leave" /\ pc'[p] = "done"
    BY <2>2a, <2>2b
  <2>3. ApprovedOnce'
    BY <2>1
  <2>4. \A d \in Drains : pc'[d] \in Deciding <=> pc[d] \in Deciding
    BY <2>2
  <2>5. \A d \in Drains : pc'[d] \in Deciding => entries'[d] = entries[d]
    BY <2>2
  <2>. HIDE DEF Deciding
  <2>. QED
    BY <2>1, <2>3, <2>4, <2>5
<1>6. ASSUME NEW t \in Triggers, TriggerChecks(t) PROVE GrantInv'
  BY <1>6 DEF TakesRequestsLock, TriggerChecks, Goto, Fault, sharedVars, drainVars,
     promptVars, history
<1>7. ASSUME NEW t \in Triggers, TriggerAppends(t) PROVE GrantInv'
  BY <1>7 DEF TriggerAppends, Goto, Fault, sharedVars, drainVars, promptVars, history
<1>8. ASSUME NEW d \in Drains, DrainReads(d) PROVE GrantInv'
  <2>1. PICK o \in Orchs, old \in SUBSET Requests :
              \/ /\ TakesRequestsLock(d, o, IF old # {} THEN "truncate"
                                            ELSE IF PendingOf(requests, o) # {} THEN "count"
                                            ELSE "leave")
                 /\ entries' = [entries EXCEPT ![d] =
                       [r \in Requests |-> IF r \in old THEN "absent" ELSE requests[r]]]
                 /\ todo' = [todo EXCEPT ![d] = PendingOf(requests, o)]
                 /\ \A r \in old : requests[r] = "pending" /\ home[r] # o
              \/ TakesRequestsLock(d, o, "leave") /\ UNCHANGED <<entries, todo>>
    BY <1>8, DrainTakesLock
  <2>2. /\ UNCHANGED <<requests, granted, unsaved>>
        /\ \A e \in Drains \ {d} : pc'[e] = pc[e] /\ entries'[e] = entries[e]
        /\ pc[d] = "start"
    BY <2>1, <1>8 DEF TakesRequestsLock, Goto, DrainReads
  <2>3. pc'[d] \in Deciding => \A r \in Requests : entries'[d][r] = "pending" => requests[r] = "pending"
    BY <2>1 DEF TakesRequestsLock, Goto
  <2>4. \A r \in Requests : <<d, r>> \notin granted
    BY <2>2
  <2>5. ApprovedOnce'
    BY <2>2
  <2>6. ASSUME NEW e \in Drains \ unsaved, NEW r \in Requests, <<e, r>> \in granted
        PROVE  IF pc[e] \in Deciding THEN entries'[e][r] = "approved"
               ELSE /\ requests[r] # "pending"
                    /\ \A f \in Drains : pc'[f] \in Deciding => entries'[f][r] # "pending"
    <3>1. e # d
      BY <2>4, <2>6
    <3>2. IF pc[e] \in Deciding THEN entries[e][r] = "approved"
          ELSE /\ requests[r] # "pending"
               /\ \A f \in Drains : pc[f] \in Deciding => entries[f][r] # "pending"
      BY <2>6
    <3>. QED
      BY SMTT(30), <2>2, <2>3, <3>1, <3>2
  <2>. QED
    BY <2>2, <2>4, <2>5, <2>6
<1>9. ASSUME NEW d \in Drains, DrainCounts(d) PROVE GrantInv'
  BY <1>9 DEF DrainCounts, Goto, Fault, sharedVars, drainVars, promptVars, history
<1>10. ASSUME NEW d \in Drains, NEW r \in Requests, Approve(d, r) PROVE GrantInv'
  <2>1. /\ pc[d] = "decide" /\ r \in todo[d]
        /\ \A x \in Procs \ {d} : pc'[x] = pc[x]
        /\ pc'[d] \in {"decide", "truncate"}
        /\ \A e \in Drains \ {d} : entries'[e] = entries[e]
        /\ entries'[d] = [entries[d] EXCEPT ![r] = "approved"]
        /\ UNCHANGED <<requests, unsaved>>
        /\ granted' = granted \cup {<<d, r>>}
    BY <1>10 DEF Approve, Decides, Goto
  <2>2. entries[d][r] = "pending"
    BY <2>1
  <2>3. \A e \in Drains \ {d} : pc[e] \notin Deciding
    BY <2>1
  <2>4. \A e \in Drains \ unsaved : <<e, r>> \notin granted
    BY <2>1, <2>2, <2>3
  <2>5. ApprovedOnce'
    BY <2>1, <2>4
  <2>6. ASSUME NEW e \in Drains \ unsaved, NEW s \in Requests, <<e, s>> \in granted'
        PROVE  IF pc'[e] \in Deciding THEN entries'[e][s] = "approved"
               ELSE /\ requests'[s] # "pending"
                    /\ \A f \in Drains : pc'[f] \in Deciding => entries'[f][s] # "pending"
    <3>1. CASE e = d
      <4>1. s = r \/ <<d, s>> \in granted
        BY <2>1, <2>6, <3>1
      <4>. QED
        BY <2>1, <3>1, <4>1, <2>6
    <3>2. CASE e # d
      <4>1. <<e, s>> \in granted /\ pc[e] \notin Deciding /\ pc'[e] = pc[e]
        BY <2>1, <2>3, <2>6, <3>2
      <4>2. requests[s] # "pending" /\ entries[d][s] # "pending"
        BY <2>1, <2>6, <4>1
      <4>. QED
        BY SMTT(30), <2>1, <2>3, <4>1, <4>2
    <3>. QED
      BY <3>1, <3>2
  <2>. QED
    BY <2>1, <2>5, <2>6
<1>11. ASSUME NEW d \in Drains, NEW r \in Requests, Deny(d, r) PROVE GrantInv'
  BY <1>11 DEF Decides, Deny, Goto, Fault, sharedVars, drainVars, promptVars, history
<1>12. ASSUME NEW d \in Drains, TruncateRequests(d) PROVE GrantInv'
  BY <1>12 DEF TruncateRequests, Goto, Fault, sharedVars, drainVars, promptVars, history
<1>13. ASSUME NEW d \in Drains, RewriteRequests(d) PROVE GrantInv'
  <2>1. /\ UNCHANGED <<granted, entries, todo>>
        /\ \A e \in Drains \ {d} : pc'[e] = pc[e] /\ pc[e] \notin Deciding
        /\ pc[d] = "rewrite" /\ pc'[d] \in {"count", "leave"}
        /\ todo[d] = {} => pc'[d] = "leave"
        /\ todo[d] # {} => pc'[d] = "count"
    BY <1>13 DEF RewriteRequests, Goto, drainVars
  <2>2. \/ /\ UNCHANGED unsaved
           /\ \A r \in Requests : requests'[r] \in {entries[d][r], requests[r]} /\ (entries[d][r] # "absent" => requests'[r] = entries[d][r])
        \/ /\ unsaved' = IF todo[d] = {} THEN unsaved \cup {d} ELSE unsaved
           /\ UNCHANGED requests
    BY <1>13 DEF RewriteRequests
  <2>3. unsaved \subseteq unsaved'
    BY <2>2
  <2>4. ApprovedOnce'
    BY <2>1, <2>3
  <2>5. ASSUME NEW e \in Drains \ unsaved', NEW r \in Requests, <<e, r>> \in granted, e # d
        PROVE  requests'[r] # "pending" /\ entries[d][r] # "pending"
    <3>1. requests[r] # "pending" /\ entries[d][r] # "pending"
      BY <2>1, <2>3, <2>5
    <3>. QED
      BY <2>2, <3>1
  <2>6. ASSUME NEW r \in Requests, <<d, r>> \in granted, d \notin unsaved'
        PROVE  pc'[d] = "leave" /\ requests'[r] # "pending"
    <3>1. todo[d] = {} /\ entries[d][r] = "approved"
      BY SMTT(30), <2>1, <2>3, <2>6
    <3>. QED
      BY <2>1, <2>2, <2>6, <3>1
  <2>. QED
    BY <2>1, <2>3, <2>4, <2>5, <2>6
<1>14. ASSUME NEW q \in Prompts, SkipsApprovedLock(q) PROVE GrantInv'
  BY <1>14 DEF SkipsApprovedLock, Goto, Fault, sharedVars, drainVars, promptVars, history
<1>15. ASSUME NEW q \in Prompts, ReleasesApprovedLock(q) PROVE GrantInv'
  BY <1>15 DEF ReleasesApprovedLock, Goto, Fault, sharedVars, drainVars, promptVars, history
<1>16. ASSUME NEW q \in Prompts, PromptReads(q) PROVE GrantInv'
  <2>1. UNCHANGED <<requests, entries, granted, unsaved>> /\ \A d \in Drains : pc'[d] = pc[d]
    BY <1>16 DEF PromptReads, Goto, drainVars, history
  <2>. QED
    BY <2>1
<1>17. ASSUME NEW q \in Prompts, PromptMarks(q) PROVE GrantInv'
  BY <1>17 DEF PromptMarks, Goto, Fault, sharedVars, drainVars, promptVars, history
<1>18. ASSUME NEW q \in Prompts, PromptInjects(q) PROVE GrantInv'
  BY <1>18 DEF PromptInjects, Goto, Fault, sharedVars, drainVars, promptVars, history
<1>19. ASSUME NEW p \in Procs, Kill(p) PROVE GrantInv'
  BY <1>19 DEF Kill, Goto, Fault, sharedVars, drainVars, promptVars, history
<1>20. ASSUME SwitchOrchestration PROVE GrantInv'
  BY <1>20 DEF SwitchOrchestration, Goto, Fault, sharedVars, drainVars, promptVars, history
<1>21. ASSUME UNCHANGED vars PROVE GrantInv'
  BY <1>21 DEF vars, sharedVars, drainVars, promptVars, history
<1>. HIDE DEF GrantInv
<1>22. QED
  BY <1>1, <1>2, <1>3, <1>4, <1>5, <1>6, <1>7, <1>8, <1>9, <1>10, <1>11, <1>12, <1>13, <1>14,
     <1>15, <1>16, <1>17, <1>18, <1>19, <1>20, <1>21, Zenon DEF Acts

-----------------------------------------------------------------------------
(* The verdicts in the request file and the approvals.                     *)

\* A step that decides nothing and writes no verdict keeps what was said of them.
LEMMA VerdictFrame ==
    ASSUME VerdictInv, UNCHANGED granted, unsaved \subseteq unsaved',
           \A r \in Requests : requests'[r] \in {requests[r], "pending", "absent"},
           \A d \in Drains : todo'[d] \subseteq todo[d],
           \A d \in Drains : pc'[d] \in Deciding => pc[d] \in Deciding /\ entries'[d] = entries[d]
    PROVE  VerdictInv'
<1>. HIDE DEF Deciding
<1>1. \A r \in Requests : /\ requests'[r] = "approved" => \E e \in Drains : <<e, r>> \in granted'
                          /\ requests'[r] = "denied" =>
                                \A e \in Drains : <<e, r>> \in granted' => e \in unsaved'
  BY DEF VerdictInv
<1>2. \A d \in Drains, r \in Requests : r \in todo'[d] => requests'[r] \in {"pending", "absent"}
  BY DEF VerdictInv
<1>3. ASSUME NEW d \in Drains, pc'[d] \in Deciding, NEW r \in Requests
      PROVE  /\ entries'[d][r] = "approved" => \E e \in Drains : <<e, r>> \in granted'
             /\ entries'[d][r] = "denied" =>
                   \A e \in Drains : <<e, r>> \in granted' => e \in unsaved'
  BY <1>3 DEF VerdictInv
<1>. QED
  BY <1>1, <1>2, <1>3 DEF VerdictInv

\* Every step keeps what the request file says in agreement with what was granted.
LEMMA VerdictStep ==
    ASSUME SpawnTypeOK, LockInv, OriginInv, TodoInv, GrantInv, VerdictInv, Acts PROVE VerdictInv'
<1>. USE DistinctAssumption DEF SpawnTypeOK, LockInv, Deciding, Requests, Procs, Free,
   OriginInv, TodoInv, PendingOf, NoRows
<1>1. ASSUME NEW w \in Workers, WorkerCounts(w) PROVE VerdictInv'
  <2>1. UNCHANGED granted /\ unsaved \subseteq unsaved'
    BY <1>1 DEF WorkerCounts, Goto, Fault, sharedVars, drainVars, promptVars, history
  <2>2. \A s \in Requests : requests'[s] \in {requests[s], "pending", "absent"}
    BY <1>1 DEF WorkerCounts, Goto, Fault, sharedVars, drainVars, promptVars, history
  <2>3. \A e \in Drains : todo'[e] \subseteq todo[e]
    BY <1>1 DEF WorkerCounts, Goto, Fault, sharedVars, drainVars, promptVars, history
  <2>4. \A e \in Drains : pc'[e] \in Deciding => pc[e] \in Deciding /\ entries'[e] = entries[e]
    BY <1>1 DEF WorkerCounts, Goto, Fault, sharedVars, drainVars, promptVars, history
  <2>. QED
    BY <2>1, <2>2, <2>3, <2>4, VerdictFrame
<1>2. ASSUME NEW w \in Workers, WorkerAppends(w) PROVE VerdictInv'
  <2>1. UNCHANGED granted /\ unsaved \subseteq unsaved'
    BY <1>2 DEF WorkerAppends, Goto, Fault, sharedVars, drainVars, promptVars, history
  <2>2. \A s \in Requests : requests'[s] \in {requests[s], "pending", "absent"}
    BY <1>2 DEF WorkerAppends, Goto, Fault, sharedVars, drainVars, promptVars, history
  <2>3. \A e \in Drains : todo'[e] \subseteq todo[e]
    BY <1>2 DEF WorkerAppends, Goto, Fault, sharedVars, drainVars, promptVars, history
  <2>4. \A e \in Drains : pc'[e] \in Deciding => pc[e] \in Deciding /\ entries'[e] = entries[e]
    BY <1>2 DEF WorkerAppends, Goto, Fault, sharedVars, drainVars, promptVars, history
  <2>. QED
    BY <2>1, <2>2, <2>3, <2>4, VerdictFrame
<1>3. ASSUME NEW r \in Requests, Announce(r) PROVE VerdictInv'
  <2>1. UNCHANGED granted /\ unsaved \subseteq unsaved'
    BY <1>3 DEF Announce, Goto, Fault, sharedVars, drainVars, promptVars, history
  <2>2. \A s \in Requests : requests'[s] \in {requests[s], "pending", "absent"}
    BY <1>3 DEF Announce, Goto, Fault, sharedVars, drainVars, promptVars, history
  <2>3. \A e \in Drains : todo'[e] \subseteq todo[e]
    BY <1>3 DEF Announce, Goto, Fault, sharedVars, drainVars, promptVars, history
  <2>4. \A e \in Drains : pc'[e] \in Deciding => pc[e] \in Deciding /\ entries'[e] = entries[e]
    BY <1>3 DEF Announce, Goto, Fault, sharedVars, drainVars, promptVars, history
  <2>. QED
    BY <2>1, <2>2, <2>3, <2>4, VerdictFrame
<1>4. ASSUME NEW p \in Triggers \cup Drains, SkipsRequestsLock(p) PROVE VerdictInv'
  <2>1. UNCHANGED granted /\ unsaved \subseteq unsaved'
    BY <1>4 DEF SkipsRequestsLock, Goto, Fault, sharedVars, drainVars, promptVars, history
  <2>2. \A s \in Requests : requests'[s] \in {requests[s], "pending", "absent"}
    BY <1>4 DEF SkipsRequestsLock, Goto, Fault, sharedVars, drainVars, promptVars, history
  <2>3. \A e \in Drains : todo'[e] \subseteq todo[e]
    BY <1>4 DEF SkipsRequestsLock, Goto, Fault, sharedVars, drainVars, promptVars, history
  <2>4. \A e \in Drains : pc'[e] \in Deciding => pc[e] \in Deciding /\ entries'[e] = entries[e]
    BY <1>4 DEF SkipsRequestsLock, Goto, Fault, sharedVars, drainVars, promptVars, history
  <2>. QED
    BY <2>1, <2>2, <2>3, <2>4, VerdictFrame
<1>5. ASSUME NEW p \in Triggers \cup Drains, ReleasesRequestsLock(p) PROVE VerdictInv'
  <2>1. UNCHANGED <<requests, todo, granted, home, unsaved, blind>>
    BY <1>5 DEF ReleasesRequestsLock, promptVars, history, drainVars
  <2>2a. \A d \in Drains \ {p} : entries'[d] = entries[d] /\ pc'[d] = pc[d]
    BY <1>5 DEF ReleasesRequestsLock, Goto, drainVars
  <2>2b. p \in Drains => pc[p] = "leave" /\ pc'[p] = "done"
    BY SMTT(30), <1>5 DEF ReleasesRequestsLock, Goto
  <2>2. /\ \A d \in Drains \ {p} : entries'[d] = entries[d] /\ pc'[d] = pc[d]
        /\ p \in Drains => pc[p] = "leave" /\ pc'[p] = "done"
    BY <2>2a, <2>2b
  <2>4. \A d \in Drains : pc'[d] \in Deciding <=> pc[d] \in Deciding
    BY <2>2
  <2>5. \A d \in Drains : pc'[d] \in Deciding => entries'[d] = entries[d]
    BY <2>2
  <2>. QED
    BY <2>1, <2>4, <2>5, VerdictFrame
<1>6. ASSUME NEW t \in Triggers, TriggerChecks(t) PROVE VerdictInv'
  <2>1. UNCHANGED granted /\ unsaved \subseteq unsaved'
    BY <1>6 DEF TakesRequestsLock, TriggerChecks, Goto, Fault, sharedVars, drainVars, promptVars, history
  <2>2. \A s \in Requests : requests'[s] \in {requests[s], "pending", "absent"}
    BY <1>6 DEF TakesRequestsLock, TriggerChecks, Goto, Fault, sharedVars, drainVars, promptVars, history
  <2>3. \A e \in Drains : todo'[e] \subseteq todo[e]
    BY <1>6 DEF TakesRequestsLock, TriggerChecks, Goto, Fault, sharedVars, drainVars, promptVars, history
  <2>4. \A e \in Drains : pc'[e] \in Deciding => pc[e] \in Deciding /\ entries'[e] = entries[e]
    BY <1>6 DEF TakesRequestsLock, TriggerChecks, Goto, Fault, sharedVars, drainVars, promptVars, history
  <2>. QED
    BY <2>1, <2>2, <2>3, <2>4, VerdictFrame
<1>7. ASSUME NEW t \in Triggers, TriggerAppends(t) PROVE VerdictInv'
  <2>1. UNCHANGED granted /\ unsaved \subseteq unsaved'
    BY <1>7 DEF TriggerAppends, Goto, Fault, sharedVars, drainVars, promptVars, history
  <2>2. \A s \in Requests : requests'[s] \in {requests[s], "pending", "absent"}
    BY <1>7 DEF TriggerAppends, Goto, Fault, sharedVars, drainVars, promptVars, history
  <2>3. \A e \in Drains : todo'[e] \subseteq todo[e]
    BY <1>7 DEF TriggerAppends, Goto, Fault, sharedVars, drainVars, promptVars, history
  <2>4. \A e \in Drains : pc'[e] \in Deciding => pc[e] \in Deciding /\ entries'[e] = entries[e]
    BY <1>7 DEF TriggerAppends, Goto, Fault, sharedVars, drainVars, promptVars, history
  <2>. QED
    BY <2>1, <2>2, <2>3, <2>4, VerdictFrame
<1>8. ASSUME NEW d \in Drains, DrainReads(d) PROVE VerdictInv'
  <2>. USE DEF VerdictInv
  <2>1. PICK o \in Orchs, old \in SUBSET Requests :
              \/ /\ TakesRequestsLock(d, o, IF old # {} THEN "truncate"
                                            ELSE IF PendingOf(requests, o) # {} THEN "count"
                                            ELSE "leave")
                 /\ entries' = [entries EXCEPT ![d] =
                       [r \in Requests |-> IF r \in old THEN "absent" ELSE requests[r]]]
                 /\ todo' = [todo EXCEPT ![d] = PendingOf(requests, o)]
                 /\ \A r \in old : requests[r] = "pending" /\ home[r] # o
              \/ TakesRequestsLock(d, o, "leave") /\ UNCHANGED <<entries, todo>>
    BY <1>8, DrainTakesLock
  <2>2. /\ UNCHANGED <<requests, granted, unsaved>>
        /\ \A e \in Drains \ {d} : pc'[e] = pc[e] /\ entries'[e] = entries[e] /\ todo'[e] = todo[e]
    BY <2>1, <1>8 DEF TakesRequestsLock, Goto, DrainReads
  <2>3. pc'[d] \in Deciding => \A r \in Requests : entries'[d][r] \in {requests[r], "absent"}
    BY <2>1 DEF TakesRequestsLock, Goto
  <2>4. \A r \in Requests : r \in todo'[d] => r \in todo[d] \/ requests[r] = "pending"
    BY <2>1
  <2>5. \A e \in Drains, r \in Requests : r \in todo'[e] => requests'[r] \in {"pending", "absent"}
    BY <2>2, <2>4
  <2>6. \A e \in Drains : pc'[e] \in Deciding => \A r \in Requests :
          \/ entries'[e][r] \in {requests[r], "absent"}
          \/ pc[e] \in Deciding /\ entries'[e][r] = entries[e][r]
    BY <2>2, <2>3
  <2>. HIDE DEF SpawnTypeOK, LockInv, OriginInv, TodoInv, Deciding, Requests, Procs
  <2>7. ASSUME NEW e \in Drains, pc'[e] \in Deciding, NEW s \in Requests
        PROVE  /\ entries'[e][s] = "approved" => \E f \in Drains : <<f, s>> \in granted'
               /\ entries'[e][s] = "denied" =>
                     \A f \in Drains : <<f, s>> \in granted' => f \in unsaved'
    BY <2>2, <2>6, <2>7
  <2>8. ASSUME NEW s \in Requests
        PROVE  /\ requests'[s] = "approved" => \E f \in Drains : <<f, s>> \in granted'
               /\ requests'[s] = "denied" =>
                     \A f \in Drains : <<f, s>> \in granted' => f \in unsaved'
    BY <2>2, <2>8
  <2>. QED
    BY <2>5, <2>7, <2>8
<1>9. ASSUME NEW d \in Drains, DrainCounts(d) PROVE VerdictInv'
  <2>1. UNCHANGED granted /\ unsaved \subseteq unsaved'
    BY <1>9 DEF DrainCounts, Goto, Fault, sharedVars, drainVars, promptVars, history
  <2>2. \A s \in Requests : requests'[s] \in {requests[s], "pending", "absent"}
    BY <1>9 DEF DrainCounts, Goto, Fault, sharedVars, drainVars, promptVars, history
  <2>3. \A e \in Drains : todo'[e] \subseteq todo[e]
    BY <1>9 DEF DrainCounts, Goto, Fault, sharedVars, drainVars, promptVars, history
  <2>4. \A e \in Drains : pc'[e] \in Deciding => pc[e] \in Deciding /\ entries'[e] = entries[e]
    BY <1>9 DEF DrainCounts, Goto, Fault, sharedVars, drainVars, promptVars, history
  <2>. QED
    BY <2>1, <2>2, <2>3, <2>4, VerdictFrame
<1>10. ASSUME NEW d \in Drains, NEW r \in Requests, Approve(d, r) PROVE VerdictInv'
  <2>. USE DEF VerdictInv
  <2>1. /\ pc[d] = "decide" /\ pc[d] \in Deciding /\ r \in todo[d]
        /\ \A x \in Procs \ {d} : pc'[x] = pc[x]
        /\ \A e \in Drains \ {d} : entries'[e] = entries[e] /\ todo'[e] = todo[e]
        /\ entries'[d][r] = "approved"
        /\ \A s \in Requests \ {r} : entries'[d][s] = entries[d][s]
        /\ todo'[d] \subseteq todo[d]
        /\ UNCHANGED <<requests, unsaved>>
        /\ granted' = granted \cup {<<d, r>>}
    BY <1>10 DEF Approve, Decides, Goto
  <2>2. requests[r] # "denied"
    BY <2>1
  <2>3. \A e \in Drains \ {d} : pc'[e] \notin Deciding
    BY <2>1
  <2>4. \A e \in Drains, s \in Requests : s \in todo'[e] => requests'[s] \in {"pending", "absent"}
    BY <2>1
  <2>5. \A e \in Drains, s \in Requests : <<e, s>> \in granted' => <<e, s>> \in granted \/ s = r
    BY <2>1
  <2>. HIDE DEF SpawnTypeOK, LockInv, OriginInv, TodoInv, Deciding, Requests, Procs
  <2>6. ASSUME NEW e \in Drains, pc'[e] \in Deciding, NEW s \in Requests
        PROVE  /\ entries'[e][s] = "approved" => \E f \in Drains : <<f, s>> \in granted'
               /\ entries'[e][s] = "denied" =>
                     \A f \in Drains : <<f, s>> \in granted' => f \in unsaved'
    <3>1. e = d
      BY <2>3, <2>6
    <3>2. CASE s = r
      BY <2>1, <3>1, <3>2
    <3>3. CASE s # r
      BY <2>1, <2>5, <3>1, <3>3
    <3>. QED
      BY <3>2, <3>3
  <2>7. ASSUME NEW s \in Requests
        PROVE  /\ requests'[s] = "approved" => \E f \in Drains : <<f, s>> \in granted'
               /\ requests'[s] = "denied" =>
                     \A f \in Drains : <<f, s>> \in granted' => f \in unsaved'
    BY <2>1, <2>2, <2>5, <2>7
  <2>. QED
    BY <2>4, <2>6, <2>7
<1>11. ASSUME NEW d \in Drains, NEW r \in Requests, Deny(d, r) PROVE VerdictInv'
  <2>. USE DEF VerdictInv
  <2>1. /\ pc[d] = "decide" /\ pc[d] \in Deciding /\ r \in todo[d]
        /\ \A x \in Procs \ {d} : pc'[x] = pc[x]
        /\ \A e \in Drains \ {d} : entries'[e] = entries[e] /\ todo'[e] = todo[e]
        /\ entries'[d][r] = "denied"
        /\ \A s \in Requests \ {r} : entries'[d][s] = entries[d][s]
        /\ todo'[d] \subseteq todo[d]
        /\ UNCHANGED <<requests, unsaved, granted>>
    BY <1>11 DEF Deny, Decides, Goto
  <2>2. entries[d][r] = "pending"
    BY <2>1
  <2>3. \A e \in Drains \ {d} : pc'[e] \notin Deciding /\ pc[e] \notin Deciding
    BY <2>1
  <2>4. \A e \in Drains : <<e, r>> \in granted => e \in unsaved
    <3>1. SUFFICES ASSUME NEW e \in Drains \ unsaved, <<e, r>> \in granted PROVE FALSE
      OBVIOUS
    <3>2. CASE e = d
      BY <2>1, <2>2, <3>1, <3>2 DEF GrantInv
    <3>3. CASE e # d
      BY <2>1, <2>2, <2>3, <3>1, <3>3 DEF GrantInv
    <3>. QED
      BY <3>2, <3>3
  <2>. HIDE DEF SpawnTypeOK, LockInv, OriginInv, TodoInv, Deciding, Requests, Procs
  <2>5. ASSUME NEW e \in Drains, pc'[e] \in Deciding, NEW s \in Requests
        PROVE  /\ entries'[e][s] = "approved" => \E f \in Drains : <<f, s>> \in granted'
               /\ entries'[e][s] = "denied" =>
                     \A f \in Drains : <<f, s>> \in granted' => f \in unsaved'
    <3>1. e = d
      BY <2>3, <2>5
    <3>2. CASE s = r
      BY <2>1, <2>4, <3>1, <3>2
    <3>3. CASE s # r
      BY <2>1, <3>1, <3>3
    <3>. QED
      BY <3>2, <3>3
  <2>6. ASSUME NEW s \in Requests
        PROVE  /\ requests'[s] = "approved" => \E f \in Drains : <<f, s>> \in granted'
               /\ requests'[s] = "denied" =>
                     \A f \in Drains : <<f, s>> \in granted' => f \in unsaved'
    BY <2>1, <2>6
  <2>7. \A e \in Drains, s \in Requests : s \in todo'[e] => requests'[s] \in {"pending", "absent"}
    BY <2>1
  <2>. QED
    BY <2>5, <2>6, <2>7
<1>12. ASSUME NEW d \in Drains, TruncateRequests(d) PROVE VerdictInv'
  <2>1. UNCHANGED granted /\ unsaved \subseteq unsaved'
    BY <1>12 DEF TruncateRequests, Goto, Fault, sharedVars, drainVars, promptVars, history
  <2>2. \A s \in Requests : requests'[s] \in {requests[s], "pending", "absent"}
    BY <1>12 DEF TruncateRequests, Goto, Fault, sharedVars, drainVars, promptVars, history
  <2>3. \A e \in Drains : todo'[e] \subseteq todo[e]
    BY <1>12 DEF TruncateRequests, Goto, Fault, sharedVars, drainVars, promptVars, history
  <2>4. \A e \in Drains : pc'[e] \in Deciding => pc[e] \in Deciding /\ entries'[e] = entries[e]
    BY <1>12 DEF TruncateRequests, Goto, Fault, sharedVars, drainVars, promptVars, history
  <2>. QED
    BY <2>1, <2>2, <2>3, <2>4, VerdictFrame
<1>13. ASSUME NEW d \in Drains, RewriteRequests(d) PROVE VerdictInv'
  <2>. USE DEF VerdictInv
  <2>1. /\ UNCHANGED <<granted, entries, todo>>
        /\ \A e \in Drains \ {d} : pc'[e] = pc[e] /\ pc[e] \notin Deciding
        /\ pc[d] = "rewrite" /\ pc[d] \in Deciding
        /\ unsaved \subseteq unsaved'
    BY <1>13 DEF RewriteRequests, Goto, drainVars
  <2>2. \A r \in Requests : /\ requests'[r] \in {entries[d][r], requests[r], "absent"}
                            /\ entries[d][r] # "absent" => requests'[r] \in {entries[d][r], requests[r]}
    BY <1>13 DEF RewriteRequests
  <2>3. \A e \in Drains, r \in Requests : r \in todo'[e] => requests'[r] \in {"pending", "absent"}
    <3>1. \A e \in Drains \ {d} : todo'[e] = {}
      BY <2>1
    <3>2. \A r \in Requests : r \in todo[d] => requests'[r] \in {"pending", "absent"}
      BY <2>2
    <3>. QED
      BY <2>1, <3>1, <3>2
  <2>. HIDE DEF SpawnTypeOK, LockInv, OriginInv, TodoInv, Deciding, Requests, Procs
  <2>4. ASSUME NEW e \in Drains, pc'[e] \in Deciding, NEW s \in Requests
        PROVE  /\ entries'[e][s] = "approved" => \E f \in Drains : <<f, s>> \in granted'
               /\ entries'[e][s] = "denied" =>
                     \A f \in Drains : <<f, s>> \in granted' => f \in unsaved'
    <3>1. e = d
      BY <2>1, <2>4
    <3>. QED
      BY <2>1, <2>4, <3>1
  <2>5. ASSUME NEW s \in Requests
        PROVE  /\ requests'[s] = "approved" => \E f \in Drains : <<f, s>> \in granted'
               /\ requests'[s] = "denied" =>
                     \A f \in Drains : <<f, s>> \in granted' => f \in unsaved'
    BY <2>1, <2>2, <2>5
  <2>. QED
    BY <2>3, <2>4, <2>5
<1>14. ASSUME NEW q \in Prompts, SkipsApprovedLock(q) PROVE VerdictInv'
  <2>1. UNCHANGED granted /\ unsaved \subseteq unsaved'
    BY <1>14 DEF SkipsApprovedLock, Goto, Fault, sharedVars, drainVars, promptVars, history
  <2>2. \A s \in Requests : requests'[s] \in {requests[s], "pending", "absent"}
    BY <1>14 DEF SkipsApprovedLock, Goto, Fault, sharedVars, drainVars, promptVars, history
  <2>3. \A e \in Drains : todo'[e] \subseteq todo[e]
    BY <1>14 DEF SkipsApprovedLock, Goto, Fault, sharedVars, drainVars, promptVars, history
  <2>4. \A e \in Drains : pc'[e] \in Deciding => pc[e] \in Deciding /\ entries'[e] = entries[e]
    BY <1>14 DEF SkipsApprovedLock, Goto, Fault, sharedVars, drainVars, promptVars, history
  <2>. QED
    BY <2>1, <2>2, <2>3, <2>4, VerdictFrame
<1>15. ASSUME NEW q \in Prompts, ReleasesApprovedLock(q) PROVE VerdictInv'
  <2>1. UNCHANGED granted /\ unsaved \subseteq unsaved'
    BY <1>15 DEF ReleasesApprovedLock, Goto, Fault, sharedVars, drainVars, promptVars, history
  <2>2. \A s \in Requests : requests'[s] \in {requests[s], "pending", "absent"}
    BY <1>15 DEF ReleasesApprovedLock, Goto, Fault, sharedVars, drainVars, promptVars, history
  <2>3. \A e \in Drains : todo'[e] \subseteq todo[e]
    BY <1>15 DEF ReleasesApprovedLock, Goto, Fault, sharedVars, drainVars, promptVars, history
  <2>4. \A e \in Drains : pc'[e] \in Deciding => pc[e] \in Deciding /\ entries'[e] = entries[e]
    BY <1>15 DEF ReleasesApprovedLock, Goto, Fault, sharedVars, drainVars, promptVars, history
  <2>. QED
    BY <2>1, <2>2, <2>3, <2>4, VerdictFrame
<1>16. ASSUME NEW q \in Prompts, PromptReads(q) PROVE VerdictInv'
  <2>1. UNCHANGED granted /\ unsaved \subseteq unsaved'
    BY <1>16 DEF PromptReads, Goto, Fault, sharedVars, drainVars, promptVars, history
  <2>2. \A s \in Requests : requests'[s] \in {requests[s], "pending", "absent"}
    BY <1>16 DEF PromptReads, Goto, Fault, sharedVars, drainVars, promptVars, history
  <2>3. \A e \in Drains : todo'[e] \subseteq todo[e]
    BY <1>16 DEF PromptReads, Goto, Fault, sharedVars, drainVars, promptVars, history
  <2>4. \A e \in Drains : pc'[e] \in Deciding => pc[e] \in Deciding /\ entries'[e] = entries[e]
    BY <1>16 DEF PromptReads, Goto, Fault, sharedVars, drainVars, promptVars, history
  <2>. QED
    BY <2>1, <2>2, <2>3, <2>4, VerdictFrame
<1>17. ASSUME NEW q \in Prompts, PromptMarks(q) PROVE VerdictInv'
  <2>1. UNCHANGED granted /\ unsaved \subseteq unsaved'
    BY <1>17 DEF PromptMarks, Goto, Fault, sharedVars, drainVars, promptVars, history
  <2>2. \A s \in Requests : requests'[s] \in {requests[s], "pending", "absent"}
    BY <1>17 DEF PromptMarks, Goto, Fault, sharedVars, drainVars, promptVars, history
  <2>3. \A e \in Drains : todo'[e] \subseteq todo[e]
    BY <1>17 DEF PromptMarks, Goto, Fault, sharedVars, drainVars, promptVars, history
  <2>4. \A e \in Drains : pc'[e] \in Deciding => pc[e] \in Deciding /\ entries'[e] = entries[e]
    BY <1>17 DEF PromptMarks, Goto, Fault, sharedVars, drainVars, promptVars, history
  <2>. QED
    BY <2>1, <2>2, <2>3, <2>4, VerdictFrame
<1>18. ASSUME NEW q \in Prompts, PromptInjects(q) PROVE VerdictInv'
  <2>1. UNCHANGED granted /\ unsaved \subseteq unsaved'
    BY <1>18 DEF PromptInjects, Goto, Fault, sharedVars, drainVars, promptVars, history
  <2>2. \A s \in Requests : requests'[s] \in {requests[s], "pending", "absent"}
    BY <1>18 DEF PromptInjects, Goto, Fault, sharedVars, drainVars, promptVars, history
  <2>3. \A e \in Drains : todo'[e] \subseteq todo[e]
    BY <1>18 DEF PromptInjects, Goto, Fault, sharedVars, drainVars, promptVars, history
  <2>4. \A e \in Drains : pc'[e] \in Deciding => pc[e] \in Deciding /\ entries'[e] = entries[e]
    BY <1>18 DEF PromptInjects, Goto, Fault, sharedVars, drainVars, promptVars, history
  <2>. QED
    BY <2>1, <2>2, <2>3, <2>4, VerdictFrame
<1>19. ASSUME NEW p \in Procs, Kill(p) PROVE VerdictInv'
  <2>1. UNCHANGED granted /\ unsaved \subseteq unsaved'
    BY <1>19 DEF Kill, Goto, Fault, sharedVars, drainVars, promptVars, history
  <2>2. \A s \in Requests : requests'[s] \in {requests[s], "pending", "absent"}
    BY <1>19 DEF Kill, Goto, Fault, sharedVars, drainVars, promptVars, history
  <2>3. \A e \in Drains : todo'[e] \subseteq todo[e]
    <3>1. todo' = todo \/ todo' = [todo EXCEPT ![p] = {}]
      BY <1>19 DEF Kill, drainVars
    <3>. QED
      BY <3>1
  <2>4. \A e \in Drains : pc'[e] \in Deciding => pc[e] \in Deciding /\ entries'[e] = entries[e]
    BY <1>19 DEF Kill, Goto, Fault, sharedVars, drainVars, promptVars, history
  <2>. QED
    BY <2>1, <2>2, <2>3, <2>4, VerdictFrame
<1>20. ASSUME SwitchOrchestration PROVE VerdictInv'
  <2>1. UNCHANGED granted /\ unsaved \subseteq unsaved'
    BY <1>20 DEF SwitchOrchestration, Goto, Fault, sharedVars, drainVars, promptVars, history
  <2>2. \A s \in Requests : requests'[s] \in {requests[s], "pending", "absent"}
    BY <1>20 DEF SwitchOrchestration, Goto, Fault, sharedVars, drainVars, promptVars, history
  <2>3. \A e \in Drains : todo'[e] \subseteq todo[e]
    BY <1>20 DEF SwitchOrchestration, Goto, Fault, sharedVars, drainVars, promptVars, history
  <2>4. \A e \in Drains : pc'[e] \in Deciding => pc[e] \in Deciding /\ entries'[e] = entries[e]
    BY <1>20 DEF SwitchOrchestration, Goto, Fault, sharedVars, drainVars, promptVars, history
  <2>. QED
    BY <2>1, <2>2, <2>3, <2>4, VerdictFrame
<1>21. ASSUME UNCHANGED vars PROVE VerdictInv'
  <2>1. UNCHANGED granted /\ unsaved \subseteq unsaved'
    BY <1>21 DEF vars, sharedVars, drainVars, promptVars, history
  <2>2. \A s \in Requests : requests'[s] \in {requests[s], "pending", "absent"}
    BY <1>21 DEF vars, sharedVars, drainVars, promptVars, history
  <2>3. \A e \in Drains : todo'[e] \subseteq todo[e]
    BY <1>21 DEF vars, sharedVars, drainVars, promptVars, history
  <2>4. \A e \in Drains : pc'[e] \in Deciding => pc[e] \in Deciding /\ entries'[e] = entries[e]
    BY <1>21 DEF vars, sharedVars, drainVars, promptVars, history
  <2>. QED
    BY <2>1, <2>2, <2>3, <2>4, VerdictFrame
<1>. HIDE DEF VerdictInv
<1>22. QED
  BY <1>1, <1>2, <1>3, <1>4, <1>5, <1>6, <1>7, <1>8, <1>9, <1>10, <1>11, <1>12, <1>13, <1>14,
     <1>15, <1>16, <1>17, <1>18, <1>19, <1>20, <1>21, Zenon DEF Acts

-----------------------------------------------------------------------------
(* The approved file.                                                      *)

\* No approved row is lost.
LEMMA SurviveStep == ASSUME SpawnTypeOK, LockInv, SurviveInv, Acts PROVE SurviveInv'
<1>. USE DistinctAssumption DEF SpawnTypeOK, LockInv, Deciding, Requests, Procs, Free,
   SurviveInv, ApprovalsSurvive
<1>1. ASSUME NEW w \in Workers, WorkerCounts(w) PROVE SurviveInv'
  BY <1>1 DEF WorkerCounts, Goto, Fault, sharedVars, drainVars, promptVars, history
<1>2. ASSUME NEW w \in Workers, WorkerAppends(w) PROVE SurviveInv'
  BY <1>2 DEF WorkerAppends, Goto, Fault, sharedVars, drainVars, promptVars, history
<1>3. ASSUME NEW r \in Requests, Announce(r) PROVE SurviveInv'
  BY <1>3 DEF Announce, Goto, Fault, sharedVars, drainVars, promptVars, history
<1>4. ASSUME NEW p \in Triggers \cup Drains, SkipsRequestsLock(p) PROVE SurviveInv'
  BY <1>4 DEF SkipsRequestsLock, Goto, Fault, sharedVars, drainVars, promptVars, history
<1>5. ASSUME NEW p \in Triggers \cup Drains, ReleasesRequestsLock(p) PROVE SurviveInv'
  BY <1>5 DEF ReleasesRequestsLock, Goto, Fault, sharedVars, drainVars, promptVars, history
<1>6. ASSUME NEW t \in Triggers, TriggerChecks(t) PROVE SurviveInv'
  BY <1>6 DEF TakesRequestsLock, TriggerChecks, Goto, Fault, sharedVars, drainVars,
     promptVars, history
<1>7. ASSUME NEW t \in Triggers, TriggerAppends(t) PROVE SurviveInv'
  BY <1>7 DEF TriggerAppends, Goto, Fault, sharedVars, drainVars, promptVars, history
<1>8. ASSUME NEW d \in Drains, DrainReads(d) PROVE SurviveInv'
  BY <1>8 DEF TakesRequestsLock, DrainReads, Goto, Fault, sharedVars, drainVars, promptVars,
     history
<1>9. ASSUME NEW d \in Drains, DrainCounts(d) PROVE SurviveInv'
  BY <1>9 DEF DrainCounts, Goto, Fault, sharedVars, drainVars, promptVars, history
<1>10. ASSUME NEW d \in Drains, NEW r \in Requests, Approve(d, r) PROVE SurviveInv'
  BY <1>10 DEF Decides, Approve, Goto, Fault, sharedVars, drainVars, promptVars, history
<1>11. ASSUME NEW d \in Drains, NEW r \in Requests, Deny(d, r) PROVE SurviveInv'
  BY <1>11 DEF Decides, Deny, Goto, Fault, sharedVars, drainVars, promptVars, history
<1>12. ASSUME NEW d \in Drains, TruncateRequests(d) PROVE SurviveInv'
  BY <1>12 DEF TruncateRequests, Goto, Fault, sharedVars, drainVars, promptVars, history
<1>13. ASSUME NEW d \in Drains, RewriteRequests(d) PROVE SurviveInv'
  BY <1>13 DEF RewriteRequests, Goto, Fault, sharedVars, drainVars, promptVars, history
<1>14. ASSUME NEW q \in Prompts, SkipsApprovedLock(q) PROVE SurviveInv'
  BY <1>14 DEF SkipsApprovedLock, Goto, Fault, sharedVars, drainVars, promptVars, history
<1>15. ASSUME NEW q \in Prompts, ReleasesApprovedLock(q) PROVE SurviveInv'
  BY <1>15 DEF ReleasesApprovedLock, Goto, Fault, sharedVars, drainVars, promptVars, history
<1>16. ASSUME NEW q \in Prompts, PromptReads(q) PROVE SurviveInv'
  BY <1>16 DEF PromptReads, Goto, Fault, sharedVars, drainVars, promptVars, history
<1>17. ASSUME NEW q \in Prompts, PromptMarks(q) PROVE SurviveInv'
  BY <1>17 DEF PromptMarks, Goto, Fault, sharedVars, drainVars, promptVars, history
<1>18. ASSUME NEW q \in Prompts, PromptInjects(q) PROVE SurviveInv'
  BY <1>18 DEF PromptInjects, Goto, Fault, sharedVars, drainVars, promptVars, history
<1>19. ASSUME NEW p \in Procs, Kill(p) PROVE SurviveInv'
  BY <1>19 DEF Kill, Goto, Fault, sharedVars, drainVars, promptVars, history
<1>20. ASSUME SwitchOrchestration PROVE SurviveInv'
  BY <1>20 DEF SwitchOrchestration, Goto, Fault, sharedVars, drainVars, promptVars, history
<1>21. ASSUME UNCHANGED vars PROVE SurviveInv'
  BY <1>21 DEF vars, sharedVars, drainVars, promptVars, history
<1>. HIDE DEF SurviveInv
<1>22. QED
  BY <1>1, <1>2, <1>3, <1>4, <1>5, <1>6, <1>7, <1>8, <1>9, <1>10, <1>11, <1>12, <1>13, <1>14,
     <1>15, <1>16, <1>17, <1>18, <1>19, <1>20, <1>21, Zenon DEF Acts

\* Rows are taken once and reach the model.
LEMMA TakenStep == ASSUME SpawnTypeOK, TakenInv, Acts PROVE TakenInv'
<1>. USE DistinctAssumption DEF SpawnTypeOK, Deciding, Requests, Procs, Free
<1>. DEFINE Elsewhere == /\ UNCHANGED <<drained, block, injected, cut, unmarked>>
                        /\ \A x \in Prompts : pc'[x] = pc[x]
<1>0. Elsewhere => TakenInv'
  BY DEF TakenInv, Taken, DrainedReachesModel
<1>1. ASSUME NEW w \in Workers, WorkerCounts(w) PROVE TakenInv'
  <2>1. Elsewhere
    BY <1>1 DEF WorkerCounts, Fault, Goto, sharedVars, drainVars, promptVars, history
  <2>. QED
    BY <1>0, <2>1
<1>2. ASSUME NEW w \in Workers, WorkerAppends(w) PROVE TakenInv'
  <2>1. Elsewhere
    BY <1>2 DEF WorkerAppends, Fault, Goto, sharedVars, drainVars, promptVars, history
  <2>. QED
    BY <1>0, <2>1
<1>3. ASSUME NEW r \in Requests, Announce(r) PROVE TakenInv'
  <2>1. Elsewhere
    BY <1>3 DEF Announce, Goto, sharedVars, drainVars, promptVars, history
  <2>. QED
    BY <1>0, <2>1
<1>4. ASSUME NEW p \in Triggers \cup Drains, SkipsRequestsLock(p) PROVE TakenInv'
  <2>1. Elsewhere
    BY <1>4 DEF SkipsRequestsLock, Goto, sharedVars, drainVars, promptVars, history
  <2>. QED
    BY <1>0, <2>1
<1>5. ASSUME NEW p \in Triggers \cup Drains, ReleasesRequestsLock(p) PROVE TakenInv'
  <2>1. Elsewhere
    BY <1>5 DEF ReleasesRequestsLock, Goto, sharedVars, drainVars, promptVars, history
  <2>. QED
    BY <1>0, <2>1
<1>6. ASSUME NEW t \in Triggers, TriggerChecks(t) PROVE TakenInv'
  <2>1. Elsewhere
    BY <1>6 DEF TriggerChecks, TakesRequestsLock, Goto, sharedVars, drainVars, promptVars, history
  <2>. QED
    BY <1>0, <2>1
<1>7. ASSUME NEW t \in Triggers, TriggerAppends(t) PROVE TakenInv'
  <2>1. Elsewhere
    BY <1>7 DEF TriggerAppends, Goto, sharedVars, drainVars, promptVars, history
  <2>. QED
    BY <1>0, <2>1
<1>8. ASSUME NEW d \in Drains, DrainReads(d) PROVE TakenInv'
  <2>1. Elsewhere
    BY <1>8 DEF DrainReads, TakesRequestsLock, Goto, sharedVars, drainVars, promptVars, history
  <2>. QED
    BY <1>0, <2>1
<1>9. ASSUME NEW d \in Drains, DrainCounts(d) PROVE TakenInv'
  <2>1. Elsewhere
    BY <1>9 DEF DrainCounts, Goto, sharedVars, drainVars, promptVars, history
  <2>. QED
    BY <1>0, <2>1
<1>10. ASSUME NEW d \in Drains, NEW r \in Requests, Approve(d, r) PROVE TakenInv'
  <2>1. Elsewhere
    BY <1>10 DEF Decides, Approve, Goto, sharedVars, drainVars, promptVars, history
  <2>. QED
    BY <1>0, <2>1
<1>11. ASSUME NEW d \in Drains, NEW r \in Requests, Deny(d, r) PROVE TakenInv'
  <2>1. Elsewhere
    BY <1>11 DEF Decides, Deny, Goto, sharedVars, drainVars, promptVars, history
  <2>. QED
    BY <1>0, <2>1
<1>12. ASSUME NEW d \in Drains, TruncateRequests(d) PROVE TakenInv'
  <2>1. Elsewhere
    BY <1>12 DEF TruncateRequests, Goto, sharedVars, drainVars, promptVars, history
  <2>. QED
    BY <1>0, <2>1
<1>13. ASSUME NEW d \in Drains, RewriteRequests(d) PROVE TakenInv'
  <2>1. Elsewhere
    BY <1>13 DEF RewriteRequests, Goto, sharedVars, drainVars, promptVars, history
  <2>. QED
    BY <1>0, <2>1
<1>. USE DEF TakenInv, Taken, DrainedReachesModel, Undrained
<1>14. ASSUME NEW q \in Prompts, SkipsApprovedLock(q) PROVE TakenInv'
  BY <1>14 DEF SkipsApprovedLock, Goto, Fault, sharedVars, drainVars, promptVars, history
<1>15. ASSUME NEW q \in Prompts, ReleasesApprovedLock(q) PROVE TakenInv'
  BY <1>15 DEF ReleasesApprovedLock, Goto, Fault, sharedVars, drainVars, promptVars, history
<1>16. ASSUME NEW q \in Prompts, PromptReads(q) PROVE TakenInv'
  BY ZenonT(60), <1>16 DEF PromptReads, Goto, Fault, sharedVars, drainVars, promptVars, history
<1>17. ASSUME NEW q \in Prompts, PromptMarks(q) PROVE TakenInv'
  <2>1. /\ pc[q] = "mark" /\ pc'[q] = "leave"
        /\ \A x \in Procs \ {q} : pc'[x] = pc[x]
        /\ UNCHANGED <<injected, cut>>
        /\ \A x \in Prompts \ {q} : block'[x] = block[x]
        /\ block'[q] = Undrained(snapshot[q])
    BY <1>17 DEF PromptMarks, Goto, history
  <2>2. \/ drained' = drained \cup Undrained(snapshot[q]) /\ unmarked' = unmarked
        \/ drained' = drained /\ unmarked' = unmarked \cup {q}
    BY <1>17 DEF PromptMarks
  <2>3. injected[q] = {} /\ Undrained(snapshot[q]) \cap drained = {}
    BY <2>1
  <2>4. \A x \in Prompts \ {q} : injected'[x] \cup block'[x] = injected[x] \cup block[x]
    BY <2>1
  <2>5. injected'[q] \cup block'[q] = Undrained(snapshot[q])
    <3>1. injected'[q] = {} /\ block'[q] = Undrained(snapshot[q])
      BY <2>1, <2>3
    <3>. QED
      BY <3>1
  <2>6. DrainedReachesModel'
    <3>1. ASSUME NEW row \in drained, row \notin cut
          PROVE  \E x \in Prompts : \/ row \in injected'[x]
                                    \/ row \in block'[x] /\ pc'[x] \in {"leave", "inject", "dead"}
      <4>1. PICK x \in Prompts : \/ row \in injected[x]
                                 \/ row \in block[x] /\ pc[x] \in {"leave", "inject", "dead"}
        BY <3>1
      <4>2. x # q
        BY <4>1, <2>1, <2>3
      <4>3. injected'[x] = injected[x] /\ block'[x] = block[x] /\ pc'[x] = pc[x]
        BY <4>2, <2>1
      <4>. QED
        BY <4>1, <4>3
    <3>2. Undrained(snapshot[q]) \subseteq block'[q] /\ pc'[q] = "leave"
      BY <2>1
    <3>. QED
      BY <3>1, <3>2, <2>1, <2>2
  <2>7. \A x \in Prompts \ unmarked' : injected'[x] \cup block'[x] \subseteq drained'
    BY <2>2, <2>4, <2>5
  <2>8. \A x \in Prompts \ {q} : (injected'[x] \cup block'[x]) \cap (injected'[q] \cup block'[q]) # {}
                                 => x \in unmarked
    BY <2>3, <2>4, <2>5
  <2>. QED
    BY SMTT(30), <2>1, <2>2, <2>4, <2>6, <2>7, <2>8
<1>18. ASSUME NEW q \in Prompts, PromptInjects(q) PROVE TakenInv'
  <2>1. PICK shown \in SUBSET block[q] :
              /\ injected' = [injected EXCEPT ![q] = shown]
              /\ cut' = cut \cup (block[q] \ shown)
    BY <1>18 DEF PromptInjects
  <2>2. /\ pc[q] = "inject" /\ pc'[q] = "done"
        /\ \A x \in Procs \ {q} : pc'[x] = pc[x]
        /\ UNCHANGED <<drained, unmarked>>
        /\ block' = [block EXCEPT ![q] = {}]
    BY <1>18 DEF PromptInjects, Goto, sharedVars
  <2>3. \A x \in Prompts \ {q} : injected'[x] = injected[x]
    BY <2>1
  <2>4. injected[q] = {} /\ injected'[q] = shown
    BY <2>1, <2>2
  <2>5. DrainedReachesModel'
    BY <2>1, <2>2, <2>3, <2>4
  <2>6. \A x \in Prompts : injected'[x] \cup block'[x] \subseteq injected[x] \cup block[x]
    BY <2>2, <2>3, <2>4
  <2>7. \A x \in Prompts : pc'[x] \in {"start", "mark"} => block'[x] = {}
    BY <2>2
  <2>8. \A x \in Prompts : pc'[x] \in {"start", "mark", "leave", "inject"} => injected'[x] = {}
    BY <2>2, <2>3
  <2>9. \A x \in Prompts \ unmarked' : injected'[x] \cup block'[x] \subseteq drained'
    BY <2>2, <2>6
  <2>10. \A x, y \in Prompts :
           x # y /\ (injected'[x] \cup block'[x]) \cap (injected'[y] \cup block'[y]) # {}
              => {x, y} \cap unmarked' # {}
    BY <2>2, <2>6
  <2>. QED
    BY <2>5, <2>7, <2>8, <2>9, <2>10
<1>19. ASSUME NEW p \in Procs, Kill(p) PROVE TakenInv'
  BY <1>19 DEF Kill, Goto, Fault, sharedVars, drainVars, promptVars, history
<1>20. ASSUME SwitchOrchestration PROVE TakenInv'
  BY <1>20 DEF SwitchOrchestration, Goto, Fault, sharedVars, drainVars, promptVars, history
<1>21. ASSUME UNCHANGED vars PROVE TakenInv'
  BY <1>21 DEF vars, sharedVars, drainVars, promptVars, history
<1>. HIDE DEF TakenInv
<1>22. QED
  BY <1>1, <1>2, <1>3, <1>4, <1>5, <1>6, <1>7, <1>8, <1>9, <1>10, <1>11, <1>12, <1>13, <1>14,
     <1>15, <1>16, <1>17, <1>18, <1>19, <1>20, <1>21, Zenon DEF Acts

-----------------------------------------------------------------------------
(* The invariant, and what follows from it.                                *)

LEMMA InvInit == Init => SpawnInv
<1>. SUFFICES ASSUME Init PROVE SpawnInv
  OBVIOUS
<1>. USE DEF Init
<1>1. SpawnTypeOK
  BY BoundsAssumption DEF SpawnTypeOK, Labels, Status, NoRows
<1>2. LockInv /\ OriginInv /\ TodoInv
  BY DEF LockInv, OriginInv, TodoInv, Deciding, NoRows, Requests, Procs
<1>3. DebounceInv
  BY DEF DebounceInv, OnePendingHousekeeper, NoRows, Deciding, Requests, Procs
<1>4. GrantInv
  BY DEF GrantInv, ApprovedOnce
<1>5. VerdictInv
  BY Zenon DEF VerdictInv, NoRows, Deciding, Requests, Procs
<1>6. SurviveInv /\ TakenInv
  BY DEF SurviveInv, ApprovalsSurvive, TakenInv, Taken, DrainedReachesModel
<1>. QED
  BY <1>1, <1>2, <1>3, <1>4, <1>5, <1>6 DEF SpawnInv

LEMMA InvStep == SpawnInv /\ [Next]_vars => SpawnInv'
<1>. SUFFICES ASSUME SpawnInv, [Next]_vars PROVE SpawnInv'
  OBVIOUS
<1>1. Acts
  BY StepsAct
<1>. QED
  BY <1>1, TypeStep, LocksStep, OriginStep, TodoStep, DebounceStep, GrantStep, VerdictStep,
     SurviveStep, TakenStep DEF SpawnInv

LEMMA InvAlways == Spec => []SpawnInv
  BY InvInit, InvStep, PTL DEF Spec

\* Every variable keeps its type.
THEOREM SpawnTypeCorrect == Spec => []SpawnTypeOK
<1>1. SpawnInv => SpawnTypeOK
  BY DEF SpawnInv
<1>. QED
  BY <1>1, InvAlways, PTL

\* The debounce of spawn-housekeeper-on-trigger.js: one pending housekeeper request
\* per orchestration, among hooks that could read the file.
THEOREM DebounceHolds == Spec => []OnePendingHousekeeper
<1>1. SpawnInv => OnePendingHousekeeper
  BY DEF SpawnInv, DebounceInv
<1>. QED
  BY <1>1, InvAlways, PTL

\* process-spawn-requests.js approves a request once, unless the decisions of a
\* drain did not reach the request file.
THEOREM NoDoubleApproval == Spec => []ApprovedOnce
<1>1. SpawnInv => ApprovedOnce
  BY DEF SpawnInv, GrantInv
<1>. QED
  BY <1>1, InvAlways, PTL

\* A request that process-spawn-requests.js records as approved has its row in the
\* approved file, one that it records as denied has none that a saved decision put
\* there, but for the named failures.
THEOREM FilesAgree == Spec => []VerdictsAgree
<1>1. SpawnInv => VerdictsAgree
  BY DEF SpawnInv, VerdictInv, SurviveInv, ApprovalsSurvive, VerdictsAgree
<1>. QED
  BY <1>1, InvAlways, PTL

\* A row appended to the approved file under its lock stays there.
THEOREM NoApprovalLost == Spec => []ApprovalsSurvive
<1>1. SpawnInv => ApprovalsSurvive
  BY DEF SpawnInv, SurviveInv
<1>. QED
  BY <1>1, InvAlways, PTL

\* inject-spawn-approved-drainer.js shows a row to the model once, unless it could
\* not mark the row.
THEOREM NoDoubleInjection == Spec => []InjectedOnce
<1>1. SpawnInv => InjectedOnce
  BY DEF SpawnInv, TakenInv, Taken, InjectedOnce
<1>. QED
  BY <1>1, InvAlways, PTL

\* A row marked drained is shown, unless its hook is killed or its block was full.
THEOREM DrainedIsShown == Spec => []DrainedReachesModel
<1>1. SpawnInv => DrainedReachesModel
  BY DEF SpawnInv, TakenInv
<1>. QED
  BY <1>1, InvAlways, PTL
=============================================================================
