# A formal model of Orchestray

Orchestray is a plugin for Claude Code: a product-manager agent splits work over
other agents, and around it some 160 short-lived Node programs run as hooks. They
share no memory. What they share is a directory of files (`.orchestray/`), which
several of them read, append to, rewrite and rename at the same time, and any of
them can be killed between two system calls. Beside the hooks there is one
long-lived process, the MCP server, which also runs third-party plugins as child
processes.

The project models the parts whose correctness depends on the order of events:
the plugin loader, the advisory lock under every shared JSONL file, the closing of
an orchestration, the two guards that keep a hook from running twice, the queue of
spawn requests, and the circuit breaker of automatic learning. It is written in
TLA+, model-checked with TLC, and its safety properties are proved with TLAPS for
every value of the constants.

Paths below are relative to the repository; `bin/_lib/plugin-loader.js` stands for
`src/bin/_lib/plugin-loader.js` in `PROJECT.json`.

## Modules

| module | what it is |
|---|---|
| `PluginService` | abstract: what the loader promises the client about one plugin |
| `PluginLifecycle` | one plugin under `bin/_lib/plugin-loader.js`, with the start and end of `bin/mcp-server/server.js` |
| `PluginLifecycleProofs`, `PluginRefinementProofs` | its invariants and action properties; that it implements `PluginService` |
| `AdvisoryLock` | abstract: what a lock file promises those who work under it |
| `SharedFile` | abstract: what the callers of `bin/_lib/atomic-append.js` may rely on |
| `AtomicAppend` | `bin/_lib/atomic-append.js`: the lock, its recovery and the three operations |
| `AtomicAppendProofs` | its invariants; that it implements `AdvisoryLock` and `SharedFile` |
| `AuditTrail` | abstract: what the readers of an orchestration's rows may rely on while it is closed |
| `EventsArchive` | the four programs that archive and rotate `events.jsonl` at the end of an orchestration |
| `EventsArchiveProofs` | its invariants; that it implements `AuditTrail` |
| `OnceGate` | abstract: what the author of a hook may rely on when two installs start it |
| `HookClaim` | `bin/_lib/hook-stdin.js`: the claim every hook makes on entry |
| `HookGuard` | `bin/_lib/double-fire-guard.js` behind that claim (it extends `HookClaim`) |
| `HookGuardProofs` | the invariants of both; that together they implement `OnceGate` |
| `SpawnQueue` | the four programs that request, approve and inject reactive spawns |
| `SpawnQueueProofs` | its invariants |
| `ExtractionBudget` | abstract: what the callers of the circuit breaker may rely on |
| `CircuitBreaker` | `bin/_lib/learning-circuit-breaker.js` with `bin/_lib/lock-probe.js` |
| `CircuitBreakerProofs` | its invariants; that it implements `AdvisoryLock` and `ExtractionBudget` |
| `MC*` | symmetry sets and state constraints for TLC; one `.cfg` per run |

`PluginLifecycle` implements `PluginService` through the refinement mapping `Service`.
`AtomicAppend` and `EventsArchive` do not import each other: a single append of a
telemetry row is one step of `EventsArchive`, and `AtomicAppend` is where that step is
taken apart. (The two are related by a gap in the code, too: neither the rotation nor
the archiver takes the lock the appenders use.) `AtomicAppend` and `CircuitBreaker` take
their lock files apart into system calls and implement `AdvisoryLock`. `SpawnQueue`
works under the lock of `AtomicAppend` and has it as one variable per file that is taken
when it is free or its holder is dead. That is an assumption, stated in the header of
`SpawnQueue` and nowhere proved: it is what `AtomicAppend` provides as long as none of
its mishaps happens; that the lock of a dead holder is taken over by one process at a
time is more than it provides. To its callers `AtomicAppend` is a `SharedFile`, on which
each call acts in one step, and `CircuitBreaker` an `ExtractionBudget`, without counter
files, sentinels and locks. To the readers of its files `EventsArchive` is an
`AuditTrail`, without markers, sentinels, partial archives and the four programs.
`HookGuard` composes two components: its processes are those of `HookClaim`, and only a
process the claim has admitted comes to the guard; together they are a `OnceGate`.

## Inventory

Every component, the state it keeps, its operations and what makes it hard.
"Modelled" means by a module above.

**Plugin loader** (`bin/_lib/plugin-loader.js`, started and stopped by
`bin/mcp-server/server.js`). *Modelled.* Per plugin a record: FSM state, child
process, pending JSON-RPC entries, restart counter, recorded fingerprint; in the
registry the overlay of its tools. Operations: `scan`, `load` (gates, spawn,
handshake), `callTool`, exit and error listeners, restart timers, `unload`,
`shutdown`. Hard: every `await` lets another load, exit or timer change the record
a continuation goes on with. Correct when a callable plugin has a live process,
restarts are bounded, consent holds at each spawn, calls are settled, and unloaded
is final.

**Advisory lock and appends** (`bin/_lib/atomic-append.js`). *Modelled.* State: a
lock file (existence, pid, mtime) and a shared file. Operations:
`atomicAppendJsonl`, `atomicAppendJsonlIfAbsent`, `_withAdvisoryLock`. Hard:
crashes with the lock, stale-lock recovery by name, and appends that go on without
it. Correct when holders exclude each other, locked changes are not lost, a key is
claimed once, and calls end.

**Closing an orchestration** (`bin/emit-orchestration-complete.js`, `bin/ox.js`,
`bin/audit-on-orch-complete.js`, `bin/archive-orch-events.js`,
`bin/_lib/events-rotate.js`). *Modelled.* State: the live log, its rolled
generations, the archive, and five marker or sentinel files. Hard: four programs,
none of which knows of the others' progress except through those files; crashes
between any two file operations; appends at any time. Correct when no row is lost,
other orchestrations keep theirs, and a partial archive is never taken for a whole
one.

**Spawn request queue** (`bin/mcp-server/tools/spawn_agent.js`,
`bin/spawn-housekeeper-on-trigger.js`, `bin/process-spawn-requests.js`,
`bin/inject-spawn-approved-drainer.js`). *Modelled.* State: the request file and its
lock, the approved file and its lock, the announcements in the event log. Operations:
request (two kinds), evict, count, approve, deny, rewrite, mark drained, inject. Hard:
an append without the lock under which the file is rewritten; decisions that are made
in one file and recorded in another; crashes in between. Correct when every request is
decided once, both files agree on the decision, and every approval is shown to the model
once.

**Hook entry claim and double-fire guard** (`bin/_lib/hook-stdin.js`,
`bin/_lib/double-fire-guard.js`). *Modelled.* State: one claim file per payload in a
shared temporary directory; a journal per guard. Hard: two installs run the same hook
for the same event, and nothing but these files decides which of them does the work.
Correct when never both do it, and when whoever is turned away is turned away for a run
that went on.

**Learning circuit breaker** (`bin/_lib/learning-circuit-breaker.js`,
`bin/_lib/lock-probe.js`). *Modelled.* State: counter, sentinel, temporary file, lock
file. Operations: `checkAndIncrement`, `reset`. Hard: two protocols (the probe and the
lock) create and remove the same lock file by name, with two rules of what is stale.
Correct when the cap holds, a recorded trip lasts until a reset, and no lock file is
left.

**Consent file lock** (`_acquireConsentLock` in the loader, and
`bin/orchestray-plugin-cli.js`). Its own lock, reclaimed by rename. Not modelled;
`PluginLifecycle` changes the consent in one step and lets any consent check fail.

**Tools-changed flag** (`_postOverlayMutation` in the loader,
`bin/check-plugin-tools-changed-flag.js`). Boot phase, grace window, last armed
tool set. Correct when a lasting change of the tool set arms the flag and a flap
does not. Not modelled.

**Agent registry** (`bin/_lib/agent-registry.js`, `bin/_lib/orphan-agent-sweep.js`).
A journal of transitions, folded into a state per agent; compaction; sweep of
orphans. Not modelled.

**Loop, pause and cancel, automatic triggers** (`bin/loop-continue.js`,
`bin/check-pause-sentinel.js`, `bin/_lib/auto-trigger-ttl.js`). Small counters and
sentinels in files. Not modelled.

**Worktrees** (`bin/worktree-create.js`, `bin/_lib/worktree-merge.js`,
`bin/worktree-remove.js`). Creation, merge and removal of the
worktrees of agents by git commands. Not modelled: most of the behaviour is that of git.

**Without state that several programs change**: the cost budget (arithmetic over a
ledger; its nested lock is listed as a hazard), patterns and curator (scores and file
formats), schema validation, read-only MCP tools, policy hooks (each decides on one
input and keeps no state), repo map and token compression (pure computation),
installation and configuration (run once). `PROJECT.json` lists them with the reason.

## PluginLifecycle

The loader runs on one event loop, so an action is one turn: a callback and the
promise continuations it releases before the next one. What the code awaits are
the places where other actions come in between.

| variable | code |
|---|---|
| `state`, `restartAttempts`, `fingerprint`, `cur`, `rpc` | `ps.state`, `ps.restartAttempts`, `ps.fingerprint`, `ps.proc`, `ps.pendingCalls` |
| `tools` | `ps.registeredToolNames`, the overlay and the compiled validators (always changed together) |
| `hs[p]` | which reply the `spawnAndHandshake` that started process `p` awaits |
| `call[c]` | whether the promise of a `callTool` is settled |
| `proc[p]` | what the operating system knows of a process: running, sent SIGTERM, sent SIGKILL, exited |
| `timers` | armed restart timers |
| `readyLong` | ready for `restartResetWindowMs` |
| `unloading` | before, during (exit listener attached or dropped) and after the wait in `unload` |
| `opts`, `consent`, `diskFp` | fixed options, the consent file, what is on disk |

The identity of the process a load started is kept apart from `cur`, because the
continuation of an old load works on the record of a new process: `HandshakeFails`,
`InitializeReply` and `ToolsListReply` take the process that was started, and act on
whatever is current. `Dies` is `transitionDead`; it may run several times in one turn
(exit listener, then the catch of the load it rejected), which is why it takes a
count. Names and arguments of tools, schemas, JSON framing and the audit rows are
left out; a divergent or invalid tool list is one of the causes of
`HandshakeFails`. The five ways a load can end are operators of their own with the
number of armed timers as parameter, because a load is started by the boot chain or
by a timer that has fired.

Checked by `lifecycle` (3 processes, 2 calls, 2 fingerprints, 2 restarts; 382 536
states up to symmetry): `LiveHasProcess`, `LoadingHasHandshake`, `ToolsMatchState`,
`PendingHasWaiter`, `RestartBudget`, `SpawnNeedsConsent`, `UnloadedIsFinal` and
`ImplementsService`. Three processes are the first load and both restarts; a slot is
used again only when nothing of its previous use is left, so a third process means
that two earlier ones can both still be around. A reply comes from the buffered lines of
whichever process was asked, also one that has exited by then. Two calls let one fail while
another is pending, two fingerprints let the files change after the scan. `timers`
and `respawns` are bounded by the restart cap (that is `RestartBudget`), so the model
needs no other bound. The window after which restarts are given back is configurable, as
the backoffs are; the guard of `ReadyWindowElapses` assumes their default order, a window
longer than the longest backoff and the handshake, so neither is outstanding when it ends.

Checked by `lifecycle_live` (one call, one fingerprint, no symmetry; 284 294
states): `CallsSettle`, `LoadingEnds`, `ShutdownEnds`, under weak fairness of four
actions that are timers or immediate continuations: the handshake time-out, the call
time-out, the five seconds of `unload` and `process.exit`. Nothing is assumed of the
plugin process, the operating system or the client. The timers keep running because
a Node timer is armed for each, and the wait in `server.js` keeps the event loop
alive.

One run shows a disagreement between the code and its comments. `orphan`: a failed
handshake leaves its process running, the restart forgets it, and shutdown does not
signal it. For the same reason the catch of an overtaken load can declare a healthy
successor dead, which a comment in `callTool` leaves to the exit listener; no property
speaks of it.

## AtomicAppend

A process is one invocation of the module, and an action is one system call: create
the lock, write the pid, stat, read the pid and judge, unlink, read, write, release.
The shared file is a set of rows named by their writers; time is an age of the lock
file relative to the two thresholds (at most one, more than one, more than five
times). A process that ended may have its pid reused, so both answers of
`process.kill(pid, 0)` are possible for it. All ignored errors (`catch (_e) {}`) are
outcomes of the action. The rewrite under `_withAdvisoryLock` is that of
`bin/inject-spawn-approved-drainer.js`: read all rows, write them back with a change.

What the lock cannot survive is recorded in the history variable `mishaps` when it
happens: a holder left its lock file behind (`left`), a stale threshold passed in the
middle of somebody's few system calls (`pause`), a file that exists could not be read
(`unreadable`). Each guarantee names the ones it cannot survive. `Exclusive` excludes
`left` and `pause`; as long as it lasts, `MutualExclusion` holds and no row written
under the lock is lost (`LockedRowsKept`), whatever cannot be read. `ClaimedOnce` needs
a readable file as well: a claim whose read fails is made as if the file were empty.
The guarantees are not vacuous: retries, fail-open appends, ended processes and looks at
the age and the pid of a lock all occur without a mishap, and a mutant that treats an
unstamped lock as stale, overwrites instead of appending, or appends a claim without the
lock is caught. What they do not cover is the recovery itself: it is needed only when a
lock was left behind or its holder overtaken, and from then on a second process can
unlink by name a lock that is not the one it judged. Of the recovery only `OperationsEnd`
speaks: with dead holders, too, every call comes to its end.

Two refinements say what callers get. `ImplementsLock`: with `inside` the holders and
`sound` the condition `Exclusive`, every system call enters an empty critical section,
leaves it, or changes neither; when a holder dies or is overtaken, from then on nothing
is promised. `ImplementsFile`: the write is the one step in which a call acts on the
file and is answered. A claim writes only if nobody made the same claim and is
refused only because of a row that is there, a rewrite drops nothing but rows written
without the lock, and no call is answered twice. `MutualExclusion`, `LockedRowsKept`
and `ClaimedOnce` are about states; these are about steps and about answers, too.

Runs: `append` (3 processes, 1 key, 2 attempts; 1 147 309 states up to symmetry),
`append_live` (2 processes, 3 attempts, weak fairness of each process's own step: a
process that is not killed goes on). One key suffices because different keys never
meet in the code; three processes are a holder and two that judge its lock; two
attempts are the first and the last turn of the loop, with `MaxLockAttempts`
arbitrary in the proofs.

The conditions are needed. After one crash (`left`) two processes that judge the lock
stale can unlink one another's lock and claim one key twice, which
`commit-pattern-applications.js` says cannot happen; and `LockedRowsKept` speaks of
locked appends only, because an append that gave up on the lock can be overwritten by
a locked rewrite.

## EventsArchive

A file is the set of its rows, an action is one file operation. Actors: the
SubagentStop hook and `ox state complete`, which write the two completion rows;
runs of `audit-on-orch-complete.js` with the archiver it starts; calls of
`rotateEventsForOrchestration`, one after the other, each of which can stop
(an error or a kill) at every step and leaves a torn sentinel or part of an archive
when it is in the middle of writing it; and appends by anybody else. The actors
interleave freely. The rotation starts when the marker is gone, as
`agents/pm-reference/phase-close.md` directs the PM to call it after
`ox state complete`.

`mishaps` records what the programs do not protect against: a row of the
orchestration appended when its archive exists (`late`), an append between a read of
the live log and what replaces it or copies it (`raced`), a rotation of an empty live
log over an existing archive (`again`), a rotation that starts while an archiver is
between its look at the marker and its write (`overlap`), an archive that cannot be
deleted (`unlink`). Everything else, in particular every crash of every program at
every step, is part of the guarantee: `OwnRowsKept`, `SafeToTruncate`, `MovedOut`
without a mishap; `OtherRowsKept` with all but `raced`; `PartialIsMarked` with all
but `unlink`.

`ImplementsTrail` says the same of the steps. Its mapping shows of the files only what a
reader may use: the live and the rolled logs, an archive when it is complete, and
whether the rotation says it is done. Then each of the file operations appends a row,
rolls the log, writes or removes an archive (one that has all the rows in the log, while
what the previous one had is still in a log), replaces the log by what is not archived,
closes (when no row of the orchestration is in the log and all are archived or rolled),
reopens, or is not seen. `MovedOut` follows from it, so the run does not check it again.

Run `archive`: two rows of the orchestration beside both completion rows, one of
another orchestration, two hook runs; 2 979 792 states up to symmetry. States with
two mishaps are checked but not continued (`FewMishaps`): each guarantee excludes
mishaps, so what follows a second one could only concern `OtherRowsKept` and
`PartialIsMarked`, which are proved without the constraint. Two hook runs are the
race of the last-fired file; two rows let one be in a slice and one not.

`archive_late` allows one kind of mishap and shows what it costs: rows appended after
the closing hook has copied the log disappear when the rotation trusts that copy. This
happens in ordinary use, because the archiver's own telemetry row is such a row. The
mishap `again` is as costly: a repeated call that finds an empty live log and no
sentinel rewrites the archive from nothing, although `events-rotate.js` calls the
rotation idempotent.

## HookClaim and HookGuard

A process is one run of the hook, named by its event and its install. `HookClaim` is
the function `claim`, one system call per action: `VerifyClaimDir`, `Stamp` (the clock
is read once, before the claim), the sweep (`SweepLook`, `SweepUnlink`), `CreateClaim`
and `WriteClaim` for the exclusive creation and the record, `CheckTrust` and
`ReadClaim` for the claim of another, and the takeover in three steps. A claim file is
its creator and whether the record is in it; `PutRecord` goes to the file that was
opened, which may have lost its name to a sweep or a takeover. `HookGuard` adds
`requireGuard`: the clock is read (`ReadClock`), then the journal, a set of processes
(`ReadJournal`), which is emptied and filled again (`TruncateJournal`, `RewriteJournal`:
`writeFileSync` is not atomic, so rows appended in between survive as far as the new
content does not reach, and a failure is ignored), and the decision (`Decides`) ends in
`Register`, `Report` or silence. Between two of these steps others read the clock and
append, so an entry can carry a later time than the run it suppresses. `Register` lets a
run through; its body is a step of its own (`RunBody`), before which it can be killed. The
guard's key is coarser than the claim's: `emit-routing-outcome.js` and
`inject-delegation-delta.js` use orchestration and agent type for two seconds,
`collect-agent-metrics.js` for five minutes.

Run `hook_guard`: one event seen by both installs, another by one of them, with
different payloads and one guard key; two points in time with windows of 0, so that both
sides of every window occur; one failing call or kill; 975 632 states. Left out are the
continuations of a second failure, kill or sweep, and those of a directory that cannot
be used, which are those of a claim that cannot be created (`OneTrouble`). Two orders
are fixed, because no other run could tell them from another: when a run has been let
through, its body, or the kill that prevents it, comes next; its entry stays in the
journal either way (`BodyNext`). And a run that is killed earlier than that is killed
after the others have ended: to them it is a run that does not go on (`KillsLast`). The
proofs have none of these constraints. Three processes are two that race and one that
sweeps, takes over or suppresses from outside. `SilenceHasWitness` is the module's
"never zero": a silenced run has an admitted counterpart of the other install in the
window. `OneInstallAdmitted`, its "never two", says what it takes: without a sweep, a
takeover, or a claim that could not be made, two installs are not both admitted.
`SuppressionFollowsPass` says that chains of suppressions in the guard start from a run
that was let through. More cannot be said: a run that is killed between its entry in the
journal and its body goes on suppressing the other install until the entry expires, and
nobody does the work. `SilentOnlyOnSharedKey` is about the composition, for which the
header of `hook-stdin.js` says "The two do not double-suppress": an event passes without
a body only if another event with its guard key was admitted, as long as no run of it is
killed. In that case it does: the claim admits one install, and the guard silences it
because of the other event, so neither does the work. The header also says that the
guard "catches same-install re-entry"; it does so only after a double fire was noted, as
`Conflicts` asks for another install.

`ImplementsGate` puts both mechanisms behind one abstract gate: a run asks, is dropped,
admitted or lost; once admitted it is let through, silenced or lost; once let through it
works or is lost; each once and for good. It is dropped only if a run of the other
install with its payload was admitted before, silenced only if a run with its guard key
was let through before, and admitted beside another install only if something happened
to the claim. It implies `OneInstallAdmitted`, which the run does not check again; the
window of the claim is in `SilenceHasWitness`, and what the composition loses is in
`SilentOnlyOnSharedKey`.

## SpawnQueue

A process is one invocation of one of the four programs, and an action one access to a
shared file. A request is named by the process that makes it; a row of the approved
file by the drain that wrote it and its request, so that a second approval is visible.

| variable | code |
|---|---|
| `requests`, `approved`, `drained` | `spawn-requests.jsonl` with the status of each row; `spawn-approved.jsonl`; its rows with `drained_at` |
| `announced` | the `spawn_requested` rows in `events.jsonl` |
| `requestsLock`, `approvedLock` | the holders of the two lock files |
| `orch`, `past`, `home[p]` | the active orchestration, what it was before, and what process `p` read |
| `entries[d]`, `todo[d]`, `counted[d]` | `entries`, the undecided part of `pending` and `spawnRequestedCount` of a drain |
| `snapshot[q]`, `block[q]` | `entries` and the rows of the block in a prompt hook |

The hooks read the orchestration before they wait for the lock, so it may be one that
is over when they get it (`TakesRequestsLock`). The rewrite of the request file is two
steps, emptied and filled, because the worker's append (`WorkerAppends`) takes no lock;
that of the approved file is one rename. `appendApproved` waits for the lock of the
approved file and then appends without it. The verdict on cost, depth and signature is
a choice of `Approve` and `Deny`; the quota is computed.

Errors are swallowed everywhere, so each guarantee names in a history variable the one
failure it cannot survive: a housekeeper hook that could not read the file (`blind`), a
drain whose decisions did not get to the file (`unsaved`), an approval whose append
failed or was made without the lock (`exposed`), a prompt hook that could not mark its
rows (`unmarked`), a block that was full (`cut`). `OnePendingHousekeeper`,
`ApprovedOnce`, `VerdictsAgree`, `ApprovalsSurvive`, `InjectedOnce` and
`DrainedReachesModel` hold but for these, with every kill and every other failure.
`VerdictsAgree` relates the two files: an approval is appended to one of them when it is
decided and recorded in the other when all is decided, and in between the process can
die, rows can be evicted, appended or drained; still a request recorded as approved has
its row, and one recorded as denied was not approved by a drain that saved what it
decided. About three lines fit into the 600 characters of a block (`BlockRows`); a
further row is marked as drained and never shown.
No property states the quota. `process-spawn-requests.js` denies at
`spawnRequestedCount >= quota` (:295), its header says that requests are approved while
the count is `<= quota` (:27), and the tool speaks of a "maximum of 5" per orchestration
(`spawn_agent.js`:23). Since every request announces itself before it is decided, and
those announcements are what is counted, a quota's worth of announced requests is denied
altogether: what is approved stays below the quota by one at least, while requests
announced late are not counted at all. The model has the comparison of the code
(`QuotaReached`); which of the three is meant, it cannot tell.

Runs. `spawn`: 1 worker, 2 housekeeper hooks, 2 drains, 2 prompt hooks, 2
orchestrations, a quota of 2, a block of one row, one failure, kill or change of
orchestration; 1 185 975 states up to symmetry. Two of each hook are the races the
locks are for, and a block of one row is full when both requests are drained at once.
States where a drain has run before any request was started, or a prompt hook before
any approval, are checked but not followed (`SomethingToDo`): such an invocation finds
an empty file and changes nothing. Without that constraint the run has 2 082 397 states
and the same result.
`spawn_lost`: with no failure at all, a worker's request that was announced is erased
by the rewrite of a drain, although two programs say that all writers share the lock.

## CircuitBreaker

A process is one call of `checkAndIncrement` or `reset`, an action one access to a
file. A lock file has the identity of its creator, the pid in it, and whether it has
got old; what is removed by name is whatever lock file is there. The probe
(`ProbeOpens` to `ProbeUnlinks`) judges by the pid and, without one, by age; the lock
(`TakesLock` to `Releases`) by age alone. The decision of `checkAndIncrement` is
`ReadCounter`; `WriteTmp`, `RenameTmp` and `WriteSentinel` follow it. The temporary
file has one name for all processes. `verdict` is what a call will answer, with its
origin: a trip decided under the lock, the sentinel found on the fast path, or an error
inside the lock, which the code answers and emits as a trip, too (:429-432), though it
leaves no sentinel. Of these the callers see only that they are not allowed. A lock file
that cannot be removed, in the `finally` of the lock or in the probe, stays (`Unlinks`,
`left`), as its error is swallowed. Time is the number of 24-hour windows that have
gone by. Audit rows are left out, `isTripped` only reads.

Two refinements state what the breaker is for. `ImplementsLock` says that its lock, with
all that the probes take and remove, is an `AdvisoryLock`. `ImplementsBudget` says that
a call is answered once and goes through an `ExtractionBudget`: an admission takes
effect when the counter is renamed and needs room in its window; a trip is decided when
the counter is read and needs a spent window (unless something has failed, `faults`, in
which case a damaged counter counts as spent); when a trip is answered that the sentinel
stands behind, every call that has not begun is barred, until a reset; a reset takes
back the trips that are about to be answered as well; and after a failure a call may be
answered "tripped" without any of this (`Fail`), which then bars nobody: in the next
window, or at once if the count is not reached, another call is admitted. What they
imply about single states is also stated, and proved on its own: `OneInside`, and about
the counts `CapHolds` and `TripHolds`.

`OneInside` and `CapHolds` are stated as long as nobody has died with a lock file or
failed to remove it, and no lock file has got old (`shaken`); the interesting case is
the probe, which creates and removes the same file and yet lets no second process in.
The condition is needed: a probe judges a lock stale, its holder signs it, the probe
unlinks it by name, and two calls both count. The comment on `_withBreakerLock` claims
more ("either acquires the lock or fails-closed"). `TripHolds` and `NoStrayLock` have no
such condition and narrower claims instead. `NoStrayLock` excepts the lock files of
processes that died or failed to remove one. `TripHolds` speaks of recorded trips only,
and of calls made after the trip was reported, because the sentinel is not looked at
again under the lock: a call that passed the fast path before the trip is admitted if
the window ends before it gets the lock. A reset drops the answer of `_lockedRun`, so a
reset that cannot have the lock does nothing.

Runs. `breaker`: 3 calls, 1 reset, a cap of 1, time that goes through two windows
(`MaxWindows` = 1), one failure (a kill, an old lock, a failing write or unlink, damage
to the counter); 837 691 states up to symmetry. Two windows are the one a counter belongs to
and one in which it is outdated; with a third the run has 2 216 149 states and the same
result, and the proofs are for any number. Three calls are one that trips, one it must
exclude and one that passed the fast path; one failure leaves the others to recover
from it, and the theorems hold for any number. `breaker_cooldown`: without any
failure, a call is refused for a trip more than a window ago. `cooldown_minutes_on_trip`
is documented, validated, and read by nothing: only `reset` ends a trip, and only tests
call it.

## What is proved

For every set of processes, calls, rows, keys, fingerprints, events, installs, requests
and hook runs, and every restart and attempt limit, window, quota and cap. The
assumptions are those named in the modules: model values are distinct; what is counted
is finite (the processes of `PluginLifecycle`, the requests and drains of `SpawnQueue`,
the calls of `CircuitBreaker`); limits are natural numbers, positive where the code has
a minimum of one; and in `HookGuard` events with the same payload have the same guard
key, which is computed from the payload and the id of the one active orchestration.

*PluginLifecycle.* `TypeCorrect`, then the state invariants together. Neither is
inductive alone; `IInv` conjoins them with two facts: after a quiet reset window no
timer is armed (`ResetWindowQuiet`, otherwise resetting the counter could leave timers
without an attempt), and a disabled plugin is never live (`DisabledNeverLive`).
`LiveHasProcess` and `LoadingHasHandshake` need `ToolsMatchState` (a plugin that can be
loaded has no tools) and `PendingHasWaiter` (whose entry a reply belongs to). The lemma
`DiesInv` covers `transitionDead` once for the seven steps that use it. `RestartBudget`
is the sum `respawns + timers <= restartAttempts`, kept by each step. From the invariant
follow the action properties `SpawnNeedsConsent` and `UnloadedIsFinal`: only a load
starts a process (`OnlyLoadStarts`), and no load gets to spawning in `unloaded`.

*Refinement* (`Refinement`): initial states map to initial states, and each action to
one step of `PluginService` or a stutter. The exit of a process, for example, is
`Withdraw` with the answers of the rejected calls, or `Stop` when `unload` is waiting.

*AtomicAppend.* `MutualExclusion` is strengthened to `OwnLock`: while it is `Exclusive` the
lock file that exists while somebody holds was created by that holder, is young, and
carries its pid or none; and nobody is about to unlink it. `ReadsHold` adds that what
a holder has read is still the file, or lacks only unlocked appends. The invariant is in
three groups, by what they need: nothing (`PlainInv`: unlocked rows are appends, answers
fit the steps, rows and snapshots are reported), `Exclusive` (`LockInv`), and no mishap
at all (`ClaimInv`). The refinements use it in the two steps that matter: creating the
lock file enters an empty critical section because of `OwnLock`, and a write drops no
locked row because of what the holder has read (`RewriteReads`).

*EventsArchive.* `IInv` has four parts. `ControlInv` ties the place where the rotation
is to its sentinel. `PartialInv` keeps the mark on a partial archive. `OthersInv` says
that what will be put back has the rows of the others. `CalmInv` holds without mishaps
and carries the argument: while an archiver works the rotation has not begun
(`ArchiverInv`), and whatever is about to be overwritten or deleted is still in a log:
an archive while the sentinel says `started`; the live log's rows while it says
`archived` (`RotationInv`). One lemma per program shows that its steps keep each part.
The refinement needs a fifth part that holds whatever happens: every row in a file, or
in a program's copy of one, was written, and what will be put back is in a log
(`OriginInv`). `TrailImplemented` then maps the appends, the hook's
steps and the rotation's to the steps of `AuditTrail`, a lemma for each.

*HookClaim and HookGuard.* `ClaimInv` says that every record was written by a process
that was admitted (`RecordHasAuthor`), that the reasons fit the steps (`ReasonFits`),
and that on an undisturbed key whoever was admitted, or is about to be, has the install
of the claim file that is there (`UndisturbedIsSole`). `GuardInv` says that an entry, in
the journal or as somebody read it, belongs to a process that has decided
(`EntriesDecided`), and that whoever is suppressed has a run behind it that was let
through (`SuppressedHavePass`), so that chains end (`EveryChainHasPass`). It needs no
order of clocks: what counts is that entries are written after the decision.
`NoDoubleSuppression` puts both together: a run of a silent event was silenced by the
guard, or by the claim of a run that was; the run let through behind it is another
event's. `GateImplemented` follows from the same two invariants, taken after the step:
what they say of the run that has just been decided was true of the others before.

*SpawnQueue.* `SpawnInv` conjoins who holds which lock at which step (`LockInv`), where
an approved row comes from (`OriginInv`), that what a drain has still to decide is
pending in its entries and, until it rewrites them, in the file (`TodoInv`), and one
part per property (`DebounceInv`, `GrantInv`, `VerdictInv` and those of the approved
file). `VerdictInv` says of the entries of a drain, decided and undecided, what
`VerdictsAgree` says of the file they will become: nobody decides meanwhile, because
decisions are made under the lock, which a drain that lives holds until it has rewritten
the file.

*CircuitBreaker.* `BreakerInv` has `CalmInv` (while nothing is shaken, the lock file
belongs to the one process that works with it), `CountInv` (the counter, or the state
about to replace it, covers the admissions of its window) and `TripInv` (while a call is
barred the sentinel is there, and a barred call has not passed the fast path), and
`RecordInv` (while nothing has failed, a sentinel stands for a trip that is about to be
reported, or was before whoever still comes).
`NoStrayLock` and `StateInv` need no condition. The budget
needs the other half of the bookkeeping: what has been decided at which step
(`FateInv`), and that, while nothing has failed, the counter does not run ahead of the
admissions (`ExactInv`: `CountInv` bounds them from above, and a trip that is never
early needs both). `BudgetImplemented` then maps each of the 24 kinds of steps to one
step of `ExtractionBudget` or a stutter, with a lemma for each step in which a call
comes to something.

*The abstract specifications.* That a module implements one is worth as much as the
abstract one says. Theorems about the abstract steps alone show that it says enough:
whatever implements `AdvisoryLock` excludes (`LockSuffices`, `BreakerLockSuffices`);
whatever implements `SharedFile` keeps locked rows and claims a key once
(`FileSuffices`); whatever implements `ExtractionBudget` keeps the cap and the trip
(`BudgetSuffices`); whatever implements `AuditTrail` keeps the rows of all
orchestrations and moves out those of the closed one (`TrailSuffices`); whatever
implements `OnceGate` admits one install on an undisturbed key and turns nobody away for
nobody (`GateSuffices`). Their invariants (`SharedInv`, `KeptBudget`, `TrailInv`,
`GateInv`) mention no lock file, sentinel or program counter. So where a run checks an
implementation it need not check again what follows (`MutualExclusion`,
`LockedRowsKept`, `OneInside`, `CapHolds`, `TripHolds`, `MovedOut`,
`OneInstallAdmitted`); these are proved twice, from the invariant of the program and
from the abstract steps.

Only model-checked: the liveness properties (`CallsSettle`, `LoadingEnds`,
`ShutdownEnds`, `OperationsEnd`), because the prover does not treat fairness; and the
four violations, which are single behaviours.

## What is not modelled, and why

- Several plugins at once. They share the overlay of names only; the namespace check
  is among the causes of `HandshakeFails`.
- The bytes of the plugin's output. A buffer that survives a respawn can join two
  half lines (listed as a hazard); the model has whole lines.
- Crashes of the machine. Only the archive is synced, so after a power failure the
  sentinel may be older than it.
- `atomicWriteFile`: it takes no lock, and a rename is a single step.
- Nested use of the lock within one process (`cost_budget_reserve.js`).
- The other audits and metric rows of `audit-on-orch-complete.js`: they only append.
- Kill switches and configuration that turn a component off, in all modules: with them
  nothing is left to go wrong.
- Claim files and directories made by another user (`claimFileTrust` refuses them; the
  model has the refusal, caused by a claim that has gone).
- The budget arithmetic behind an approval, and requests without an active
  orchestration, which no drain ever looks at.
- A lock stolen from a live holder in `SpawnQueue`, which has the lock sound throughout:
  `AtomicAppend` shows when it is not.
- The flag of a changed tool set, the consent lock, the agent registry, the loop and its
  sentinels, worktrees: see the inventory. The races in them are of the kinds shown for
  the request file and the two locks; what would be new in them is the behaviour of git
  or of a user at a prompt.
- The greater part of the repository: installation, configuration and its migrations,
  the validation of spawns, of task results and of event rows, rendering, repo map,
  compression, pattern scores. This code decides on one input and keeps no state other
  processes change; a model of it would repeat it line by line.

## State of the plan

1. Done: `PluginService`, `PluginLifecycle`, `AtomicAppend`, `EventsArchive`,
`SpawnQueue`, `HookClaim` with `HookGuard`, `CircuitBreaker`; their runs, and proofs of
every safety property the runs check; the refinements of `AdvisoryLock`, `SharedFile`,
`AuditTrail`, `OnceGate` and `ExtractionBudget`, and that these imply the guarantees
about states. 2. Next, should the code change there: `AgentRegistry` (the fold of the
compacted journal    equals the fold of the journal) and `ToolsChangedFlag` (boot phase,
grace window,    permanent and transient withdrawals, driven by the deaths of
`PluginLifecycle`). 3. Fairness for the new modules, as in `AtomicAppend`: that every
queued request is    decided needs a later hook run, which the code does not guarantee,
so the properties    stop at safety.
