-------------------------- MODULE PluginLifecycle --------------------------
(***************************************************************************)
(* One plugin under bin/_lib/plugin-loader.js, and the part of             *)
(* bin/mcp-server/server.js that starts and stops it.                      *)
(*                                                                         *)
(* The loader runs on the Node event loop, so an action is one turn of the *)
(* loop: a callback and the promise continuations it releases.  What can   *)
(* interleave is what the loader awaits: the two handshake replies, the    *)
(* exit of a process, the restart timers, the call timeouts and the five   *)
(* seconds unload waits for a process to end.  A load keeps the identity   *)
(* of the process it started, because its continuation may run after a     *)
(* later load has started another one.                                     *)
(***************************************************************************)
EXTENDS Naturals, FiniteSets

CONSTANTS
    Procs,              \* operating-system processes the plugin can run as
    Calls,              \* tools/call requests of the client
    NoProc,             \* null: no process
    Fingerprints,       \* what manifest and entrypoint on disk can hash to
    NoFp,               \* no fingerprint: not scanned, no consent, revoked
    MaxRestartAttempts  \* opts.maxRestartAttempts

ASSUME ProcsAssumption == IsFiniteSet(Procs) /\ NoProc \notin Procs
ASSUME CallsAssumption == Calls \cap Procs = {}
ASSUME ConsentAssumption == NoFp \notin Fingerprints
ASSUME RestartAssumption == MaxRestartAttempts \in Nat

VARIABLES
    opts,             \* requireConsent, dryRun, disabled: fixed at startup
    state,            \* ps.state
    tools,            \* the overlay holds the plugin's tools and validators
    cur,              \* ps.proc; its exit listener is the only one attached
    proc,             \* what the operating system knows of each process
    hs,               \* the reply the load that started a process awaits
    rpc,              \* ps.pendingCalls: owner -> process asked, or NoProc
    call,             \* callTool: "waiting" while its promise is not settled
    timers,           \* armed restart timers
    restartAttempts,  \* ps.restartAttempts
    readyLong,        \* ready for at least opts.restartResetWindowMs
    fingerprint,      \* ps.fingerprint, computed by scan
    consent,          \* the fingerprint in plugin-consents.json
    diskFp,           \* the fingerprint of what is on disk now
    unloading,        \* where unload stands
    server,           \* the MCP server process
    respawns          \* history: automatic respawns since the last reset

osVars == <<consent, diskFp>>
vars == <<opts, state, tools, cur, proc, hs, rpc, call, timers,
          restartAttempts, readyLong, fingerprint, consent, diskFp,
          unloading, server, respawns>>

States == {"unknown", "discovered", "consented", "loading", "ready",
           "degraded", "dead", "unloaded"}
Live == {"loading", "ready", "degraded"}
Callable == {"ready", "degraded"}
Owners == Procs \cup Calls

TypeOK ==
    /\ opts \in [requireConsent : BOOLEAN, dryRun : BOOLEAN, disabled : BOOLEAN]
    /\ state \in States
    /\ tools \in BOOLEAN
    /\ cur \in Procs \cup {NoProc}
    /\ proc \in [Procs -> {"none", "running", "terming", "killed", "exited"}]
    /\ hs \in [Procs -> {"idle", "init", "list"}]
    /\ rpc \in [Owners -> Procs \cup {NoProc}]
    /\ call \in [Calls -> {"idle", "waiting"}]
    /\ timers \in Nat
    /\ restartAttempts \in 0 .. MaxRestartAttempts
    /\ readyLong \in BOOLEAN
    /\ fingerprint \in Fingerprints \cup {NoFp}
    /\ consent \in Fingerprints \cup {NoFp}
    /\ diskFp \in Fingerprints
    /\ unloading \in {"no", "waiting", "deaf", "done"}
    /\ server \in {"up", "stopping", "exited"}
    /\ respawns \in Nat

Init ==
    /\ opts \in [requireConsent : BOOLEAN, dryRun : BOOLEAN, disabled : BOOLEAN]
    /\ state = "unknown"
    /\ tools = FALSE
    /\ cur = NoProc
    /\ proc = [p \in Procs |-> "none"]
    /\ hs = [p \in Procs |-> "idle"]
    /\ rpc = [o \in Owners |-> NoProc]
    /\ call = [c \in Calls |-> "idle"]
    /\ timers = 0
    /\ restartAttempts = 0
    /\ readyLong = FALSE
    /\ diskFp \in Fingerprints
    /\ fingerprint = NoFp
    /\ consent \in Fingerprints \cup {NoFp}
    /\ unloading = "no"
    /\ server = "up"
    /\ respawns = 0

-----------------------------------------------------------------------------
(* Processes, pending replies and the death of a plugin.                   *)

Alive(p) == proc[p] \in {"running", "terming", "killed"}
CurrentAlive == cur \in Procs /\ Alive(cur)

\* A slot a new process can take: nothing of its previous use is left.
Fresh(p) == ~Alive(p) /\ hs[p] = "idle" /\ \A o \in Owners : rpc[o] # p

Signalled(p, sig) ==
    IF p \in Procs /\ proc[p] \in {"running", "terming"}
    THEN [proc EXCEPT ![p] = sig] ELSE proc

\* Mutant: the entries of a handshake stay.
NoCallPending == [o \in Owners |-> IF o \in Calls THEN NoProc ELSE rpc[o]]

NothingPending == [o \in Owners |-> NoProc]
RejectedLoads == {p \in Procs : rpc[p] # NoProc}
RejectedCalls == {c \in Calls : rpc[c] # NoProc}

\* Every entry of ps.pendingCalls is rejected; the loads and calls that await
\* one of them resume in their catch blocks.
RejectPending ==
    /\ rpc' = NothingPending
    /\ hs' = [p \in Procs |-> IF p \in RejectedLoads THEN "idle" ELSE hs[p]]
    /\ call' = [c \in Calls |-> IF c \in RejectedCalls THEN "idle" ELSE call[c]]

\* Mutant: the cap on restarts is not applied.
ChargedUncapped(n) == restartAttempts + n

Charged(n) ==
    IF restartAttempts + n <= MaxRestartAttempts
    THEN restartAttempts + n ELSE MaxRestartAttempts

\* Mutants: the table allows a transition too many; it misses one.
MayDieAlways == TRUE
MayDieWhenLoaded == state \notin {"unloaded", "loading"}

\* The row of ALLOWED_TRANSITIONS of an unloaded plugin is empty; in the other
\* states without an edge to dead (unknown, consented) nothing dies.
MayDie == state # "unloaded"

\* transitionDead, run n times in one turn that ends in state s, with t timers
\* armed before it.  Each run that still has budget takes an attempt and arms a
\* timer, also when the plugin is dead already; an unloaded plugin stays so.
Dies(n, t, s) ==
    /\ tools' = FALSE
    /\ readyLong' = FALSE
    /\ IF MayDie
       THEN /\ state' = s
            /\ restartAttempts' = Charged(n)
            /\ timers' = t + (Charged(n) - restartAttempts)
       ELSE state' = state /\ restartAttempts' = restartAttempts /\ timers' = t

TransitionDead(n, t) == Dies(n, t, "dead")

-----------------------------------------------------------------------------
(* Discovery, consent and what happens on disk.                            *)

Scan ==
    /\ server = "up" /\ state = "unknown"
    /\ state' = "discovered"
    /\ fingerprint' = diskFp
    /\ UNCHANGED <<opts, tools, cur, proc, hs, rpc, call, timers,
                   restartAttempts, readyLong, osVars, unloading, server,
                   respawns>>

Approve ==
    /\ server # "exited" /\ consent # diskFp
    /\ consent' = diskFp
    /\ UNCHANGED <<opts, state, tools, cur, proc, hs, rpc, call, timers,
                   restartAttempts, readyLong, fingerprint, diskFp, unloading,
                   server, respawns>>

Disable ==
    /\ server # "exited" /\ consent # NoFp
    /\ consent' = NoFp
    /\ UNCHANGED <<opts, state, tools, cur, proc, hs, rpc, call, timers,
                   restartAttempts, readyLong, fingerprint, diskFp, unloading,
                   server, respawns>>

EditPlugin ==
    /\ server # "exited"
    /\ diskFp' \in Fingerprints \ {diskFp}
    /\ UNCHANGED <<opts, state, tools, cur, proc, hs, rpc, call, timers,
                   restartAttempts, readyLong, fingerprint, consent, unloading,
                   server, respawns>>

-----------------------------------------------------------------------------
(* load(): called once by the boot chain and then by restart timers.  In   *)
(* each operator below t is the number of timers armed when it is called.  *)

\* Mutant: consent is checked by the first load only.
ConsentMatchesAtFirst ==
    opts.requireConsent /\ state = "discovered" => consent = fingerprint

ConsentMatches == opts.requireConsent => consent = fingerprint

\* A failed consent check; the lock of the consent file may also be taken.
ConsentRefused == opts.requireConsent

\* spawnAndHandshake drops the listeners of the previous process, so the exit
\* that unload awaits is no longer heard.
DropListeners ==
    unloading' = IF unloading = "waiting" THEN "deaf" ELSE unloading

LoadDisabled(t) ==
    /\ opts.disabled
    /\ state' = IF state = "unloaded" THEN state ELSE "dead"
    /\ timers' = t
    /\ UNCHANGED <<opts, tools, cur, proc, hs, rpc, call, restartAttempts,
                   readyLong, fingerprint, osVars, unloading, server, respawns>>

LoadIgnored(t) ==
    /\ ~opts.disabled
    /\ state \notin {"discovered", "consented", "dead"}
    /\ timers' = t
    /\ UNCHANGED <<opts, state, tools, cur, proc, hs, rpc, call,
                   restartAttempts, readyLong, fingerprint, osVars, unloading,
                   server, respawns>>

LoadRefused(t) ==
    /\ ~opts.disabled
    /\ ConsentRefused
    /\ \/ state = "discovered" /\ TransitionDead(1, t)
       \/ /\ state = "dead"
          /\ restartAttempts' = MaxRestartAttempts
          /\ timers' = t
          /\ UNCHANGED <<state, tools, readyLong>>
    /\ UNCHANGED <<opts, cur, proc, hs, rpc, call, fingerprint, osVars,
                   unloading, server, respawns>>

LoadDry(t) ==
    /\ ~opts.disabled /\ ConsentMatches /\ opts.dryRun
    /\ state \in {"discovered", "dead"}
    /\ state' = IF state = "discovered" THEN "consented" ELSE state
    /\ timers' = t
    /\ UNCHANGED <<opts, tools, cur, proc, hs, rpc, call, restartAttempts,
                   readyLong, fingerprint, osVars, unloading, server, respawns>>

\* Mutant: the second of two restart timers loads a plugin that is up again.
MaySpawnAgain ==
    /\ ~opts.disabled /\ ConsentMatches /\ ~opts.dryRun
    /\ state \in {"discovered", "dead", "ready"}

\* load() goes on to spawnAndHandshake.
MaySpawn ==
    /\ ~opts.disabled /\ ConsentMatches /\ ~opts.dryRun
    /\ state \in {"discovered", "dead"}

\* The entrypoint is gone, is a symlink, or no longer has the fingerprint the
\* scan recorded: spawnAndHandshake throws and load()'s catch deletes every
\* pending entry without rejecting it.
LoadStale(t) ==
    /\ MaySpawn /\ diskFp # fingerprint
    /\ DropListeners
    /\ cur' = NoProc
    /\ rpc' = NothingPending
    /\ TransitionDead(1, t)
    /\ UNCHANGED <<opts, proc, hs, call, fingerprint, osVars, server, respawns>>

\* The process starts and is sent initialize.
LoadSpawns(t) ==
    /\ MaySpawn /\ diskFp = fingerprint
    /\ DropListeners
    /\ \E p \in Procs :
         /\ Fresh(p)
         /\ cur' = p
         /\ proc' = [proc EXCEPT ![p] = "running"]
         /\ hs' = [hs EXCEPT ![p] = "init"]
         /\ rpc' = [rpc EXCEPT ![p] = p]
    /\ state' = "loading"
    /\ timers' = t
    /\ respawns' = IF state = "dead" THEN respawns + 1 ELSE respawns
    /\ UNCHANGED <<opts, tools, call, restartAttempts, readyLong, fingerprint,
                   osVars, server>>

\* The operating system refuses to start it: the 'error' event declares the
\* plugin dead at once, while the handshake still awaits its reply.
LoadSpawnFails(t) ==
    /\ MaySpawn /\ diskFp = fingerprint
    /\ DropListeners
    /\ \E p \in Procs :
         /\ Fresh(p)
         /\ cur' = p
         /\ proc' = [proc EXCEPT ![p] = "exited"]
         /\ hs' = [hs EXCEPT ![p] = "init"]
         /\ rpc' = [rpc EXCEPT ![p] = p]
    /\ TransitionDead(1, t)
    /\ respawns' = IF state = "dead" THEN respawns + 1 ELSE respawns
    /\ UNCHANGED <<opts, call, fingerprint, osVars, server>>

Load(t) ==
    \/ LoadDisabled(t)
    \/ LoadIgnored(t)
    \/ LoadRefused(t)
    \/ LoadDry(t)
    \/ LoadStale(t)
    \/ LoadSpawns(t)
    \/ LoadSpawnFails(t)

BootLoad ==
    /\ server = "up" /\ state = "discovered"
    /\ Load(timers)

RestartTimerFires ==
    /\ server # "exited" /\ timers > 0
    /\ Load(timers - 1)

-----------------------------------------------------------------------------
(* The handshake of the load that started process p.  Its requests go to   *)
(* whatever process is current when they are sent.                         *)

\* A line is parsed only while the plugin is live, also when it was buffered by a
\* process that has exited since (whether it got the request before is left
\* open); the entry's owner is found by request id.
Replies(q, o) ==
    /\ server # "exited"
    /\ rpc[o] = q
    /\ state \in Live

InitializeReply(p) ==
    /\ \E q \in Procs : Replies(q, p)
    /\ hs[p] = "init"
    /\ hs' = [hs EXCEPT ![p] = "list"]
    /\ rpc' = [rpc EXCEPT ![p] = cur]
    /\ UNCHANGED <<opts, state, tools, cur, proc, call, timers,
                   restartAttempts, readyLong, fingerprint, osVars, unloading,
                   server, respawns>>

\* The list matches the manifest, the schemas compile, the names register and
\* the plugin becomes ready.
ToolsListReply(p) ==
    /\ \E q \in Procs : Replies(q, p)
    /\ hs[p] = "list" /\ ~tools /\ state = "loading"
    /\ tools' = TRUE
    /\ state' = "ready"
    /\ readyLong' = FALSE
    /\ hs' = [hs EXCEPT ![p] = "idle"]
    /\ rpc' = [rpc EXCEPT ![p] = NoProc]
    /\ UNCHANGED <<opts, cur, proc, call, timers, restartAttempts, fingerprint,
                   osVars, unloading, server, respawns>>

\* Mutant: tools/list has no timeout.
AwaitsInitialize(p) == hs[p] = "init"

Awaits(p) == hs[p] # "idle"

\* The reply is late, an error, divergent, or cannot be registered: load()'s
\* catch drops every pending entry and declares the plugin dead.  The process
\* it started is not signalled.
HandshakeFails(p) ==
    /\ server # "exited" /\ Awaits(p)
    /\ hs' = [hs EXCEPT ![p] = "idle"]
    /\ rpc' = NothingPending
    /\ TransitionDead(1, timers)
    /\ UNCHANGED <<opts, cur, proc, call, fingerprint, osVars, unloading,
                   server, respawns>>

-----------------------------------------------------------------------------
(* Process events.                                                         *)

\* Mutant: the exit listener leaves it to the loads.
DeathsOfLoads == Cardinality(RejectedLoads)

\* transitionDead runs in the exit listener of a live plugin and again in the
\* catch of each load whose reply the listener rejected.
DeathsOnExit ==
    (IF state \in Live THEN 1 ELSE 0) + Cardinality(RejectedLoads)

\* The current process ends.  An unload that still listens for it completes.
CurrentExits ==
    /\ server # "exited" /\ CurrentAlive
    /\ proc' = [proc EXCEPT ![cur] = "exited"]
    /\ RejectPending
    /\ \/ /\ unloading = "waiting" /\ unloading' = "done"
          /\ Dies(DeathsOnExit, timers, "unloaded")
       \/ /\ unloading # "waiting" /\ DeathsOnExit > 0
          /\ TransitionDead(DeathsOnExit, timers)
          /\ UNCHANGED unloading
       \/ /\ unloading # "waiting" /\ DeathsOnExit = 0
          /\ UNCHANGED <<state, tools, readyLong, restartAttempts, timers,
                         unloading>>
    /\ UNCHANGED <<opts, cur, fingerprint, osVars, server, respawns>>

\* A process nobody listens to ends: an earlier one, or any once the server
\* is gone.
OtherExits(p) ==
    /\ Alive(p) /\ (p # cur \/ server = "exited")
    /\ proc' = [proc EXCEPT ![p] = "exited"]
    /\ UNCHANGED <<opts, state, tools, cur, hs, rpc, call, timers,
                   restartAttempts, readyLong, fingerprint, osVars, unloading,
                   server, respawns>>

\* Standard output of p exceeds the line or the backlog cap.  The data
\* listener of an earlier process still feeds the plugin's parser, and it is
\* the current process that is killed.
OutputOverflows(p) ==
    /\ server # "exited" /\ Alive(p) /\ state \in Live
    /\ proc' = Signalled(cur, "killed")
    /\ TransitionDead(1, timers)
    /\ UNCHANGED <<opts, cur, hs, rpc, call, fingerprint, osVars, unloading,
                   server, respawns>>

\* A line that is not JSON.
OutputMalformed(p) ==
    /\ server # "exited" /\ Alive(p) /\ state = "ready"
    /\ state' = "degraded"
    /\ readyLong' = FALSE
    /\ UNCHANGED <<opts, tools, cur, proc, hs, rpc, call, timers,
                   restartAttempts, fingerprint, osVars, unloading, server,
                   respawns>>

-----------------------------------------------------------------------------
(* callTool().                                                             *)

\* Mutant: the overlay, which a shutdown clears first, is not consulted.
AcceptsByState == state \in Callable

Accepts == state \in Callable /\ tools

CallTool(c) ==
    /\ server # "exited" /\ call[c] = "idle"
    /\ Accepts
    /\ call' = [call EXCEPT ![c] = "waiting"]
    /\ rpc' = [rpc EXCEPT ![c] = cur]
    /\ UNCHANGED <<opts, state, tools, cur, proc, hs, timers, restartAttempts,
                   readyLong, fingerprint, osVars, unloading, server, respawns>>

\* Mutant: any success resets the budget.
ResetsAtOnce == state = "ready"

\* maybeResetRestartCounter
Resets == state = "ready" /\ readyLong

\* The result arrives: a degraded plugin recovers, and one that was ready for
\* the whole reset window gets its restart budget back.
CallReply(c) ==
    /\ \E q \in Procs : Replies(q, c)
    /\ call' = [call EXCEPT ![c] = "idle"]
    /\ rpc' = [rpc EXCEPT ![c] = NoProc]
    /\ state' = IF state = "degraded" THEN "ready" ELSE state
    /\ restartAttempts' = IF Resets THEN 0 ELSE restartAttempts
    /\ respawns' = IF Resets THEN 0 ELSE respawns
    /\ UNCHANGED <<opts, tools, cur, proc, hs, timers, readyLong, fingerprint,
                   osVars, unloading, server>>

\* Mutant: the timeout belongs to the pending entry, not to the call.
HasEntry(c) == rpc[c] # NoProc

Outstanding(c) == call[c] = "waiting"

\* An error reply, or the sixty seconds are over; the entry may be long gone
\* and the plugin may have restarted since.
CallFails(c) ==
    /\ server # "exited" /\ Outstanding(c)
    /\ call' = [call EXCEPT ![c] = "idle"]
    /\ rpc' = [rpc EXCEPT ![c] = NoProc]
    /\ state' = IF state = "ready" THEN "degraded" ELSE state
    /\ readyLong' = FALSE
    /\ UNCHANGED <<opts, tools, cur, proc, hs, timers, restartAttempts,
                   fingerprint, osVars, unloading, server, respawns>>

\* The reset window (five minutes) is longer than every backoff (thirty
\* seconds) and handshake (twenty), so none is outstanding when it elapses.
\* These are the defaults; server.js lets a user set them otherwise, and the
\* model assumes that their order is kept.
ReadyWindowElapses ==
    /\ server # "exited" /\ state = "ready" /\ ~readyLong
    /\ timers = 0 /\ \A p \in Procs : hs[p] = "idle"
    /\ readyLong' = TRUE
    /\ UNCHANGED <<opts, state, tools, cur, proc, hs, rpc, call, timers,
                   restartAttempts, fingerprint, osVars, unloading, server,
                   respawns>>

-----------------------------------------------------------------------------
(* Shutdown: server.js on the first signal or end of input, and unload().  *)

\* unload() up to its wait.  The loads it rejects declare the plugin dead, and
\* a call it rejects degrades a ready one.
Shutdown ==
    /\ server = "up" /\ state # "unknown"
    /\ server' = "stopping"
    /\ RejectPending
    /\ \/ /\ CurrentAlive
          /\ unloading' = "waiting"
          /\ proc' = Signalled(cur, "terming")
          /\ \/ /\ RejectedLoads # {}
                /\ TransitionDead(Cardinality(RejectedLoads), timers)
             \/ /\ RejectedLoads = {}
                /\ tools' = FALSE
                /\ readyLong' = FALSE
                /\ state' = IF state = "ready" /\ RejectedCalls # {}
                            THEN "degraded" ELSE state
                /\ UNCHANGED <<restartAttempts, timers>>
       \/ /\ ~CurrentAlive
          /\ unloading' = "done"
          /\ state' = "unloaded"
          /\ tools' = FALSE
          /\ readyLong' = FALSE
          /\ UNCHANGED <<proc, restartAttempts, timers>>
    /\ UNCHANGED <<opts, cur, fingerprint, osVars, respawns>>

\* Mutant: the timer goes with the exit listener.
StillListening == unloading = "waiting"

StillWaiting == unloading \in {"waiting", "deaf"}

\* Five seconds passed: whatever process is current now is killed.
UnloadTimesOut ==
    /\ server = "stopping" /\ StillWaiting
    /\ unloading' = "done"
    /\ state' = "unloaded"
    /\ readyLong' = FALSE
    /\ proc' = Signalled(cur, "killed")
    /\ UNCHANGED <<opts, tools, cur, hs, rpc, call, timers, restartAttempts,
                   fingerprint, osVars, server, respawns>>

\* process.exit after shutdown() settles.
ServerExits ==
    /\ server = "stopping" /\ unloading = "done"
    /\ server' = "exited"
    /\ UNCHANGED <<opts, state, tools, cur, proc, hs, rpc, call, timers,
                   restartAttempts, readyLong, fingerprint, osVars, unloading,
                   respawns>>

\* A second signal, or end of input after a signal: shutdownStarted is set, so
\* the handler skips the wait and calls process.exit.
SecondTrigger ==
    /\ server = "stopping"
    /\ server' = "exited"
    /\ UNCHANGED <<opts, state, tools, cur, proc, hs, rpc, call, timers,
                   restartAttempts, readyLong, fingerprint, osVars, unloading,
                   respawns>>

-----------------------------------------------------------------------------
Next ==
    \/ Scan \/ Approve \/ Disable \/ EditPlugin
    \/ BootLoad \/ RestartTimerFires
    \/ \E p \in Procs : \/ InitializeReply(p) \/ ToolsListReply(p)
                        \/ HandshakeFails(p)
                        \/ OtherExits(p)
                        \/ OutputOverflows(p) \/ OutputMalformed(p)
    \/ CurrentExits
    \/ \E c \in Calls : CallTool(c) \/ CallReply(c) \/ CallFails(c)
    \/ ReadyWindowElapses
    \/ Shutdown \/ UnloadTimesOut \/ ServerExits \/ SecondTrigger

Spec == Init /\ [][Next]_vars

\* Timers are all that must make progress; processes and the client need not.
Fairness ==
    /\ \A p \in Procs : WF_vars(HandshakeFails(p))
    /\ \A c \in Calls : WF_vars(CallFails(c))
    /\ WF_vars(UnloadTimesOut)
    /\ WF_vars(ServerExits)

FairSpec == Spec /\ Fairness

-----------------------------------------------------------------------------
(* Properties.                                                             *)

\* A plugin that is loading or callable has a running current process, the one
\* whose exit listener is attached: its crash cannot go unnoticed.
LiveHasProcess ==
    server # "exited" /\ state \in Live => CurrentAlive

\* A loading plugin always has the handshake that will take it out of loading,
\* whatever stale loads, crashes and unloads did to the shared record.
LoadingHasHandshake ==
    state = "loading" => cur \in Procs /\ hs[cur] # "idle"

\* The overlay holds the tools exactly while the plugin can be called; once a
\* shutdown has begun at most while it can be, or after it was unloaded.
ToolsMatchState ==
    /\ unloading = "no" => (tools <=> state \in Callable)
    /\ tools => state \in Callable \cup {"unloaded"}

\* Every entry of the pending table has an owner that still waits for it, so a
\* reply never resolves a promise nobody holds.
PendingHasWaiter ==
    /\ \A p \in Procs : rpc[p] # NoProc => hs[p] # "idle"
    /\ \A c \in Calls : rpc[c] # NoProc => call[c] = "waiting"

\* Between two resets of the counter a plugin is respawned automatically at
\* most MaxRestartAttempts times, although one crash can arm two timers: each
\* armed timer and each respawn has an attempt of its own.
RestartBudget ==
    /\ respawns + timers <= restartAttempts
    /\ respawns <= MaxRestartAttempts

\* A process only ever starts from the files that were scanned and, when
\* consent is required, approved - on the first load and on every restart.
SpawnNeedsConsent ==
    [][\A p \in Procs : ~Alive(p) /\ Alive(p)' =>
          /\ diskFp = fingerprint
          /\ opts.requireConsent => consent = fingerprint]_vars

\* Unloaded is final: no restart timer and no late handshake revives the
\* plugin or starts a process for it.
UnloadedIsFinal ==
    [][state = "unloaded" =>
          /\ state' = "unloaded"
          /\ \A p \in Procs : Alive(p)' => Alive(p)]_vars

\* The client sees nothing but the service the loader promises.
Service == INSTANCE PluginService WITH
    offered <- tools /\ state \in Callable /\ server # "exited",
    pending <- {c \in Calls : call[c] = "waiting"},
    phase <- IF server = "exited" THEN "gone"
             ELSE IF state = "unloaded" THEN "stopped" ELSE "open"

ImplementsService == Service!ServiceSpec

\* Every accepted call is answered while the server runs, also when its entry
\* was dropped by a failing handshake or its process was replaced.
CallsSettle ==
    \A c \in Calls :
        call[c] = "waiting" ~> (call[c] = "idle" \/ server = "exited")

\* A plugin does not stay in loading.
LoadingEnds == state = "loading" ~> (state # "loading" \/ server = "exited")

\* The server ends once it has been told to stop, also when the process
\* ignores SIGTERM or its exit is no longer heard.
ShutdownEnds == server = "stopping" ~> server = "exited"

-----------------------------------------------------------------------------
(* What a comment says and the code does not keep.                         *)

\* When the server ends, every process it spawned has been signalled
\* (shutdown: "Sends process-group SIGTERM to every spawned plugin").
ShutdownSignalsAll ==
    server = "exited" /\ unloading = "done" =>
        \A p \in Procs : proc[p] # "running"
=============================================================================
