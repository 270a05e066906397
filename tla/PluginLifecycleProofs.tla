----------------------- MODULE PluginLifecycleProofs -----------------------
(***************************************************************************)
(* Theorems about PluginLifecycle, for every finite set of processes and   *)
(* every restart budget.                                                   *)
(***************************************************************************)
EXTENDS PluginLifecycle, FiniteSetTheorems, TLAPS

USE DEF Owners, osVars

-----------------------------------------------------------------------------
(* What the shared operators do.                                           *)

\* The number of rejected loads is a natural number.
LEMMA RejectedLoadsCount == Cardinality(RejectedLoads) \in Nat
<1>1. RejectedLoads \subseteq Procs
  BY DEF RejectedLoads
<1>2. IsFiniteSet(RejectedLoads)
  BY <1>1, FS_Subset, ProcsAssumption
<1>. QED
  BY <1>2, FS_CardinalityType

\* The number of times an exit declares the plugin dead.
LEMMA DeathsOnExitCount ==
    /\ DeathsOnExit \in Nat
    /\ state \in Live => DeathsOnExit > 0
  BY RejectedLoadsCount DEF DeathsOnExit

\* Dies keeps types, clears the tools, and arms as many timers as it takes
\* attempts.
LEMMA DiesEffect ==
    ASSUME TypeOK, NEW n \in Nat, NEW t \in Nat, NEW s \in States, Dies(n, t, s)
    PROVE  /\ tools' = FALSE /\ readyLong' = FALSE
           /\ state' \in {s, "unloaded"} /\ (state = "unloaded" => state' = "unloaded")
           /\ restartAttempts' \in 0 .. MaxRestartAttempts
           /\ timers' \in Nat
           /\ timers' - t <= restartAttempts' - restartAttempts
<1>1. CASE state = "unloaded"
  BY <1>1, RestartAssumption DEF Dies, MayDie, TypeOK
<1>2. CASE state # "unloaded"
  <2>1. state' = s /\ restartAttempts' = Charged(n)
        /\ timers' = t + (Charged(n) - restartAttempts)
        /\ tools' = FALSE /\ readyLong' = FALSE
    BY <1>2 DEF Dies, MayDie
  <2>2. restartAttempts \in 0 .. MaxRestartAttempts
    BY DEF TypeOK
  <2>3. Charged(n) \in restartAttempts .. MaxRestartAttempts
    BY <2>2, RestartAssumption DEF Charged
  <2>. QED
    BY <1>2, <2>1, <2>2, <2>3, RestartAssumption
<1>. QED
  BY <1>1, <1>2

\* Rejecting every entry keeps types and leaves no entry.
LEMMA RejectPendingType ==
    ASSUME TypeOK, RejectPending
    PROVE  /\ rpc' \in [Owners -> Procs \cup {NoProc}]
           /\ hs' \in [Procs -> {"idle", "init", "list"}]
           /\ call' \in [Calls -> {"idle", "waiting"}]
           /\ \A o \in Owners : rpc'[o] = NoProc
  BY DEF TypeOK, RejectPending, NothingPending

\* Arming as many timers as attempts are taken keeps the budget.
LEMMA BudgetArithmetic ==
    ASSUME NEW r \in Nat, NEW t \in Nat, NEW a \in Nat, NEW m \in Nat,
           NEW t2 \in Nat, NEW a2 \in 0 .. m,
           r + t <= a, t2 - t <= a2 - a
    PROVE  r + t2 <= a2 /\ r <= m
  OBVIOUS

\* Signalling a process keeps the type of proc and ends no process.
LEMMA SignalledEffect ==
    ASSUME TypeOK, NEW p, NEW sig \in {"terming", "killed"}, proc' = Signalled(p, sig)
    PROVE  /\ proc' \in [Procs -> {"none", "running", "terming", "killed", "exited"}]
           /\ \A q \in Procs : Alive(q)' <=> Alive(q)
  BY DEF TypeOK, Signalled, Alive

-----------------------------------------------------------------------------
(* Types.                                                                  *)

\* A load keeps types, whichever way it ends.
LEMMA LoadType ==
    ASSUME TypeOK, NEW t \in Nat, Load(t)
    PROVE  TypeOK'
<1>. USE DEF TypeOK
<1>1. CASE LoadDisabled(t)
  BY <1>1 DEF LoadDisabled, States
<1>2. CASE LoadIgnored(t)
  BY <1>2 DEF LoadIgnored
<1>3. CASE LoadRefused(t)
  <2>1. /\ state' \in States /\ tools' \in BOOLEAN /\ readyLong' \in BOOLEAN
        /\ restartAttempts' \in 0 .. MaxRestartAttempts /\ timers' \in Nat
    <3>1. CASE TransitionDead(1, t)
      BY <3>1, DiesEffect DEF TransitionDead, States
    <3>2. CASE ~TransitionDead(1, t)
      BY <1>3, <3>2, RestartAssumption DEF LoadRefused
    <3>. QED
      BY <3>1, <3>2
  <2>. QED
    BY <1>3, <2>1 DEF LoadRefused
<1>4. CASE LoadDry(t)
  BY <1>4 DEF LoadDry, States
<1>5. CASE LoadStale(t)
  BY <1>5, DiesEffect DEF LoadStale, DropListeners, NothingPending, TransitionDead, States
<1>6. CASE LoadSpawns(t)
  BY <1>6 DEF LoadSpawns, DropListeners, States
<1>7. CASE LoadSpawnFails(t)
  <2>1. /\ state' \in States /\ tools' \in BOOLEAN /\ readyLong' \in BOOLEAN
        /\ restartAttempts' \in 0 .. MaxRestartAttempts /\ timers' \in Nat
    BY <1>7, DiesEffect DEF LoadSpawnFails, TransitionDead, States
  <2>. QED
    BY <1>7, <2>1 DEF LoadSpawnFails, DropListeners
<1>. QED
  BY <1>1, <1>2, <1>3, <1>4, <1>5, <1>6, <1>7 DEF Load

\* Every step keeps types.
LEMMA TypeStep == TypeOK /\ [Next]_vars => TypeOK'
<1>. SUFFICES ASSUME TypeOK, [Next]_vars PROVE TypeOK'
  OBVIOUS
<1>1. CASE Scan
  BY <1>1 DEF TypeOK, Scan, States
<1>2. CASE Approve \/ Disable \/ EditPlugin
  BY <1>2 DEF TypeOK, Approve, Disable, EditPlugin
<1>3. CASE BootLoad
  BY <1>3, LoadType DEF BootLoad, TypeOK
<1>4. CASE RestartTimerFires
  BY <1>4, LoadType DEF RestartTimerFires, TypeOK
<1>5. ASSUME NEW p \in Procs, InitializeReply(p) PROVE TypeOK'
  BY <1>5 DEF TypeOK, InitializeReply
<1>6. ASSUME NEW p \in Procs, ToolsListReply(p) PROVE TypeOK'
  BY ZenonT(60), <1>6 DEF TypeOK, ToolsListReply, States
<1>7. ASSUME NEW p \in Procs, HandshakeFails(p) PROVE TypeOK'
  BY ZenonT(60), <1>7, DiesEffect DEF TypeOK, HandshakeFails, Awaits, TransitionDead, NothingPending, States
<1>8. ASSUME NEW p \in Procs, OtherExits(p) PROVE TypeOK'
  BY <1>8 DEF TypeOK, OtherExits
<1>9. ASSUME NEW p \in Procs, OutputOverflows(p) PROVE TypeOK'
  BY ZenonT(60), <1>9, DiesEffect, SignalledEffect DEF TypeOK, OutputOverflows, TransitionDead, States
<1>10. ASSUME NEW p \in Procs, OutputMalformed(p) PROVE TypeOK'
  BY ZenonT(60), <1>10 DEF TypeOK, OutputMalformed, States
<1>11. CASE CurrentExits
  <2>1. /\ state' \in States /\ tools' \in BOOLEAN /\ readyLong' \in BOOLEAN
        /\ restartAttempts' \in 0 .. MaxRestartAttempts /\ timers' \in Nat
        /\ unloading' \in {"no", "waiting", "deaf", "done"}
    BY <1>11, DiesEffect, DeathsOnExitCount DEF CurrentExits, TransitionDead, TypeOK, States
  <2>2. proc' \in [Procs -> {"none", "running", "terming", "killed", "exited"}]
    BY <1>11 DEF CurrentExits, TypeOK
  <2>. QED
    BY <1>11, <2>1, <2>2, RejectPendingType DEF CurrentExits, TypeOK
<1>12. ASSUME NEW c \in Calls, CallTool(c) PROVE TypeOK'
  BY <1>12 DEF TypeOK, CallTool, Accepts
<1>13. ASSUME NEW c \in Calls, CallReply(c) PROVE TypeOK'
  BY <1>13, RestartAssumption DEF TypeOK, CallReply, Resets, States
<1>14. ASSUME NEW c \in Calls, CallFails(c) PROVE TypeOK'
  BY ZenonT(60), <1>14 DEF TypeOK, CallFails, Outstanding, States
<1>15. CASE ReadyWindowElapses
  BY <1>15 DEF TypeOK, ReadyWindowElapses
<1>16. CASE Shutdown
  <2>1. /\ state' \in States /\ tools' \in BOOLEAN /\ readyLong' \in BOOLEAN
        /\ restartAttempts' \in 0 .. MaxRestartAttempts /\ timers' \in Nat
        /\ unloading' \in {"no", "waiting", "deaf", "done"}
    BY <1>16, DiesEffect, RejectedLoadsCount DEF Shutdown, TransitionDead, TypeOK, States
  <2>2. proc' \in [Procs -> {"none", "running", "terming", "killed", "exited"}]
    BY <1>16, SignalledEffect DEF Shutdown, TypeOK
  <2>. QED
    BY <1>16, <2>1, <2>2, RejectPendingType DEF Shutdown, TypeOK
<1>17. CASE UnloadTimesOut
  BY <1>17, SignalledEffect DEF TypeOK, UnloadTimesOut, StillWaiting, States
<1>18. CASE ServerExits \/ SecondTrigger
  BY <1>18 DEF TypeOK, ServerExits, SecondTrigger
<1>19. CASE UNCHANGED vars
  BY <1>19 DEF TypeOK, vars
<1>. QED
  BY <1>1, <1>2, <1>3, <1>4, <1>5, <1>6, <1>7, <1>8, <1>9, <1>10, <1>11, <1>12,
     <1>13, <1>14, <1>15, <1>16, <1>17, <1>18, <1>19 DEF Next

\* The variables keep their types.
THEOREM TypeCorrect == Spec => []TypeOK
<1>1. Init => TypeOK
  <2>. SUFFICES ASSUME Init PROVE TypeOK
    OBVIOUS
  <2>1. restartAttempts \in 0 .. MaxRestartAttempts
    BY RestartAssumption DEF Init
  <2>2. rpc \in [Owners -> Procs \cup {NoProc}]
    BY DEF Init
  <2>. QED
    BY <2>1, <2>2 DEF Init, TypeOK, States
<1>. QED
  BY <1>1, TypeStep, PTL DEF Spec

-----------------------------------------------------------------------------
(* The inductive invariant: the properties of PluginLifecycle and the two  *)
(* facts they lean on.                                                     *)

\* While a plugin counts as ready for the reset window no restart is armed, so
\* giving the budget back forgets no timer.
ResetWindowQuiet == readyLong => state = "ready" /\ timers = 0

\* A plugin disabled by the environment never starts.
DisabledNeverLive == opts.disabled => state \notin Live

IInv ==
    /\ LiveHasProcess
    /\ LoadingHasHandshake
    /\ ToolsMatchState
    /\ PendingHasWaiter
    /\ RestartBudget
    /\ ResetWindowQuiet
    /\ DisabledNeverLive

\* A plugin without a live state has no tools, unless it is unloaded.
LEMMA NotCallableNoTools ==
    ASSUME IInv, state \in {"unknown", "discovered", "consented", "loading", "dead"}
    PROVE  tools = FALSE
  BY DEF IInv, ToolsMatchState, Callable

\* A death keeps the invariant when no new entry or process comes with it.
LEMMA DiesInv ==
    ASSUME TypeOK, IInv, NEW n \in Nat, NEW t \in Nat, NEW s \in {"dead", "unloaded"},
           Dies(n, t, s), respawns + t <= restartAttempts,
           respawns' = respawns, opts' = opts
    PROVE  /\ LiveHasProcess' /\ LoadingHasHandshake' /\ ToolsMatchState'
           /\ RestartBudget' /\ ResetWindowQuiet' /\ DisabledNeverLive'
<1>0. s \in States
  BY DEF States
<1>1. /\ tools' = FALSE /\ readyLong' = FALSE /\ state' \in {"dead", "unloaded"}
      /\ timers' - t <= restartAttempts' - restartAttempts
      /\ restartAttempts' \in 0 .. MaxRestartAttempts /\ timers' \in Nat
  BY <1>0, DiesEffect
<1>2. restartAttempts \in Nat /\ respawns \in Nat
  BY RestartAssumption DEF TypeOK
<1>3. RestartBudget'
  BY <1>1, <1>2, BudgetArithmetic, RestartAssumption DEF RestartBudget
<1>. QED
  BY <1>1, <1>3 DEF LiveHasProcess, LoadingHasHandshake, ToolsMatchState,
     ResetWindowQuiet, DisabledNeverLive, Live, Callable

\* A load keeps the invariant when the timer that called it has been spent.
LEMMA LoadInv ==
    ASSUME TypeOK, IInv, server # "exited", NEW t \in Nat, Load(t), t <= timers,
           state = "discovered" \/ t < timers
    PROVE  IInv'
<1>0. respawns + t <= restartAttempts
  BY DEF IInv, RestartBudget, TypeOK
<1>1. CASE LoadDisabled(t)
  <2>1. state \notin Live /\ state' \notin Live /\ readyLong = FALSE
    BY <1>1 DEF LoadDisabled, IInv, DisabledNeverLive, ResetWindowQuiet, Live, TypeOK
  <2>. QED
    BY <1>1, <1>0, <2>1 DEF LoadDisabled, IInv, LiveHasProcess, LoadingHasHandshake,
       ToolsMatchState, PendingHasWaiter, RestartBudget, ResetWindowQuiet,
       DisabledNeverLive, Live, Callable, TypeOK
<1>2. CASE LoadIgnored(t)
  BY <1>2, <1>0 DEF LoadIgnored, IInv, LiveHasProcess, LoadingHasHandshake, CurrentAlive,
     Alive, ToolsMatchState, PendingHasWaiter, RestartBudget, ResetWindowQuiet,
     DisabledNeverLive, TypeOK
<1>3. CASE LoadRefused(t)
  <2>1. PendingHasWaiter'
    BY <1>3 DEF LoadRefused, IInv, PendingHasWaiter
  <2>2. CASE TransitionDead(1, t)
    BY <1>3, <1>0, <2>1, <2>2, DiesInv DEF LoadRefused, TransitionDead, IInv
  <2>3. CASE ~TransitionDead(1, t)
    BY <1>3, <1>0, <2>1, <2>3, RestartAssumption DEF LoadRefused, IInv, LiveHasProcess,
       LoadingHasHandshake, ToolsMatchState, RestartBudget, ResetWindowQuiet,
       DisabledNeverLive, Live, TypeOK
  <2>. QED
    BY <2>2, <2>3
<1>4. CASE LoadDry(t)
  BY <1>4, <1>0, NotCallableNoTools DEF LoadDry, IInv, LiveHasProcess, LoadingHasHandshake,
     ToolsMatchState, PendingHasWaiter, RestartBudget, ResetWindowQuiet,
     DisabledNeverLive, Live, Callable, TypeOK
<1>5. CASE LoadStale(t)
  <2>1. PendingHasWaiter'
    BY <1>5 DEF LoadStale, NothingPending, PendingHasWaiter
  <2>. QED
    BY <1>5, <1>0, <2>1, DiesInv DEF LoadStale, TransitionDead, IInv
<1>6. CASE LoadSpawns(t)
  <2>1. PICK p \in Procs :
           /\ cur' = p /\ proc' = [proc EXCEPT ![p] = "running"]
           /\ hs' = [hs EXCEPT ![p] = "init"] /\ rpc' = [rpc EXCEPT ![p] = p]
    BY <1>6 DEF LoadSpawns
  <2>2. /\ LiveHasProcess' /\ LoadingHasHandshake'
    BY <1>6, <2>1 DEF LoadSpawns, LiveHasProcess, LoadingHasHandshake, CurrentAlive,
       Alive, TypeOK
  <2>3. ToolsMatchState' /\ ResetWindowQuiet' /\ DisabledNeverLive'
    BY <1>6, NotCallableNoTools DEF LoadSpawns, MaySpawn, DropListeners, IInv,
       ToolsMatchState, ResetWindowQuiet, DisabledNeverLive, Callable
  <2>4. PendingHasWaiter'
    BY <1>6, <2>1, CallsAssumption DEF LoadSpawns, IInv, PendingHasWaiter, TypeOK
  <2>5. RestartBudget'
    BY <1>6, <1>0, RestartAssumption DEF LoadSpawns, MaySpawn, IInv, RestartBudget, TypeOK
  <2>. QED
    BY <2>2, <2>3, <2>4, <2>5 DEF IInv
<1>7. CASE LoadSpawnFails(t)
  <2>1. PICK p \in Procs :
           /\ hs' = [hs EXCEPT ![p] = "init"] /\ rpc' = [rpc EXCEPT ![p] = p]
    BY <1>7 DEF LoadSpawnFails
  <2>2. PendingHasWaiter'
    BY <1>7, <2>1, CallsAssumption DEF LoadSpawnFails, IInv, PendingHasWaiter, TypeOK
  <2>3. /\ tools' = FALSE /\ readyLong' = FALSE /\ state' \in {"dead", "unloaded"}
        /\ restartAttempts' \in 0 .. MaxRestartAttempts /\ timers' \in Nat
        /\ timers' - t <= restartAttempts' - restartAttempts
    BY <1>7, DiesEffect DEF LoadSpawnFails, TransitionDead, States
  <2>4. respawns' \in Nat /\ respawns' + t <= restartAttempts /\ restartAttempts \in Nat
    BY <1>7, <1>0, RestartAssumption DEF LoadSpawnFails, MaySpawn, IInv, RestartBudget, TypeOK
  <2>5. RestartBudget'
    BY <2>3, <2>4, BudgetArithmetic, RestartAssumption DEF RestartBudget
  <2>. QED
    BY <2>2, <2>3, <2>5 DEF IInv, LiveHasProcess, LoadingHasHandshake, ToolsMatchState,
       ResetWindowQuiet, DisabledNeverLive, Live, Callable
<1>. QED
  BY <1>1, <1>2, <1>3, <1>4, <1>5, <1>6, <1>7 DEF Load

\* Every step keeps the invariant.
LEMMA InvStep == TypeOK /\ IInv /\ [Next]_vars => IInv'
<1>. SUFFICES ASSUME TypeOK, IInv, [Next]_vars PROVE IInv'
  OBVIOUS
<1>. USE DEF IInv
<1>0. respawns + timers <= restartAttempts /\ respawns \in Nat /\ timers \in Nat
      /\ restartAttempts \in Nat
  BY RestartAssumption DEF RestartBudget, TypeOK
<1>1. CASE Scan
  BY <1>1 DEF Scan, LiveHasProcess, LoadingHasHandshake, ToolsMatchState,
     PendingHasWaiter, RestartBudget, ResetWindowQuiet, DisabledNeverLive, Live,
     Callable
<1>2. CASE Approve \/ Disable \/ EditPlugin
  BY <1>2 DEF Approve, Disable, EditPlugin, LiveHasProcess, LoadingHasHandshake,
     CurrentAlive, Alive, ToolsMatchState, PendingHasWaiter, RestartBudget,
     ResetWindowQuiet, DisabledNeverLive
<1>3. CASE BootLoad
  <2>1. server # "exited" /\ timers <= timers /\ state = "discovered" /\ Load(timers)
    BY <1>0, <1>3 DEF BootLoad
  <2>. QED
    BY <1>0, <2>1, LoadInv
<1>4. CASE RestartTimerFires
  <2>1. timers - 1 \in Nat /\ timers - 1 <= timers /\ timers - 1 < timers
    BY <1>0, <1>4 DEF RestartTimerFires
  <2>. QED
    BY <1>4, <2>1, LoadInv DEF RestartTimerFires
<1>5. ASSUME NEW p \in Procs, InitializeReply(p) PROVE IInv'
  <2>1. LoadingHasHandshake'
    BY <1>5 DEF InitializeReply, LoadingHasHandshake, TypeOK
  <2>2. PendingHasWaiter'
    BY <1>5, CallsAssumption DEF InitializeReply, PendingHasWaiter, TypeOK
  <2>. QED
    BY <1>5, <2>1, <2>2 DEF InitializeReply, LiveHasProcess, CurrentAlive, Alive,
       ToolsMatchState, RestartBudget, ResetWindowQuiet, DisabledNeverLive
<1>6. ASSUME NEW p \in Procs, ToolsListReply(p) PROVE IInv'
  <2>1. LiveHasProcess' /\ DisabledNeverLive'
    BY <1>6 DEF ToolsListReply, LiveHasProcess, CurrentAlive, Alive, DisabledNeverLive,
       Live
  <2>2. PendingHasWaiter'
    BY <1>6, CallsAssumption DEF ToolsListReply, PendingHasWaiter, TypeOK
  <2>. QED
    BY <1>6, <2>1, <2>2 DEF ToolsListReply, LoadingHasHandshake, ToolsMatchState,
       RestartBudget, ResetWindowQuiet, Callable
<1>7. ASSUME NEW p \in Procs, HandshakeFails(p) PROVE IInv'
  <2>1. PendingHasWaiter'
    BY <1>7 DEF HandshakeFails, Awaits, NothingPending, PendingHasWaiter
  <2>. QED
    BY <1>0, <1>7, <2>1, DiesInv DEF HandshakeFails, Awaits, TransitionDead
<1>8. ASSUME NEW p \in Procs, OtherExits(p) PROVE IInv'
  <2>1. LiveHasProcess'
    BY <1>8 DEF OtherExits, LiveHasProcess, CurrentAlive, Alive, TypeOK
  <2>. QED
    BY <1>8, <2>1 DEF OtherExits, LoadingHasHandshake, ToolsMatchState,
       PendingHasWaiter, RestartBudget, ResetWindowQuiet, DisabledNeverLive
<1>9. ASSUME NEW p \in Procs, OutputOverflows(p) PROVE IInv'
  <2>1. PendingHasWaiter'
    BY <1>9 DEF OutputOverflows, PendingHasWaiter
  <2>. QED
    BY <1>0, <1>9, <2>1, DiesInv DEF OutputOverflows, TransitionDead
<1>10. ASSUME NEW p \in Procs, OutputMalformed(p) PROVE IInv'
  BY <1>10 DEF OutputMalformed, LiveHasProcess, LoadingHasHandshake, CurrentAlive,
     Alive, ToolsMatchState, PendingHasWaiter, RestartBudget, ResetWindowQuiet,
     DisabledNeverLive, Live, Callable
<1>11. CASE CurrentExits
  <2>1. PendingHasWaiter'
    BY <1>11, RejectPendingType DEF CurrentExits, PendingHasWaiter
  <2>2. CASE unloading = "waiting"
    BY <1>0, <1>11, <2>1, <2>2, DiesInv, DeathsOnExitCount DEF CurrentExits
  <2>3. CASE unloading # "waiting" /\ DeathsOnExit > 0
    BY <1>0, <1>11, <2>1, <2>3, DiesInv, DeathsOnExitCount DEF CurrentExits, TransitionDead
  <2>4. CASE unloading # "waiting" /\ DeathsOnExit = 0
    <3>1. state \notin Live
      BY <2>4, DeathsOnExitCount
    <3>. QED
      BY <1>11, <2>1, <2>4, <3>1 DEF CurrentExits, LiveHasProcess, LoadingHasHandshake,
         ToolsMatchState, RestartBudget, ResetWindowQuiet, DisabledNeverLive, Live
  <2>. QED
    BY <1>11, <2>2, <2>3, <2>4, DeathsOnExitCount DEF CurrentExits
<1>12. ASSUME NEW c \in Calls, CallTool(c) PROVE IInv'
  <2>1. PendingHasWaiter'
    BY <1>12, CallsAssumption DEF CallTool, Accepts, PendingHasWaiter, TypeOK
  <2>. QED
    BY <1>12, <2>1 DEF CallTool, Accepts, LiveHasProcess, LoadingHasHandshake, CurrentAlive,
       Alive, ToolsMatchState, RestartBudget, ResetWindowQuiet, DisabledNeverLive
<1>13. ASSUME NEW c \in Calls, CallReply(c) PROVE IInv'
  <2>1. PendingHasWaiter'
    BY <1>13, CallsAssumption DEF CallReply, Resets, PendingHasWaiter, TypeOK
  <2>2. RestartBudget'
    BY <1>0, <1>13, RestartAssumption DEF CallReply, Resets, RestartBudget, ResetWindowQuiet
  <2>. QED
    BY <1>13, <2>1, <2>2 DEF CallReply, Resets, LiveHasProcess, LoadingHasHandshake,
       CurrentAlive, Alive, ToolsMatchState, ResetWindowQuiet, DisabledNeverLive,
       Live, Callable
<1>14. ASSUME NEW c \in Calls, CallFails(c) PROVE IInv'
  <2>1. PendingHasWaiter'
    BY <1>14, CallsAssumption DEF CallFails, Outstanding, PendingHasWaiter, TypeOK
  <2>. QED
    BY <1>14, <2>1 DEF CallFails, Outstanding, LiveHasProcess, LoadingHasHandshake,
       CurrentAlive, Alive, ToolsMatchState, RestartBudget, ResetWindowQuiet,
       DisabledNeverLive, Live, Callable
<1>15. CASE ReadyWindowElapses
  BY <1>15 DEF ReadyWindowElapses, LiveHasProcess, LoadingHasHandshake, CurrentAlive,
     Alive, ToolsMatchState, PendingHasWaiter, RestartBudget, ResetWindowQuiet,
     DisabledNeverLive
<1>16. CASE Shutdown
  <2>1. PendingHasWaiter'
    BY <1>16, RejectPendingType DEF Shutdown, PendingHasWaiter
  <2>2. CASE CurrentAlive /\ RejectedLoads # {}
    BY <1>0, <1>16, <2>1, <2>2, DiesInv, RejectedLoadsCount DEF Shutdown, TransitionDead
  <2>3. CASE CurrentAlive /\ RejectedLoads = {}
    <3>1. cur \in Procs /\ Alive(cur)' /\ hs' = hs
      BY <1>16, <2>3, SignalledEffect DEF Shutdown, CurrentAlive, RejectPending, TypeOK
    <3>. QED
      BY <1>16, <2>1, <2>3, <3>1 DEF Shutdown, LiveHasProcess, LoadingHasHandshake,
         CurrentAlive, Alive, ToolsMatchState, RestartBudget, ResetWindowQuiet,
         DisabledNeverLive, Live, Callable
  <2>4. CASE ~CurrentAlive
    BY <1>16, <2>1, <2>4 DEF Shutdown, LiveHasProcess, LoadingHasHandshake,
       ToolsMatchState, RestartBudget, ResetWindowQuiet, DisabledNeverLive, Live,
       Callable
  <2>. QED
    BY <2>2, <2>3, <2>4
<1>17. CASE UnloadTimesOut
  BY <1>17 DEF UnloadTimesOut, StillWaiting, LiveHasProcess, LoadingHasHandshake, ToolsMatchState,
     PendingHasWaiter, RestartBudget, ResetWindowQuiet, DisabledNeverLive, Live,
     Callable
<1>18. CASE ServerExits \/ SecondTrigger
  BY <1>18 DEF ServerExits, SecondTrigger, LiveHasProcess, LoadingHasHandshake,
     ToolsMatchState, PendingHasWaiter, RestartBudget, ResetWindowQuiet,
     DisabledNeverLive
<1>19. CASE UNCHANGED vars
  BY <1>19 DEF vars, LiveHasProcess, LoadingHasHandshake, CurrentAlive, Alive,
     ToolsMatchState, PendingHasWaiter, RestartBudget, ResetWindowQuiet,
     DisabledNeverLive
<1>. QED
  BY <1>1, <1>2, <1>3, <1>4, <1>5, <1>6, <1>7, <1>8, <1>9, <1>10, <1>11, <1>12,
     <1>13, <1>14, <1>15, <1>16, <1>17, <1>18, <1>19 DEF Next

\* The inductive invariant holds in every reachable state.
LEMMA Invariance == Spec => []IInv
<1>1. Init => IInv
  BY RestartAssumption DEF Init, IInv, LiveHasProcess, LoadingHasHandshake,
     ToolsMatchState, PendingHasWaiter, RestartBudget, ResetWindowQuiet,
     DisabledNeverLive, Live, Callable
<1>. QED
  BY <1>1, InvStep, TypeCorrect, PTL DEF Spec

-----------------------------------------------------------------------------
(* The invariants of PluginLifecycle.                                      *)

\* A loading or callable plugin always has the running process whose exit it
\* listens for.
THEOREM LiveHasProcessAlways == Spec => []LiveHasProcess
  BY Invariance, PTL DEF IInv

\* A loading plugin always has the handshake that takes it out of loading.
THEOREM LoadingHasHandshakeAlways == Spec => []LoadingHasHandshake
  BY Invariance, PTL DEF IInv

\* The overlay and the plugin's state agree.
THEOREM ToolsMatchStateAlways == Spec => []ToolsMatchState
  BY Invariance, PTL DEF IInv

\* Every pending entry has a waiter.
THEOREM PendingHasWaiterAlways == Spec => []PendingHasWaiter
  BY Invariance, PTL DEF IInv

\* Automatic restarts stay within their budget.
THEOREM RestartBudgetAlways == Spec => []RestartBudget
  BY Invariance, PTL DEF IInv

-----------------------------------------------------------------------------
(* The action properties of PluginLifecycle.                               *)

\* A load starts a process only from the scanned files and with consent, and
\* none for an unloaded plugin.
LEMMA LoadStarts ==
    ASSUME TypeOK, NEW t \in Nat, Load(t), NEW p \in Procs, ~Alive(p), Alive(p)'
    PROVE  /\ diskFp = fingerprint
           /\ opts.requireConsent => consent = fingerprint
           /\ state \in {"discovered", "dead"}
<1>1. proc' # proc
  BY DEF Alive
<1>2. CASE LoadSpawns(t)
  BY <1>2 DEF LoadSpawns, MaySpawn, ConsentMatches
<1>3. CASE LoadSpawnFails(t)
  BY <1>3 DEF LoadSpawnFails, MaySpawn, ConsentMatches
<1>. QED
  BY <1>1, <1>2, <1>3 DEF Load, LoadDisabled, LoadIgnored, LoadRefused, LoadDry, LoadStale

\* Only a load starts a process.
LEMMA OnlyLoadStarts ==
    ASSUME TypeOK, Next, NEW p \in Procs, ~Alive(p), Alive(p)'
    PROVE  \E t \in Nat : Load(t)
<1>1. CASE BootLoad
  BY <1>1 DEF BootLoad, TypeOK
<1>2. CASE RestartTimerFires
  <2>1. timers - 1 \in Nat
    BY <1>2 DEF RestartTimerFires, TypeOK
  <2>. QED
    BY <1>2, <2>1 DEF RestartTimerFires
<1>3. ASSUME NEW q \in Procs,
             InitializeReply(q) \/ ToolsListReply(q) \/ HandshakeFails(q)
             \/ OutputMalformed(q)
      PROVE  proc' = proc
  BY <1>3 DEF InitializeReply, ToolsListReply, HandshakeFails, Awaits, OutputMalformed
<1>4. ASSUME NEW q \in Procs, OtherExits(q) PROVE FALSE
  BY <1>4 DEF OtherExits, Alive, TypeOK
<1>5. ASSUME NEW q \in Procs, OutputOverflows(q) PROVE FALSE
  BY <1>5, SignalledEffect DEF OutputOverflows
<1>6. CASE CurrentExits
  BY <1>6 DEF CurrentExits, CurrentAlive, Alive, TypeOK
<1>7. CASE Shutdown
  BY <1>7, SignalledEffect DEF Shutdown, Alive
<1>8. CASE UnloadTimesOut
  BY <1>8, SignalledEffect DEF UnloadTimesOut, StillWaiting
<1>9. ASSUME NEW c \in Calls, CallTool(c) \/ CallReply(c) \/ CallFails(c)
      PROVE  proc' = proc
  BY <1>9 DEF CallTool, Accepts, CallReply, Resets, CallFails, Outstanding
<1>10. CASE Scan \/ Approve \/ Disable \/ EditPlugin \/ ReadyWindowElapses
            \/ ServerExits \/ SecondTrigger
  BY <1>10 DEF Scan, Approve, Disable, EditPlugin, ReadyWindowElapses, ServerExits,
     SecondTrigger, Alive
<1>11. proc' # proc
  BY DEF Alive
<1>. QED
  BY <1>1, <1>2, <1>3, <1>4, <1>5, <1>6, <1>7, <1>8, <1>9, <1>10, <1>11 DEF Next

\* No process starts without matching files and consent, on any path.
THEOREM SpawnNeedsConsentAlways == Spec => SpawnNeedsConsent
<1>1. ASSUME TypeOK, [Next]_vars, NEW p \in Procs, ~Alive(p) /\ Alive(p)'
      PROVE  diskFp = fingerprint /\ (opts.requireConsent => consent = fingerprint)
  <2>1. Next
    BY <1>1 DEF vars, Alive
  <2>2. PICK t \in Nat : Load(t)
    BY <1>1, <2>1, OnlyLoadStarts
  <2>. QED
    BY <1>1, <2>2, LoadStarts
<1>2. TypeOK /\ [Next]_vars
        => [\A p \in Procs : ~Alive(p) /\ Alive(p)' =>
              /\ diskFp = fingerprint
              /\ opts.requireConsent => consent = fingerprint]_vars
  BY <1>1
<1>. QED
  BY <1>2, TypeCorrect, PTL DEF Spec, SpawnNeedsConsent

\* A load leaves an unloaded plugin unloaded.
LEMMA LoadKeepsUnloaded ==
    ASSUME NEW t \in Nat, Load(t), state = "unloaded"
    PROVE  state' = "unloaded"
  BY DEF Load, LoadDisabled, LoadIgnored, LoadRefused, LoadDry, LoadStale, LoadSpawns,
     LoadSpawnFails, MaySpawn, TransitionDead, Dies, MayDie

\* Every step leaves an unloaded plugin unloaded.
LEMMA StepKeepsUnloaded ==
    ASSUME TypeOK, [Next]_vars, state = "unloaded"
    PROVE  state' = "unloaded"
<1>1. CASE BootLoad \/ RestartTimerFires
  <2>1. timers > 0 => timers - 1 \in Nat
    BY DEF TypeOK
  <2>. QED
    BY <1>1, <2>1, LoadKeepsUnloaded DEF BootLoad, RestartTimerFires, TypeOK
<1>2. ASSUME NEW p \in Procs,
             \/ InitializeReply(p) \/ ToolsListReply(p) \/ HandshakeFails(p)
             \/ OtherExits(p) \/ OutputOverflows(p) \/ OutputMalformed(p)
      PROVE  state' = "unloaded"
  BY <1>2 DEF InitializeReply, ToolsListReply, HandshakeFails, Awaits, OtherExits, OutputOverflows,
     OutputMalformed, TransitionDead, Dies, MayDie, Live
<1>3. CASE CurrentExits \/ Shutdown
  BY <1>3 DEF CurrentExits, Shutdown, TransitionDead, Dies, MayDie
<1>4. ASSUME NEW c \in Calls, CallTool(c) \/ CallReply(c) \/ CallFails(c)
      PROVE  state' = "unloaded"
  BY <1>4 DEF CallTool, Accepts, CallReply, Resets, CallFails, Outstanding
<1>5. CASE Scan \/ Approve \/ Disable \/ EditPlugin \/ ReadyWindowElapses
           \/ UnloadTimesOut \/ ServerExits \/ SecondTrigger \/ UNCHANGED vars
  BY <1>5 DEF Scan, Approve, Disable, EditPlugin, ReadyWindowElapses, UnloadTimesOut, StillWaiting,
     ServerExits, SecondTrigger, vars
<1>. QED
  BY <1>1, <1>2, <1>3, <1>4, <1>5 DEF Next

\* Unloaded is final, and no process starts for an unloaded plugin.
THEOREM UnloadedIsFinalAlways == Spec => UnloadedIsFinal
<1>1. ASSUME TypeOK, [Next]_vars, state = "unloaded", NEW p \in Procs, Alive(p)', ~Alive(p)
      PROVE  FALSE
  <2>1. Next
    BY <1>1 DEF vars, Alive
  <2>2. PICK t \in Nat : Load(t)
    BY <1>1, <2>1, OnlyLoadStarts
  <2>. QED
    BY <1>1, <2>2, LoadStarts
<1>2. TypeOK /\ [Next]_vars
        => [state = "unloaded" =>
              /\ state' = "unloaded"
              /\ \A p \in Procs : Alive(p)' => Alive(p)]_vars
  BY <1>1, StepKeepsUnloaded
<1>. QED
  BY <1>2, TypeCorrect, PTL DEF Spec, UnloadedIsFinal
=============================================================================
