----------------------- MODULE PluginRefinementProofs -----------------------
(***************************************************************************)
(* PluginLifecycle implements PluginService, for every finite set of       *)
(* processes and calls and every restart budget.                           *)
(***************************************************************************)
EXTENDS PluginLifecycleProofs

\* The abstract state.
Offered == tools /\ state \in Callable /\ server # "exited"
Pending == {c \in Calls : call[c] = "waiting"}
Phase == IF server = "exited" THEN "gone"
         ELSE IF state = "unloaded" THEN "stopped" ELSE "open"

ServiceStep == [Service!ServiceNext]_(Service!serviceVars)

-----------------------------------------------------------------------------
(* Which changes of the abstract state are steps of the service.           *)

\* The plugin may stop being offered and calls may be answered at any time.
LEMMA Quiet ==
    ASSUME Phase' = Phase, Pending' \subseteq Pending, Offered' => Offered
    PROVE  ServiceStep
<1>. USE DEF Offered, Pending, Phase
<1>1. CASE Offered /\ ~Offered'
  BY <1>1 DEF ServiceStep, Service!ServiceNext, Service!Withdraw
<1>2. CASE (Offered <=> Offered') /\ Pending' # Pending
  BY <1>2 DEF ServiceStep, Service!ServiceNext, Service!Answer
<1>3. CASE (Offered <=> Offered') /\ Pending' = Pending
  BY <1>3 DEF ServiceStep, Service!serviceVars
<1>. QED
  BY <1>1, <1>2, <1>3

\* The plugin is unloaded: nothing is offered any more.
LEMMA Stops ==
    ASSUME Phase = "open", Phase' = "stopped", ~Offered', Pending' \subseteq Pending
    PROVE  ServiceStep
  BY DEF Offered, Pending, Phase, ServiceStep, Service!ServiceNext, Service!Stop

-----------------------------------------------------------------------------
(* The steps of the lifecycle.                                             *)

\* A load offers nothing and answers nobody.
LEMMA LoadMaps ==
    ASSUME TypeOK, NEW t \in Nat, Load(t), server # "exited"
    PROVE  Phase' = Phase /\ Pending' \subseteq Pending /\ (Offered' => Offered)
<1>. USE DEF Offered, Pending, Phase, Callable
<1>1. CASE LoadDisabled(t) \/ LoadIgnored(t) \/ LoadDry(t)
  BY <1>1 DEF LoadDisabled, LoadIgnored, LoadDry
<1>2. CASE LoadRefused(t) \/ LoadStale(t) \/ LoadSpawnFails(t)
  BY <1>2 DEF LoadRefused, LoadStale, LoadSpawnFails, TransitionDead, Dies, MayDie
<1>3. CASE LoadSpawns(t)
  BY <1>3 DEF LoadSpawns, MaySpawn
<1>. QED
  BY <1>1, <1>2, <1>3 DEF Load

\* The end of a process and the unload that waits for it.
LEMMA CurrentExitsMaps == ASSUME TypeOK, CurrentExits PROVE ServiceStep
<1>1. Pending' \subseteq Pending
  BY DEF CurrentExits, RejectPending, Pending
<1>2. CASE unloading = "waiting" /\ state # "unloaded"
  <2>1. state' = "unloaded" /\ tools' = FALSE /\ server' = server /\ server # "exited"
    BY <1>2 DEF CurrentExits, Dies, MayDie
  <2>. QED
    BY <1>1, <1>2, <2>1, Stops DEF Phase, Offered
<1>3. CASE ~(unloading = "waiting" /\ state # "unloaded")
  <2>1. Phase' = Phase /\ (Offered' => Offered)
    BY <1>3 DEF CurrentExits, TransitionDead, Dies, MayDie, Phase, Offered
  <2>. QED
    BY <1>1, <2>1, Quiet
<1>. QED
  BY <1>2, <1>3

\* The first trigger of a shutdown.
LEMMA ShutdownMaps == ASSUME TypeOK, Shutdown PROVE ServiceStep
<1>1. Pending' \subseteq Pending
  BY DEF Shutdown, RejectPending, Pending
<1>2. server = "up" /\ server' = "stopping" /\ tools' = FALSE
  BY DEF Shutdown, TransitionDead, Dies, MayDie
<1>3. CASE state' = "unloaded" /\ state # "unloaded"
  BY <1>1, <1>2, <1>3, Stops DEF Phase, Offered
<1>4. CASE ~(state' = "unloaded" /\ state # "unloaded")
  <2>1. Phase' = Phase
    BY <1>2, <1>4 DEF Shutdown, TransitionDead, Dies, MayDie, Phase
  <2>. QED
    BY <1>1, <1>2, <2>1, Quiet DEF Offered
<1>. QED
  BY <1>3, <1>4

\* Every step of the lifecycle is a step of the service or leaves it alone.
LEMMA StepMaps == ASSUME TypeOK, [Next]_vars PROVE ServiceStep
<1>. USE DEF Callable
<1>1. CASE Scan \/ Approve \/ Disable \/ EditPlugin \/ ReadyWindowElapses \/ UNCHANGED vars
  BY <1>1, Quiet DEF Scan, Approve, Disable, EditPlugin, ReadyWindowElapses, vars, Offered,
     Pending, Phase
<1>2. CASE BootLoad \/ RestartTimerFires
  <2>1. PICK t \in Nat : Load(t) /\ server # "exited"
    <3>1. timers \in Nat
      BY DEF TypeOK
    <3>2. CASE BootLoad
      BY <3>1, <3>2 DEF BootLoad
    <3>3. CASE RestartTimerFires
      <4>1. timers - 1 \in Nat
        BY <3>1, <3>3 DEF RestartTimerFires
      <4>. QED
        BY <3>3, <4>1 DEF RestartTimerFires
    <3>. QED
      BY <1>2, <3>2, <3>3
  <2>. QED
    BY <2>1, LoadMaps, Quiet
<1>3. ASSUME NEW p \in Procs, ToolsListReply(p) PROVE ServiceStep
  <2>1. ~Offered /\ Offered' /\ Pending' = Pending /\ Phase = "open" /\ Phase' = "open"
    BY <1>3 DEF ToolsListReply, Replies, Offered, Pending, Phase
  <2>. QED
    BY <2>1 DEF Offered, Pending, Phase, ServiceStep, Service!ServiceNext, Service!Offer
<1>4. ASSUME NEW p \in Procs, InitializeReply(p) \/ OtherExits(p) \/ OutputMalformed(p)
      PROVE  ServiceStep
  BY <1>4, Quiet DEF InitializeReply, OtherExits, OutputMalformed, Offered, Pending, Phase
<1>5. ASSUME NEW p \in Procs, HandshakeFails(p) \/ OutputOverflows(p) PROVE ServiceStep
  <2>1. Phase' = Phase /\ Pending' = Pending /\ ~Offered'
    BY <1>5 DEF HandshakeFails, Awaits, OutputOverflows, TransitionDead, Dies, MayDie, Offered, Pending, Phase
  <2>. QED
    BY <2>1, Quiet
<1>6. ASSUME NEW c \in Calls, CallTool(c) PROVE ServiceStep
  <2>1. Offered /\ Offered' /\ Phase = "open" /\ Phase' = "open" /\ c \notin Pending
    BY <1>6 DEF CallTool, Accepts, Offered, Pending, Phase
  <2>2. Pending' = Pending \cup {c}
    BY <1>6 DEF CallTool, Accepts, TypeOK, Pending
  <2>. QED
    BY <2>1, <2>2 DEF Offered, Pending, Phase, ServiceStep, Service!ServiceNext, Service!Accept
<1>7. ASSUME NEW c \in Calls, CallReply(c) \/ CallFails(c) PROVE ServiceStep
  <2>1. Pending' \subseteq Pending
    BY <1>7 DEF CallReply, Resets, CallFails, Outstanding, TypeOK, Pending
  <2>2. Phase' = Phase /\ (Offered' => Offered)
    BY <1>7 DEF CallReply, Resets, CallFails, Outstanding, Phase, Offered
  <2>. QED
    BY <2>1, <2>2, Quiet
<1>8. CASE UnloadTimesOut
  <2>1. Pending' = Pending /\ ~Offered' /\ Phase' = "stopped" /\ Phase \in {"open", "stopped"}
    BY <1>8 DEF UnloadTimesOut, StillWaiting, Pending, Offered, Phase
  <2>. QED
    BY <2>1, Quiet, Stops
<1>9. CASE ServerExits \/ SecondTrigger
  <2>1. Phase # "gone" /\ Phase' = "gone" /\ ~Offered' /\ Pending' = Pending
    BY <1>9 DEF ServerExits, SecondTrigger, Phase, Offered, Pending
  <2>. QED
    BY <2>1 DEF Offered, Pending, Phase, ServiceStep, Service!ServiceNext, Service!Leave
<1>. QED
  BY <1>1, <1>2, <1>3, <1>4, <1>5, <1>6, <1>7, <1>8, <1>9, CurrentExitsMaps, ShutdownMaps
  DEF Next

\* The lifecycle implements the service.
THEOREM Refinement == Spec => ImplementsService
<1>1. Init => Service!ServiceInit
  BY DEF Init, Service!ServiceInit, Callable
<1>2. TypeOK /\ [Next]_vars => [Service!ServiceNext]_(Service!serviceVars)
  BY StepMaps DEF ServiceStep
<1>. QED
  BY <1>1, <1>2, TypeCorrect, PTL DEF Spec, ImplementsService, Service!ServiceSpec
=============================================================================
