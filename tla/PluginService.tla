--------------------------- MODULE PluginService ---------------------------
(***************************************************************************)
(* What the plugin loader promises the MCP client about one plugin: a call *)
(* is accepted only while the plugin's tools are offered, an accepted call *)
(* is answered once, and after the plugin is stopped nothing is offered or *)
(* accepted again.  How processes, handshakes, restarts and shutdown keep  *)
(* that promise is the business of PluginLifecycle, which implements this. *)
(***************************************************************************)
CONSTANT Calls

VARIABLES
    offered,    \* the plugin's tools appear in tools/list and can be called
    pending,    \* the calls that were accepted and not answered yet
    phase       \* "open", "stopped" (plugin unloaded) or "gone" (server ended)

serviceVars == <<offered, pending, phase>>

ServiceTypeOK ==
    /\ offered \in BOOLEAN
    /\ pending \subseteq Calls
    /\ phase \in {"open", "stopped", "gone"}

ServiceInit ==
    /\ offered = FALSE
    /\ pending = {}
    /\ phase = "open"

Offer ==
    /\ phase = "open" /\ ~offered
    /\ offered' = TRUE
    /\ UNCHANGED <<pending, phase>>

\* The tools disappear; the same event may answer (with an error) any of the
\* calls that were waiting.
Withdraw ==
    /\ offered /\ offered' = FALSE
    /\ pending' \in SUBSET pending
    /\ UNCHANGED phase

Accept(c) ==
    /\ phase = "open" /\ offered
    /\ c \notin pending
    /\ pending' = pending \cup {c}
    /\ UNCHANGED <<offered, phase>>

Answer ==
    /\ pending' \in SUBSET pending /\ pending' # pending
    /\ UNCHANGED <<offered, phase>>

Stop ==
    /\ phase = "open" /\ phase' = "stopped"
    /\ offered' = FALSE
    /\ pending' \in SUBSET pending

\* The server process ends; what was still waiting is never answered.
Leave ==
    /\ phase # "gone" /\ phase' = "gone"
    /\ offered' = FALSE
    /\ UNCHANGED pending

ServiceNext ==
    \/ Offer
    \/ Withdraw
    \/ \E c \in Calls : Accept(c)
    \/ Answer
    \/ Stop
    \/ Leave

ServiceSpec == ServiceInit /\ [][ServiceNext]_serviceVars
=============================================================================
