------------------------------ MODULE OauthFlows ------------------------------
(***************************************************************************)
(* OAuth connections: services/mcps/oauth.ts for MCP servers and           *)
(* services/vcs/oauth.ts for the version-control providers, which share    *)
(* one design.  A flow is prepared over awaits, waits for the browser on a *)
(* loopback server, and exchanges the code for tokens, which live in the   *)
(* vault.  The status of an MCP is a column of its row; that of a provider *)
(* is derived from the vault and the flows.  A turn or a push that finds   *)
(* the tokens expired refreshes them over another await.                   *)
(***************************************************************************)
EXTENDS Integers

CONSTANTS Mcps, Vcs,    \* the services, by kind
          Flows, Uses,  \* bound: flows, and refreshes, at one time
          MaxCallbacks  \* bound: codes of one flow exchanged at one time

Services == Mcps \cup Vcs
None == "none"

ASSUME OauthAssumption == Mcps \cap Vcs = {} /\ None \notin Services /\ MaxCallbacks \in Nat

VARIABLES
  rows,       \* the MCPs that have a row
  stored,     \* the column oauth_status of each
  client,     \* the services with a client_id of their own
  vault,      \* the tokens of each service
  locked,     \* the vault is locked
  phase,      \* where each flow is; "open" is to be in pendingFlows
  owner,      \* the service it is for
  exchanges,  \* the exchanges under way for it
  refresh,    \* the service each use of getValidAccessToken refreshes
  ended       \* history: services disconnected with no call under way

vars == <<rows, stored, client, vault, locked, phase, owner, exchanges, refresh, ended>>
flowVars == <<phase, owner, exchanges>>

OauthStatus == {"disconnected", "pending", "connected", "needs-reauth", "needs-client-id"}
Tokens == {"none", "fresh", "expired"}
Phases == {"unused", "starting", "registering", "open"}

TypeOK ==
  /\ rows \subseteq Mcps /\ client \subseteq Services /\ ended \subseteq Services
  /\ stored \in [Mcps -> OauthStatus]
  /\ vault \in [Services -> Tokens]
  /\ locked \in BOOLEAN
  /\ phase \in [Flows -> Phases]
  /\ owner \in [Flows -> Services]
  /\ exchanges \in [Flows -> 0..MaxCallbacks]
  /\ refresh \in [Uses -> Services \cup {None}]

(* Nothing is connected yet; ids of rows are never used again.             *)
Init ==
  /\ rows = Mcps /\ client = {} /\ ended = {}
  /\ stored = [m \in Mcps |-> "disconnected"]
  /\ vault = [s \in Services |-> "none"]
  /\ locked = FALSE
  /\ phase = [f \in Flows |-> "unused"]
  /\ owner \in [Flows -> Services]
  /\ exchanges = [f \in Flows |-> 0]
  /\ refresh = [u \in Uses |-> None]

(* setOauthStatus updates the row if there is one; a provider has none.    *)
SetStatus(s, status) ==
  stored' = [m \in Mcps |-> IF m = s /\ s \in rows THEN status ELSE stored[m]]

Open(f) == phase[f] = "open"
FlowActive(s) == \E f \in Flows : Open(f) /\ owner[f] = s

(* What disconnectOauth does not reach: a start that has not opened its    *)
(* flow, a code being exchanged, a refresh.                                *)
CallsOf(s) ==
  \/ \E f \in Flows : owner[f] = s /\ (phase[f] \in {"starting", "registering"} \/ exchanges[f] > 0)
  \/ \E u \in Uses : refresh[u] = s

CloseFlow(f) == phase' = [phase EXCEPT ![f] = IF Open(f) THEN "unused" ELSE @]

(***************************************************************************)
(* startOauth.                                                             *)
(***************************************************************************)

Known(s) == s \in rows \cup Vcs

(* The checks are made before the first await.  A provider without a       *)
(* client_id is answered at once; an MCP without one registers a client.   *)
StartOauth(s, f) ==
  /\ ~locked /\ Known(s) /\ ~FlowActive(s)
  /\ s \in Vcs => s \in client
  /\ phase[f] = "unused" /\ exchanges[f] = 0
  /\ phase' = [phase EXCEPT ![f] = IF s \in client THEN "starting" ELSE "registering"]
  /\ owner' = [owner EXCEPT ![f] = s]
  /\ ended' = ended \ {s}
  /\ UNCHANGED <<rows, stored, client, vault, locked, exchanges, refresh>>

(* No metadata, or no port.                                                *)
StartFails(f) ==
  /\ phase[f] \in {"starting", "registering"}
  /\ phase' = [phase EXCEPT ![f] = "unused"]
  /\ UNCHANGED <<rows, stored, client, vault, locked, owner, exchanges, refresh, ended>>

NeedsClientId(f) ==
  /\ phase[f] = "registering"
  /\ phase' = [phase EXCEPT ![f] = "unused"]
  /\ SetStatus(owner[f], "needs-client-id")
  /\ UNCHANGED <<rows, client, vault, locked, owner, exchanges, refresh, ended>>

(* The flow enters pendingFlows without looking there again.               *)
OpenFlow(f) ==
  /\ phase[f] \in {"starting", "registering"}
  /\ phase' = [phase EXCEPT ![f] = "open"]
  /\ SetStatus(owner[f], "pending")
  /\ UNCHANGED <<rows, client, vault, locked, owner, exchanges, refresh, ended>>

(***************************************************************************)
(* The callback server of a flow.                                          *)
(***************************************************************************)

(* The browser brings no code, or another state.                           *)
Refused(f) ==
  /\ Open(f)
  /\ CloseFlow(f)
  /\ SetStatus(owner[f], "disconnected")
  /\ UNCHANGED <<rows, client, vault, locked, owner, exchanges, refresh, ended>>

(* A code; the page may be loaded again while the first is exchanged.      *)
Callback(f) ==
  /\ Open(f) /\ exchanges[f] < MaxCallbacks
  /\ exchanges' = [exchanges EXCEPT ![f] = @ + 1]
  /\ UNCHANGED <<rows, stored, client, vault, locked, phase, owner, refresh, ended>>

(* finally: the flow is closed, if it still is in pendingFlows.            *)
ExchangeEnds(f) ==
  /\ exchanges[f] > 0
  /\ exchanges' = [exchanges EXCEPT ![f] = @ - 1]
  /\ CloseFlow(f)

(* Mutant: the status is written whether or not the vault took the tokens. *)
SavedBestEffort(s) ==
  IF locked THEN UNCHANGED vault ELSE vault' = [vault EXCEPT ![s] = "fresh"]

(* setSecret throws while the vault is locked.                             *)
SaveTokens(s) == ~locked /\ vault' = [vault EXCEPT ![s] = "fresh"]

ExchangeSucceeds(f) ==
  /\ ExchangeEnds(f)
  /\ SaveTokens(owner[f])
  /\ SetStatus(owner[f], "connected")
  /\ UNCHANGED <<rows, client, locked, owner, refresh, ended>>

(* The provider refuses, or saveTokens throws.                             *)
ExchangeFails(f) ==
  /\ ExchangeEnds(f)
  /\ SetStatus(owner[f], "disconnected")
  /\ UNCHANGED <<rows, client, vault, locked, owner, refresh, ended>>

(* Mutant: a flow whose code has come is left to its exchange.             *)
ExpiresUnanswered(f) == Open(f) /\ exchanges[f] = 0

(* The timer of FLOW_TTL_MS.                                               *)
Expires(f) == Open(f)

FlowTimeout(f) ==
  /\ Expires(f)
  /\ CloseFlow(f)
  /\ UNCHANGED <<rows, stored, client, vault, locked, owner, exchanges, refresh, ended>>

(***************************************************************************)
(* The user.  Every route is guarded by the lock of the vault.             *)
(***************************************************************************)

(* Mutant: the flow is left to its timer.                                  *)
NoFlowClosed(s) == phase

FlowsWithout(s) == [f \in Flows |-> IF Open(f) /\ owner[f] = s THEN "unused" ELSE phase[f]]

DisconnectOauth(s) ==
  /\ ~locked
  /\ vault' = [vault EXCEPT ![s] = "none"]
  /\ SetStatus(s, "disconnected")
  /\ phase' = FlowsWithout(s)
  /\ ended' = IF CallsOf(s) THEN ended ELSE ended \cup {s}
  /\ UNCHANGED <<rows, client, locked, owner, exchanges, refresh>>

(* The body is awaited after the guard; only a provider's id is a secret.  *)
SaveClientId(s) ==
  /\ Known(s) /\ (locked => s \in Mcps)
  /\ client' = client \cup {s}
  /\ SetStatus(s, "disconnected")
  /\ UNCHANGED <<rows, vault, locked, flowVars, refresh, ended>>

(* The row goes; its tokens and its flows stay.                            *)
DeleteMcp(m) ==
  /\ ~locked /\ m \in rows
  /\ rows' = rows \ {m}
  /\ UNCHANGED <<stored, client, vault, locked, flowVars, refresh, ended>>

(***************************************************************************)
(* getValidAccessToken, from a turn (prepareMcpsForDispatch) or a push     *)
(* (resolveVcsToken).  Without tokens, or with fresh ones, nothing changes.*)
(***************************************************************************)

(* An MCP whose tokens cannot be refreshed: no refresh token.              *)
CannotRefresh(m) ==
  /\ ~locked /\ vault[m] = "expired"
  /\ SetStatus(m, "needs-reauth")
  /\ UNCHANGED <<rows, client, vault, locked, flowVars, refresh, ended>>

BeginRefresh(u, s) ==
  /\ ~locked /\ Known(s) /\ vault[s] = "expired" /\ refresh[u] = None
  /\ s \in Vcs => s \in client
  /\ refresh' = [refresh EXCEPT ![u] = s]
  /\ UNCHANGED <<rows, stored, client, vault, locked, flowVars, ended>>

RefreshSucceeds(u) ==
  /\ refresh[u] # None
  /\ SaveTokens(refresh[u])
  /\ refresh' = [refresh EXCEPT ![u] = None]
  /\ UNCHANGED <<rows, stored, client, locked, flowVars, ended>>

(* The catch: an MCP is marked, the tokens of a provider are deleted       *)
(* (deleteSecret throws while the vault is locked).                        *)
RefreshFails(u) ==
  /\ refresh[u] # None
  /\ IF refresh[u] \in Mcps
     THEN SetStatus(refresh[u], "needs-reauth") /\ UNCHANGED vault
     ELSE /\ vault' = IF locked THEN vault ELSE [vault EXCEPT ![refresh[u]] = "none"]
          /\ UNCHANGED stored
  /\ refresh' = [refresh EXCEPT ![u] = None]
  /\ UNCHANGED <<rows, client, locked, flowVars, ended>>

TokensExpire(s) ==
  /\ vault[s] = "fresh"
  /\ vault' = [vault EXCEPT ![s] = "expired"]
  /\ UNCHANGED <<rows, stored, client, locked, flowVars, refresh, ended>>

(***************************************************************************)
(* The vault and the process.                                              *)
(***************************************************************************)

Lock ==
  /\ ~locked /\ locked' = TRUE
  /\ UNCHANGED <<rows, stored, client, vault, flowVars, refresh, ended>>

Unlock ==
  /\ locked /\ locked' = FALSE
  /\ UNCHANGED <<rows, stored, client, vault, flowVars, refresh, ended>>

(* The process ends and is started again, with a locked vault.             *)
Restart ==
  /\ locked' = TRUE
  /\ phase' = [f \in Flows |-> "unused"]
  /\ exchanges' = [f \in Flows |-> 0]
  /\ refresh' = [u \in Uses |-> None]
  /\ UNCHANGED <<rows, stored, client, vault, owner, ended>>

FlowStep(f) ==
  \/ \E s \in Services : StartOauth(s, f)
  \/ StartFails(f) \/ NeedsClientId(f) \/ OpenFlow(f)
  \/ Refused(f) \/ Callback(f) \/ ExchangeSucceeds(f) \/ ExchangeFails(f) \/ FlowTimeout(f)

UseStep(u) ==
  (\E s \in Services : BeginRefresh(u, s)) \/ RefreshSucceeds(u) \/ RefreshFails(u)

Next ==
  \/ \E f \in Flows : FlowStep(f)
  \/ \E u \in Uses : UseStep(u)
  \/ \E s \in Services : DisconnectOauth(s) \/ SaveClientId(s) \/ TokensExpire(s)
  \/ \E m \in Mcps : DeleteMcp(m) \/ CannotRefresh(m)
  \/ Lock \/ Unlock \/ Restart

(* The timers of the process fire.  Nothing is assumed of the browser, of  *)
(* a provider or of a fetch, which has no timeout.                         *)
Spec == Init /\ [][Next]_vars /\ \A f \in Flows : WF_vars(FlowTimeout(f))
-----------------------------------------------------------------------------
(***************************************************************************)
(* Properties.                                                             *)
(***************************************************************************)

(* An MCP that reads connected has tokens in the vault, whatever exchanges,*)
(* refreshes, disconnects and locks of the vault crossed: the turn and the *)
(* screen trust the column without opening the vault (needsCredential).    *)
ConnectedHasTokens ==
  \A m \in rows : stored[m] = "connected" => vault[m] # "none"

(* Cancelling is final when no call was under way: no tokens come back, no *)
(* callback is listened for, and the MCP neither reads connected nor       *)
(* pending until the user connects again.  PRD.md:1003 promises it of every*)
(* cancel; a code already being exchanged is the exception (see CallsOf).  *)
DisconnectHolds ==
  \A s \in ended :
    /\ vault[s] = "none" /\ ~FlowActive(s)
    /\ s \in rows => stored[s] \notin {"connected", "pending"}

(* "A connection is already under way" does not last: also with two starts *)
(* that passed the check together, and with an exchange that never answers,*)
(* the user can connect again.                                             *)
RefusalEnds == \A s \in Services : FlowActive(s) ~> ~FlowActive(s)
=============================================================================
