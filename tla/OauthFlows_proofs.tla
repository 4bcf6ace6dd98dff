-------------------------- MODULE OauthFlows_proofs --------------------------
(***************************************************************************)
(* Proofs about OauthFlows, for any services, flows and bounds.  What the  *)
(* disconnection of a service rests on is that no call of it is under way  *)
(* from then on: only StartOauth begins one without tokens.                *)
(***************************************************************************)
EXTENDS OauthFlows, TLAPS

-----------------------------------------------------------------------------
(***************************************************************************)
(* Helpers.                                                                *)
(***************************************************************************)

(* A status is written to the row of its service and nowhere else.         *)
LEMMA Status ==
  ASSUME TypeOK, NEW s, NEW status \in OauthStatus, SetStatus(s, status)
  PROVE  /\ stored' \in [Mcps -> OauthStatus]
         /\ \A m \in Mcps : stored'[m] = IF m = s /\ s \in rows THEN status ELSE stored[m]
BY DEF TypeOK, SetStatus

(* Closing a flow opens none and starts none.                              *)
LEMMA Closed ==
  ASSUME TypeOK, NEW f \in Flows, CloseFlow(f)
  PROVE  /\ phase' \in [Flows -> Phases]
         /\ \A g \in Flows : phase'[g] = phase[g] \/ phase'[g] = "unused"
BY DEF TypeOK, CloseFlow, Phases

LEMMA TypeInit == Init => TypeOK
<1> SUFFICES ASSUME Init PROVE TypeOK
  OBVIOUS
<1>1. 0 \in 0..MaxCallbacks
  BY OauthAssumption
<1>2. exchanges \in [Flows -> 0..MaxCallbacks]
  BY <1>1 DEF Init
<1>3. stored \in [Mcps -> OauthStatus] /\ vault \in [Services -> Tokens] /\ phase \in [Flows -> Phases]
  BY DEF Init, OauthStatus, Tokens, Phases
<1> QED BY <1>2, <1>3 DEF Init, TypeOK

LEMMA TypeNext == TypeOK /\ [Next]_vars => TypeOK'
<1> SUFFICES ASSUME TypeOK, [Next]_vars PROVE TypeOK'
  OBVIOUS
<1> USE OauthAssumption
<1>s. /\ \A x \in OauthStatus : x \in OauthStatus
      /\ {"disconnected", "pending", "connected", "needs-reauth", "needs-client-id"} \subseteq OauthStatus
  BY DEF OauthStatus
<1>t. rows \subseteq Mcps /\ Mcps \subseteq Services /\ Vcs \subseteq Services
  BY DEF TypeOK, Services
<1>1. ASSUME NEW f \in Flows, NEW s \in Services, StartOauth(s, f) PROVE TypeOK'
  BY <1>1 DEF StartOauth, TypeOK, Phases
<1>2. ASSUME NEW f \in Flows, StartFails(f) PROVE TypeOK'
  BY <1>2 DEF StartFails, TypeOK, Phases
<1>3. ASSUME NEW f \in Flows, NeedsClientId(f) PROVE TypeOK'
  <2>1. stored' \in [Mcps -> OauthStatus]
    BY <1>3, <1>s, Status DEF NeedsClientId
  <2> QED BY <1>3, <2>1 DEF NeedsClientId, TypeOK, Phases
<1>4. ASSUME NEW f \in Flows, OpenFlow(f) PROVE TypeOK'
  <2>1. stored' \in [Mcps -> OauthStatus]
    BY <1>4, <1>s, Status DEF OpenFlow
  <2> QED BY <1>4, <2>1 DEF OpenFlow, TypeOK, Phases
<1>5. ASSUME NEW f \in Flows, Refused(f) PROVE TypeOK'
  <2>1. stored' \in [Mcps -> OauthStatus] /\ phase' \in [Flows -> Phases]
    BY <1>5, <1>s, Status, Closed DEF Refused
  <2> QED BY <1>5, <2>1 DEF Refused, TypeOK
<1>6. ASSUME NEW f \in Flows, Callback(f) PROVE TypeOK'
  BY <1>6 DEF Callback, TypeOK
<1>7. ASSUME NEW f \in Flows, ExchangeSucceeds(f) PROVE TypeOK'
  <2>1. stored' \in [Mcps -> OauthStatus] /\ phase' \in [Flows -> Phases]
    BY <1>7, <1>s, Status, Closed DEF ExchangeSucceeds, ExchangeEnds
  <2>2. exchanges' \in [Flows -> 0..MaxCallbacks]
    BY <1>7 DEF ExchangeSucceeds, ExchangeEnds, TypeOK
  <2> QED BY <1>7, <2>1, <2>2 DEF ExchangeSucceeds, SaveTokens, TypeOK, Tokens
<1>8. ASSUME NEW f \in Flows, ExchangeFails(f) PROVE TypeOK'
  <2>1. stored' \in [Mcps -> OauthStatus] /\ phase' \in [Flows -> Phases]
    BY <1>8, <1>s, Status, Closed DEF ExchangeFails, ExchangeEnds
  <2>2. exchanges' \in [Flows -> 0..MaxCallbacks]
    BY <1>8 DEF ExchangeFails, ExchangeEnds, TypeOK
  <2> QED BY <1>8, <2>1, <2>2 DEF ExchangeFails, TypeOK
<1>9. ASSUME NEW f \in Flows, FlowTimeout(f) PROVE TypeOK'
  BY <1>9, Closed DEF FlowTimeout, TypeOK
<1>10. ASSUME NEW u \in Uses, NEW s \in Services, BeginRefresh(u, s) PROVE TypeOK'
  BY <1>10 DEF BeginRefresh, TypeOK, flowVars
<1>11. ASSUME NEW u \in Uses, RefreshSucceeds(u) PROVE TypeOK'
  BY <1>11 DEF RefreshSucceeds, SaveTokens, TypeOK, Tokens, flowVars
<1>12. ASSUME NEW u \in Uses, RefreshFails(u) PROVE TypeOK'
  <2>1. stored' \in [Mcps -> OauthStatus]
    <3>1. CASE refresh[u] \in Mcps
      BY <1>12, <3>1, <1>s, Status DEF RefreshFails
    <3>2. CASE refresh[u] \notin Mcps
      BY <1>12, <3>2 DEF RefreshFails, TypeOK
    <3> QED BY <3>1, <3>2
  <2>2. vault' \in [Services -> Tokens]
    BY <1>12 DEF RefreshFails, TypeOK, Tokens
  <2> QED BY <1>12, <2>1, <2>2 DEF RefreshFails, TypeOK, flowVars
<1>13. ASSUME NEW s \in Services, DisconnectOauth(s) PROVE TypeOK'
  <2>1. stored' \in [Mcps -> OauthStatus]
    BY <1>13, <1>s, Status DEF DisconnectOauth
  <2> QED BY <1>13, <2>1 DEF DisconnectOauth, FlowsWithout, TypeOK, Phases, Tokens
<1>14. ASSUME NEW s \in Services, SaveClientId(s) PROVE TypeOK'
  <2>1. stored' \in [Mcps -> OauthStatus]
    BY <1>14, <1>s, Status DEF SaveClientId
  <2> QED BY <1>14, <2>1 DEF SaveClientId, TypeOK, flowVars
<1>15. ASSUME NEW s \in Services, TokensExpire(s) PROVE TypeOK'
  BY <1>15 DEF TokensExpire, TypeOK, Tokens, flowVars
<1>16. ASSUME NEW m \in Mcps, DeleteMcp(m) PROVE TypeOK'
  BY <1>16 DEF DeleteMcp, TypeOK, flowVars
<1>17. ASSUME NEW m \in Mcps, CannotRefresh(m) PROVE TypeOK'
  <2>1. stored' \in [Mcps -> OauthStatus]
    BY <1>17, <1>s, Status DEF CannotRefresh
  <2> QED BY <1>17, <2>1 DEF CannotRefresh, TypeOK, flowVars
<1>18. CASE Lock \/ Unlock
  BY <1>18 DEF Lock, Unlock, TypeOK, flowVars
<1>19. CASE Restart
  BY <1>19 DEF Restart, TypeOK, Phases
<1>20. CASE UNCHANGED vars
  BY <1>20 DEF vars, TypeOK
<1> QED BY <1>1, <1>2, <1>3, <1>4, <1>5, <1>6, <1>7, <1>8, <1>9, <1>10, <1>11, <1>12, <1>13, <1>14,
           <1>15, <1>16, <1>17, <1>18, <1>19, <1>20 DEF Next, FlowStep, UseStep

(* Type correctness, for any services, flows and bounds.                   *)
THEOREM TypeCorrect == Spec => []TypeOK
BY TypeInit, TypeNext, PTL DEF Spec

-----------------------------------------------------------------------------
(***************************************************************************)
(* A connected MCP has tokens.                                             *)
(***************************************************************************)

(* A step that writes another status and keeps the vault.                  *)
LEMMA OtherStatus ==
  ASSUME TypeOK, ConnectedHasTokens, NEW s, NEW status \in OauthStatus \ {"connected"},
         SetStatus(s, status), rows' = rows, vault' = vault
  PROVE  ConnectedHasTokens'
<1>1. \A m \in Mcps : stored'[m] = IF m = s /\ s \in rows THEN status ELSE stored[m]
  BY Status
<1> QED BY <1>1 DEF ConnectedHasTokens, TypeOK

LEMMA ConnectedNext == TypeOK /\ ConnectedHasTokens /\ [Next]_vars => ConnectedHasTokens'
<1> SUFFICES ASSUME TypeOK, ConnectedHasTokens, [Next]_vars PROVE ConnectedHasTokens'
  OBVIOUS
<1>s. {"disconnected", "pending", "needs-reauth", "needs-client-id"} \subseteq OauthStatus \ {"connected"}
  BY DEF OauthStatus
<1>t. rows \subseteq Mcps /\ Mcps \subseteq Services
  BY DEF TypeOK, Services
<1>1. CASE rows' \subseteq rows /\ stored' = stored /\ vault' = vault
  BY <1>1 DEF ConnectedHasTokens
<1>2. ASSUME NEW f \in Flows, NEW s \in Services, StartOauth(s, f) PROVE ConnectedHasTokens'
  BY <1>1, <1>2 DEF StartOauth
<1>3. ASSUME NEW f \in Flows, StartFails(f) \/ Callback(f) \/ FlowTimeout(f) PROVE ConnectedHasTokens'
  BY <1>1, <1>3 DEF StartFails, Callback, FlowTimeout
<1>4. ASSUME NEW f \in Flows, NeedsClientId(f) PROVE ConnectedHasTokens'
  BY <1>4, <1>s, OtherStatus DEF NeedsClientId
<1>5. ASSUME NEW f \in Flows, OpenFlow(f) PROVE ConnectedHasTokens'
  BY <1>5, <1>s, OtherStatus DEF OpenFlow
<1>6. ASSUME NEW f \in Flows, Refused(f) PROVE ConnectedHasTokens'
  BY <1>6, <1>s, OtherStatus DEF Refused
<1>7. ASSUME NEW f \in Flows, ExchangeSucceeds(f) PROVE ConnectedHasTokens'
  <2>1. /\ rows' = rows
        /\ vault' = [vault EXCEPT ![owner[f]] = "fresh"]
        /\ SetStatus(owner[f], "connected")
    BY <1>7 DEF ExchangeSucceeds, SaveTokens
  <2>2. \A m \in rows : vault'[m] = IF m = owner[f] THEN "fresh" ELSE vault[m]
    BY <2>1, <1>t DEF TypeOK
  <2>3. \A m \in rows : m # owner[f] => stored'[m] = stored[m]
    BY <2>1, <1>t DEF SetStatus
  <2> QED BY <2>1, <2>2, <2>3 DEF ConnectedHasTokens
<1>8. ASSUME NEW f \in Flows, ExchangeFails(f) PROVE ConnectedHasTokens'
  BY <1>8, <1>s, OtherStatus DEF ExchangeFails
<1>9. ASSUME NEW u \in Uses, NEW s \in Services, BeginRefresh(u, s) PROVE ConnectedHasTokens'
  BY <1>1, <1>9 DEF BeginRefresh
<1>10. ASSUME NEW u \in Uses, RefreshSucceeds(u) PROVE ConnectedHasTokens'
  <2>1. /\ rows' = rows /\ stored' = stored
        /\ vault' = [vault EXCEPT ![refresh[u]] = "fresh"]
    BY <1>10 DEF RefreshSucceeds, SaveTokens
  <2>2. \A m \in rows : vault'[m] = "fresh" \/ vault'[m] = vault[m]
    BY <2>1, <1>t DEF TypeOK
  <2> QED BY <2>1, <2>2 DEF ConnectedHasTokens
<1>11. ASSUME NEW u \in Uses, RefreshFails(u) PROVE ConnectedHasTokens'
  <2>1. CASE refresh[u] \in Mcps
    BY <1>11, <2>1, <1>s, OtherStatus DEF RefreshFails
  <2>2. CASE refresh[u] \notin Mcps
    <3>1. \A m \in rows : vault'[m] = vault[m]
      BY <1>11, <2>2, <1>t DEF RefreshFails, TypeOK
    <3> QED BY <1>11, <2>2, <3>1 DEF RefreshFails, ConnectedHasTokens
  <2> QED BY <2>1, <2>2
<1>12. ASSUME NEW s \in Services, DisconnectOauth(s) PROVE ConnectedHasTokens'
  <2>1. /\ rows' = rows /\ vault' = [vault EXCEPT ![s] = "none"]
        /\ SetStatus(s, "disconnected")
    BY <1>12 DEF DisconnectOauth
  <2>2. \A m \in rows : /\ m = s => stored'[m] = "disconnected"
                        /\ m # s => stored'[m] = stored[m] /\ vault'[m] = vault[m]
    BY <2>1, <1>t DEF SetStatus, TypeOK
  <2> QED BY <2>1, <2>2 DEF ConnectedHasTokens
<1>13. ASSUME NEW s \in Services, SaveClientId(s) PROVE ConnectedHasTokens'
  BY <1>13, <1>s, OtherStatus DEF SaveClientId
<1>14. ASSUME NEW s \in Services, TokensExpire(s) PROVE ConnectedHasTokens'
  <2>1. \A m \in rows : vault'[m] = "expired" \/ vault'[m] = vault[m]
    BY <1>14, <1>t DEF TokensExpire, TypeOK
  <2> QED BY <1>14, <2>1 DEF TokensExpire, ConnectedHasTokens
<1>15. ASSUME NEW m \in Mcps, DeleteMcp(m) PROVE ConnectedHasTokens'
  BY <1>1, <1>15 DEF DeleteMcp
<1>16. ASSUME NEW m \in Mcps, CannotRefresh(m) PROVE ConnectedHasTokens'
  BY <1>16, <1>s, OtherStatus DEF CannotRefresh
<1>17. CASE Lock \/ Unlock \/ Restart \/ UNCHANGED vars
  BY <1>1, <1>17 DEF Lock, Unlock, Restart, vars
<1> QED BY <1>2, <1>3, <1>4, <1>5, <1>6, <1>7, <1>8, <1>9, <1>10, <1>11, <1>12, <1>13, <1>14, <1>15,
           <1>16, <1>17 DEF Next, FlowStep, UseStep

(* An MCP that reads connected has tokens in the vault.                    *)
THEOREM Connected == Spec => []ConnectedHasTokens
<1>1. Init => ConnectedHasTokens
  BY DEF Init, ConnectedHasTokens
<1> QED BY <1>1, TypeInit, TypeNext, ConnectedNext, PTL DEF Spec

-----------------------------------------------------------------------------
(***************************************************************************)
(* A disconnection holds.                                                  *)
(***************************************************************************)

Rests(s) ==
  /\ vault[s] = "none" /\ ~FlowActive(s) /\ ~CallsOf(s)
  /\ s \in rows => stored[s] \notin {"connected", "pending"}

(* The inductive invariant behind DisconnectHolds.                         *)
RestInv == TypeOK /\ \A s \in ended : Rests(s)

(* A service at rest has no flow, no exchange and no refresh.              *)
LEMMA Away ==
  ASSUME TypeOK, \A s \in ended : Rests(s)
  PROVE  /\ \A f \in Flows : phase[f] # "unused" \/ exchanges[f] > 0 => owner[f] \notin ended
         /\ \A u \in Uses : refresh[u] # None => refresh[u] \notin ended
         /\ \A s \in ended : vault[s] = "none"
<1>1. ASSUME NEW f \in Flows, owner[f] \in ended PROVE phase[f] = "unused" /\ ~(exchanges[f] > 0)
  BY <1>1 DEF TypeOK, Phases, Rests, FlowActive, CallsOf, Open
<1>2. ASSUME NEW u \in Uses, refresh[u] \in ended PROVE FALSE
  BY <1>2 DEF Rests, CallsOf
<1>3. \A u \in Uses : refresh[u] # None => refresh[u] \notin ended
  BY <1>2
<1> QED BY <1>1, <1>3 DEF Rests

(* What a step must leave alone for a service to stay at rest.             *)
LEMMA StaysAtRest ==
  ASSUME TypeOK, NEW s \in Services, Rests(s),
         vault'[s] = "none",
         s \in rows' => s \in rows /\ (stored'[s] = stored[s] \/ stored'[s] \notin {"connected", "pending"}),
         \A f \in Flows : owner'[f] = s =>
           /\ owner[f] = s
           /\ phase'[f] = phase[f] \/ phase'[f] = "unused"
           /\ exchanges'[f] > 0 => exchanges[f] > 0,
         \A u \in Uses : refresh'[u] = s => refresh[u] = s
  PROVE  Rests(s)'
<1>1. ~FlowActive(s)'
  BY DEF Rests, FlowActive, Open
<1>2. ~CallsOf(s)'
  BY DEF Rests, CallsOf
<1> QED BY <1>1, <1>2 DEF Rests

(* A step that touches no flow and no refresh, and writes at most a status *)
(* of rest.                                                                *)
LEMMA QuietStep ==
  ASSUME TypeOK, NEW s \in Services, Rests(s), vault'[s] = "none", rows' \subseteq rows,
         UNCHANGED <<flowVars, refresh>>,
         s \in rows => stored'[s] = stored[s] \/ stored'[s] \notin {"connected", "pending"}
  PROVE  Rests(s)'
BY StaysAtRest DEF flowVars

LEMMA RestNext ==
  ASSUME TypeOK, \A s \in ended : Rests(s), [Next]_vars
  PROVE  \A s \in ended' : Rests(s)'
<1> SUFFICES ASSUME NEW r \in ended' PROVE Rests(r)'
  OBVIOUS
<1> USE OauthAssumption
<1>s. {"disconnected", "needs-reauth", "needs-client-id"} \subseteq OauthStatus \ {"connected", "pending"}
  BY DEF OauthStatus
<1>p. {"connected", "pending"} \subseteq OauthStatus
  BY DEF OauthStatus
<1>t. /\ rows \subseteq Mcps /\ Mcps \subseteq Services /\ Vcs \subseteq Services
      /\ ended \subseteq Services
  BY DEF TypeOK, Services
<1>1. ASSUME NEW f \in Flows, NEW s \in Services, StartOauth(s, f) PROVE Rests(r)'
  <2>1. r \in ended /\ r # s /\ vault'[r] = "none"
    BY <1>1, Away DEF StartOauth
  <2>2. \A g \in Flows : owner'[g] = r => g # f
    BY <1>1, <2>1 DEF StartOauth, TypeOK
  <2>3. \A g \in Flows : owner'[g] = r => /\ owner[g] = r /\ phase'[g] = phase[g]
                                          /\ exchanges'[g] = exchanges[g]
    BY <1>1, <2>2 DEF StartOauth, TypeOK
  <2> QED BY <1>1, <1>t, <2>1, <2>3, StaysAtRest DEF StartOauth
<1>2. ASSUME NEW f \in Flows, StartFails(f) \/ FlowTimeout(f) PROVE Rests(r)'
  <2>1. r \in ended /\ vault'[r] = "none"
    BY <1>2, Away DEF StartFails, FlowTimeout
  <2>2. \A g \in Flows : phase'[g] = phase[g] \/ phase'[g] = "unused"
    BY <1>2, Closed DEF StartFails, FlowTimeout, TypeOK
  <2> QED BY <1>2, <1>t, <2>1, <2>2, StaysAtRest DEF StartFails, FlowTimeout
<1>3. ASSUME NEW f \in Flows, NeedsClientId(f) \/ OpenFlow(f) PROVE Rests(r)'
  <2>1. r \in ended /\ vault'[r] = "none" /\ owner[f] # r
    BY <1>3, Away DEF NeedsClientId, OpenFlow
  <2>2. \A g \in Flows : owner'[g] = r => owner[g] = r /\ phase'[g] = phase[g]
    BY <1>3, <2>1 DEF NeedsClientId, OpenFlow, TypeOK
  <2>3. r \in rows => stored'[r] = stored[r]
    BY <1>3, <1>t, <2>1 DEF NeedsClientId, OpenFlow, SetStatus
  <2> QED BY <1>3, <1>t, <2>1, <2>2, <2>3, StaysAtRest DEF NeedsClientId, OpenFlow
<1>4. ASSUME NEW f \in Flows, Callback(f) PROVE Rests(r)'
  <2>1. r \in ended /\ vault'[r] = "none" /\ owner[f] # r
    BY <1>4, Away DEF Callback, Open
  <2>2. \A g \in Flows : owner'[g] = r => owner[g] = r /\ exchanges'[g] = exchanges[g]
    BY <1>4, <2>1 DEF Callback, TypeOK
  <2> QED BY <1>4, <1>t, <2>1, <2>2, StaysAtRest DEF Callback
<1>5. ASSUME NEW f \in Flows, Refused(f) \/ ExchangeSucceeds(f) \/ ExchangeFails(f) PROVE Rests(r)'
  <2>1. r \in ended /\ owner[f] # r
    BY <1>5, Away DEF Refused, ExchangeSucceeds, ExchangeFails, ExchangeEnds, Open
  <2>2. vault'[r] = "none"
    BY <1>5, <1>t, <2>1, Away DEF Refused, ExchangeSucceeds, SaveTokens, ExchangeFails, TypeOK
  <2>3. \A g \in Flows : owner'[g] = r => owner[g] = r /\ exchanges'[g] = exchanges[g]
    BY <1>5, <2>1 DEF Refused, ExchangeSucceeds, ExchangeFails, ExchangeEnds, TypeOK
  <2>4. \A g \in Flows : phase'[g] = phase[g] \/ phase'[g] = "unused"
    BY <1>5, Closed DEF Refused, ExchangeSucceeds, ExchangeFails, ExchangeEnds
  <2>5. r \in rows => stored'[r] = stored[r]
    BY <1>5, <1>t, <2>1 DEF Refused, ExchangeSucceeds, ExchangeFails, SetStatus
  <2> QED BY <1>5, <1>t, <2>1, <2>2, <2>3, <2>4, <2>5, StaysAtRest
          DEF Refused, ExchangeSucceeds, ExchangeFails
<1>6. ASSUME NEW u \in Uses, NEW s \in Services, BeginRefresh(u, s) PROVE Rests(r)'
  <2>1. r \in ended /\ vault'[r] = "none" /\ r # s
    BY <1>6, Away DEF BeginRefresh
  <2>2. \A v \in Uses : refresh'[v] = r => refresh[v] = r
    BY <1>6, <2>1 DEF BeginRefresh, TypeOK
  <2> QED BY <1>6, <1>t, <2>1, <2>2, StaysAtRest DEF BeginRefresh, flowVars
<1>7. ASSUME NEW u \in Uses, RefreshSucceeds(u) \/ RefreshFails(u) PROVE Rests(r)'
  <2>1. r \in ended /\ refresh[u] # r /\ vault[r] = "none"
    BY <1>7, Away DEF RefreshSucceeds, RefreshFails
  <2>2. vault'[r] = "none"
    BY <1>7, <1>t, <2>1 DEF RefreshSucceeds, SaveTokens, RefreshFails, TypeOK
  <2>3. \A v \in Uses : refresh'[v] = r => refresh[v] = r
    BY <1>7, <1>t, <2>1 DEF RefreshSucceeds, RefreshFails, TypeOK
  <2>4. r \in rows => stored'[r] = stored[r]
    BY <1>7, <1>t, <2>1 DEF RefreshSucceeds, RefreshFails, SetStatus
  <2> QED BY <1>7, <1>t, <2>1, <2>2, <2>3, <2>4, StaysAtRest
          DEF RefreshSucceeds, RefreshFails, flowVars
<1>8. ASSUME NEW s \in Services, DisconnectOauth(s) PROVE Rests(r)'
  <2>1. \A g \in Flows : /\ phase'[g] = phase[g] \/ phase'[g] = "unused"
                         /\ owner[g] = s => phase'[g] # "open"
    BY <1>8 DEF DisconnectOauth, FlowsWithout, TypeOK, Open
  <2>2. CASE r = s /\ r \notin ended
    <3>1. ~CallsOf(s)
      BY <1>8, <2>2 DEF DisconnectOauth
    <3>2. ~CallsOf(s)'
      BY <1>8, <2>1, <3>1 DEF DisconnectOauth, CallsOf
    <3>3. ~FlowActive(s)'
      BY <1>8, <2>1 DEF DisconnectOauth, FlowActive, Open
    <3>4. vault'[s] = "none" /\ (s \in rows' => stored'[s] = "disconnected")
      BY <1>8, <1>t DEF DisconnectOauth, SetStatus, TypeOK
    <3> QED BY <2>2, <3>2, <3>3, <3>4 DEF Rests
  <2>3. CASE r \in ended
    <3>1. vault'[r] = "none"
      BY <1>8, <1>t, <2>3, Away DEF DisconnectOauth, TypeOK
    <3>2. r \in rows => stored'[r] = stored[r] \/ stored'[r] = "disconnected"
      BY <1>8, <1>t DEF DisconnectOauth, SetStatus
    <3> QED BY <1>8, <1>t, <2>1, <2>3, <3>1, <3>2, StaysAtRest DEF DisconnectOauth
  <2> QED BY <1>8, <2>2, <2>3 DEF DisconnectOauth
<1>9. ASSUME NEW s \in Services, SaveClientId(s) \/ CannotRefresh(s) PROVE Rests(r)'
  <2>1. r \in ended /\ vault'[r] = "none"
    BY <1>9, Away DEF SaveClientId, CannotRefresh
  <2>2. r \in rows => stored'[r] \in {stored[r], "disconnected", "needs-reauth"}
    BY <1>9, <1>t DEF SaveClientId, CannotRefresh, SetStatus
  <2> QED BY <1>9, <1>t, <2>1, <2>2, QuietStep DEF SaveClientId, CannotRefresh
<1>10. ASSUME NEW s \in Services, TokensExpire(s) PROVE Rests(r)'
  <2>1. r \in ended /\ vault'[r] = "none"
    BY <1>10, <1>t, Away DEF TokensExpire, TypeOK
  <2> QED BY <1>10, <1>t, <2>1, QuietStep DEF TokensExpire
<1>11. ASSUME NEW m \in Mcps, DeleteMcp(m) PROVE Rests(r)'
  <2>1. r \in ended /\ vault'[r] = "none" /\ rows' \subseteq rows
    BY <1>11, Away DEF DeleteMcp
  <2> QED BY <1>11, <1>t, <2>1, QuietStep DEF DeleteMcp
<1>12. CASE Lock \/ Unlock \/ UNCHANGED vars
  <2>1. r \in ended /\ vault'[r] = "none"
    BY <1>12, Away DEF Lock, Unlock, vars
  <2> QED BY <1>12, <1>t, <2>1, QuietStep DEF Lock, Unlock, vars, flowVars
<1>13. CASE Restart
  <2>1. r \in ended /\ vault'[r] = "none" /\ r # None
    BY <1>13, <1>t, Away DEF Restart
  <2> QED BY <1>13, <1>t, <2>1, StaysAtRest DEF Restart
<1> QED BY <1>t, <1>1, <1>2, <1>3, <1>4, <1>5, <1>6, <1>7, <1>8, <1>9, <1>10, <1>11, <1>12, <1>13
        DEF Next, FlowStep, UseStep

(* Cancelling is final when no call was under way, until the user connects *)
(* again.                                                                  *)
THEOREM Disconnected == Spec => []DisconnectHolds
<1>1. Init => RestInv
  BY TypeInit DEF Init, RestInv
<1>2. RestInv /\ [Next]_vars => RestInv'
  BY TypeNext, RestNext DEF RestInv
<1>3. RestInv => DisconnectHolds
  BY DEF RestInv, DisconnectHolds, Rests
<1> QED BY <1>1, <1>2, <1>3, PTL DEF Spec
=============================================================================
