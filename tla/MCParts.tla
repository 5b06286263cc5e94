------------------------------ MODULE MCParts ---------------------------------
(***************************************************************************)
(* Instances for TLC of the components that share no state with the others *)
(* and work alone: the debounce window, the knowledge base, the login, the *)
(* panel's session and its views, the tools of the bot and the routing of  *)
(* a handoff.  A behaviour is one of one part, chosen at the start.        *)
(***************************************************************************)
EXTENDS Debounce, Knowledge, AdminLogin, PanelSession, PanelViews, AgentTools, HandoffRouting, TLC

CONSTANTS short, empty, longer, shown, bare

VARIABLE part

partsVars == <<part, debounceVars, knowledgeVars, authVars, panelVars, viewVars, agentVars, routingVars>>

-----------------------------------------------------------------------------
(* Values of the constants.                                                *)

PiecesOfDocs == short :> 1 @@ longer :> 2 @@ empty :> 0
PhotosOfUnits == shown :> 3 @@ bare :> 0

Row(active, key, centro, places, phone) ==
    [active |-> active, key |-> key, centro |-> centro, places |-> places, phone |-> phone]

North == Row(TRUE, "north", "n", {"Tampico"}, "p1")
South == Row(TRUE, "south", "s", {"Leon"}, "p2")

BranchSheets ==
    {<<Row(FALSE, "south", "s", {}, "p9"), North, Row(TRUE, "north", "s", {}, "p3"), South, South>>,
     <<North, South, Row(TRUE, "fallback", "none", {}, "p4")>>}

Container(branchKeys, sucursalKeys, centros, cities) ==
    [branch_key : branchKeys, sucursal_key : sucursalKeys, centro : centros, city : cities]

Unnamed == [branch_key |-> "none", sucursal_key |-> "none", centro |-> "none", city |-> "none"]

BranchFields ==
    [context : Container({"none", "north"}, {"none", "south"}, {"none", "s"}, {"none"}),
     attributes : Container({"none", "south"}, {"none", "north"}, {"none", "n", "gone"}, {"none", "Leon"})]

-----------------------------------------------------------------------------
Parts == {"debounce", "knowledge", "auth", "panel", "views", "agent", "routing"}

\* The parts but one do nothing, from one of their initial states.
PartsInit ==
    /\ part \in Parts
    /\ DebounceInit
    /\ KnowledgeInit
    /\ AuthInit /\ user["ana"].exists /\ ~user["luis"].exists /\ (part # "auth" => access = {})
    /\ PanelInit
    /\ ViewInit /\ (part # "views" => view = "csv")
    /\ AgentInit
    /\ RoutingInit /\ (part # "routing" => fields = [context |-> Unnamed, attributes |-> Unnamed]
                                           /\ sheet = <<North, South, Row(TRUE, "fallback", "none", {}, "p4")>>)

PartsNext ==
    \/ /\ part = "debounce" /\ DebounceNext
       /\ UNCHANGED <<part, knowledgeVars, authVars, panelVars, viewVars, agentVars, routingVars>>
    \/ /\ part = "knowledge" /\ KnowledgeNext
       /\ UNCHANGED <<part, debounceVars, authVars, panelVars, viewVars, agentVars, routingVars>>
    \/ /\ part = "auth" /\ AuthNext
       /\ UNCHANGED <<part, debounceVars, knowledgeVars, panelVars, viewVars, agentVars, routingVars>>
    \/ /\ part = "panel" /\ PanelNext
       /\ UNCHANGED <<part, debounceVars, knowledgeVars, authVars, viewVars, agentVars, routingVars>>
    \/ /\ part = "views" /\ ViewNext
       /\ UNCHANGED <<part, debounceVars, knowledgeVars, authVars, panelVars, agentVars, routingVars>>
    \/ /\ part = "agent" /\ AgentNext
       /\ UNCHANGED <<part, debounceVars, knowledgeVars, authVars, panelVars, viewVars, routingVars>>
    \/ /\ part = "routing" /\ RoutingNext
       /\ UNCHANGED <<part, debounceVars, knowledgeVars, authVars, panelVars, viewVars, agentVars>>

PartsSpec == PartsInit /\ [][PartsNext]_partsVars /\ PanelFairness

\* Every part keeps its types.
PartsTypeOK ==
    /\ DebounceTypeOK /\ KnowledgeTypeOK /\ AuthTypeOK /\ PanelTypeOK /\ ViewTypeOK
    /\ AgentTypeOK /\ RoutingTypeOK
=============================================================================
