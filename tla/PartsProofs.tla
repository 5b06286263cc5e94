----------------------------- MODULE PartsProofs ------------------------------
(***************************************************************************)
(* The run of MCParts and the theorems speak of the same specifications:   *)
(* each part of MCParts is its component, so what is proved of a component *)
(* for all values of its constants holds in the run, and every part keeps  *)
(* its types.                                                              *)
(***************************************************************************)
EXTENDS MCParts, DebounceProofs, AdminPanelProofs, BotProofs

\* A step of the parts is a step of one of them, and the others stay.
LEMMA PartsStep ==
  ASSUME [PartsNext]_partsVars
  PROVE  /\ [DebounceNext]_debounceVars
         /\ [KnowledgeNext]_knowledgeVars
         /\ [AuthNext]_authVars
         /\ [PanelNext]_panelVars
         /\ [ViewNext]_viewVars
         /\ [AgentNext]_agentVars
         /\ [RoutingNext]_routingVars
  BY DEF PartsNext, partsVars

LEMMA PartsStart ==
  ASSUME PartsInit
  PROVE  /\ DebounceInit /\ KnowledgeInit /\ AuthInit /\ PanelInit /\ ViewInit
         /\ AgentInit /\ RoutingInit
  BY DEF PartsInit

\* A behaviour of the parts is one of every part: what the theorems say of
\* the components is what the run checks.
THEOREM PartsAreComponents ==
  PartsSpec => /\ DebounceSpec /\ KnowledgeSpec /\ AuthSpec /\ PanelFairSpec /\ ViewSpec
               /\ AgentSpec /\ RoutingSpec
  BY PartsStart, PartsStep, PTL
  DEF PartsSpec, DebounceSpec, KnowledgeSpec, AuthSpec, PanelSpec, PanelFairSpec, ViewSpec,
      AgentSpec, RoutingSpec

\* In any instance of the parts each keeps its types, whatever the others are.
THEOREM PartsTypes == PartsSpec => []PartsTypeOK
<1>1. DebounceSpec => []DebounceTypeOK
  <2>1. WindowInv => DebounceTypeOK
    BY DEF WindowInv
  <2> QED
    BY WindowInit, WindowStep, <2>1, PTL DEF DebounceSpec
<1>2. KnowledgeSpec => []KnowledgeTypeOK
  <2>1. KnowledgeInv => KnowledgeTypeOK
    BY DEF KnowledgeInv
  <2> QED
    BY KnowledgeInvariant, <2>1, PTL
<1>3. AgentSpec => []AgentTypeOK
  <2>1. AgentInv => AgentTypeOK
    BY DEF AgentInv
  <2> QED
    BY AgentInvariant, <2>1, PTL
<1>4. PanelFairSpec => PanelSpec
  BY DEF PanelFairSpec
<1>5. /\ DebounceTypeOK /\ KnowledgeTypeOK /\ AuthTypeOK /\ PanelTypeOK /\ ViewTypeOK
      /\ AgentTypeOK /\ RoutingTypeOK
      => PartsTypeOK
  BY DEF PartsTypeOK
<1> QED
  BY PartsAreComponents, <1>1, <1>2, <1>3, <1>4, <1>5, LoginTypesHold, PanelTypes, ViewTypes,
     RoutingTypes, PTL
=============================================================================
