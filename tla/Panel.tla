-------------------------------- MODULE Panel --------------------------------
(***************************************************************************)
(* The parts of the panel that share no rows, side by side over one kind   *)
(* of database: a behaviour is about one of them, since their product      *)
(* would only multiply them.                                               *)
(***************************************************************************)
EXTENDS Clients, Inbounds, Documents, Links

VARIABLE part
panelVars == <<part, clientsVars, inboundVars, docVars, shown>>

SomeProfile == CHOOSE p \in Profile : TRUE

PanelInit ==
  /\ part \in {"clients", "inbounds", "documents", "links"}
  /\ DatabaseInit /\ ClientsInit /\ InboundsInit /\ DocInit
  /\ IF part = "links" THEN LinksInit ELSE shown = SomeProfile

PanelNext ==
  /\ \/ part = "clients" /\ ClientsNext /\ UNCHANGED <<inboundVars, docVars>>
     \/ part = "inbounds" /\ InboundsNext /\ UNCHANGED <<clientsVars, docVars>>
     \/ part = "documents" /\ DocNext /\ UNCHANGED <<clientsVars, inboundVars>>
  /\ UNCHANGED <<part, shown>>

PanelSpec == PanelInit /\ [][PanelNext]_panelVars
=============================================================================
