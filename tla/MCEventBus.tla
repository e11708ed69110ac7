----------------------------- MODULE MCEventBus -----------------------------
(***************************************************************************)
(* Small instances of EventBus. AppHandlers is the registry of             *)
(* workflows/registry.py. WithAudit adds a second subscriber that          *)
(* publishes nothing, which the registry has none of but the bus allows.   *)
(* An inventory agent called for either event can find stock short, and    *)
(* publish inventory.low (again).                                          *)
(***************************************************************************)
EXTENDS EventBus, TLC

AppTypes == {"reservation.created", "inventory.low"}
AppHandlers == [type \in AppTypes |->
    IF type = "reservation.created" THEN <<"check demand">> ELSE <<"analyse shortage">>]

WithAudit == [type \in {"inventory.low"} |-> <<"analyse shortage", "audit">>]

MCReactions == [h \in {"check demand", "analyse shortage", "audit"} |->
    IF h = "audit" THEN {} ELSE {"inventory.low"}]
=============================================================================
