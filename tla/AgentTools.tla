----------------------------- MODULE AgentTools -----------------------------
(***************************************************************************)
(* The typed tools (app/tools) and the agents they are wired to            *)
(* (app/api/stack.py).  A tool validates its input and calls one service   *)
(* operation.  What it leaves behind when it is not refused: "read"        *)
(* nothing, "write" rows, of an access counted or an event published too,  *)
(* "gated" either the rows or a proposal, returned as a                    *)
(* PendingApprovalOutput.                                                  *)
(***************************************************************************)
EXTENDS TLC

ReservationTools ==
    [get_reservations     |-> "read",
     find_available_table |-> "read",
     create_reservation   |-> "write",
     modify_reservation   |-> "gated",
     cancel_reservation   |-> "gated"]

CustomerTools ==
    [get_customer         |-> "read",
     get_customer_history |-> "read",
     update_customer      |-> "write"]

\* search_memory() and get_memory() count the access.
MemoryTools ==
    [add_memory       |-> "write",
     search_memory    |-> "write",
     get_memory       |-> "write",
     update_memory    |-> "write",
     reinforce_memory |-> "write",
     forget_memory    |-> "write",
     delete_memory    |-> "write"]

\* check_stock() publishes inventory.low.
InventoryTools ==
    [analyze_inventory            |-> "read",
     get_inventory                |-> "read",
     check_stock                  |-> "write",
     calculate_required_inventory |-> "read",
     calculate_reorder_quantity   |-> "read",
     create_purchase_request      |-> "gated"]

StaffingTools ==
    [get_staff_schedule          |-> "read",
     get_staff_availability      |-> "read",
     calculate_staff_requirement |-> "read"]

AnalyticsTools ==
    [get_daily_sales  |-> "read",
     get_item_sales   |-> "read",
     get_no_show_rate |-> "read"]

\* build_agent_stack().
ToolsOf ==
    [reservation |-> ReservationTools,
     customer    |-> CustomerTools @@ MemoryTools,
     inventory   |-> InventoryTools,
     staffing    |-> StaffingTools,
     analytics   |-> AnalyticsTools]

Buys(name) == "create_purchase_request" \in DOMAIN ToolsOf[name]

MayPropose(name) == \E tool \in DOMAIN ToolsOf[name] : ToolsOf[name][tool] = "gated"
=============================================================================
