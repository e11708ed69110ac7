------------------------------ MODULE Planning ------------------------------
(***************************************************************************)
(* The arithmetic behind the inventory and staffing tools: which items are *)
(* flagged, how much of one to order, how many people a shift needs.       *)
(* Quantities are whole units; an average over the lookback window is kept *)
(* as its numerator, so that nothing is rounded (the code uses Decimal).   *)
(***************************************************************************)
EXTENDS Integers, FiniteSetsExt

CONSTANTS
    MaxQuantity,    \* bound: of every quantity, period and number of covers
    LookbackDays, MinimumStaff   \* settings

ASSUME PlanningAssumption ==
    MaxQuantity \in Nat /\ LookbackDays \in Nat \ {0} /\ MinimumStaff \in Nat

VARIABLE asked   \* what the one call of a planning tool is about

Quantities == 0 .. MaxQuantity
StockQuestions == [on_hand : Quantities, threshold : Quantities,
                   amount : Quantities,   \* consumed in the window, or required
                   days : Quantities]
StaffQuestions == [covers : Quantities, each : Quantities \ {0}]
NoQuestion == [none |-> "none"]

\* The quantities of an item come from the database and never change under a call.
PlanningInit == asked \in StockQuestions \cup StaffQuestions

\* _classify: from the quantities, never from the stored status.
Classify(item) == IF item.on_hand <= 0 THEN "out_of_stock"
                  ELSE IF item.on_hand <= item.threshold THEN "low" ELSE "ok"
Flagged(item) == Classify(item) # "ok"

\* Mutant: an order brings the item back to its threshold.
ThresholdOnly(item) == item.threshold

TargetQuantity(item) == 2 * item.threshold

\* calculate_reorder_quantity
Reorder(item) == Max({0, TargetQuantity(item) - item.on_hand})

\* calculate_required_inventory, in 1/LookbackDays of a unit.
Projected(item) == item.on_hand * LookbackDays - item.amount * item.days
Required(item) == Max({0, TargetQuantity(item) * LookbackDays - Projected(item)})

\* check_stock: the shortfall it answers with; inventory.low is published if it is not 0.
Shortfall(item) == Max({0, item.amount - item.on_hand})

\* calculate_staff_requirement, for the servers and for the cooks.
StaffNeeded(covers, each) == Max({MinimumStaff, (covers + each - 1) \div each})

-----------------------------------------------------------------------------
\* Following a recommendation is enough: an item of which the recommended quantity was
\* ordered is not flagged any more, now or at the horizon; the projected
\* recommendation is never below the plain one, and that covers the shortfall of any
\* requirement within the target; the people planned can serve every cover and one
\* fewer could not.  The one exception: an item that is out of stock and has a
\* threshold of 0 is flagged with nothing to order.
PlansSuffice ==
    /\ asked \in StockQuestions =>
         /\ Flagged([asked EXCEPT !.on_hand = @ + Reorder(asked)])
              => asked.threshold = 0 /\ asked.on_hand = 0
         /\ LET then == Projected(asked) + Required(asked)
            IN  then > asked.threshold * LookbackDays \/ asked.threshold = 0
         /\ Required(asked) >= Reorder(asked) * LookbackDays
         /\ asked.amount <= 2 * asked.threshold => Shortfall(asked) <= Reorder(asked)
    /\ asked \in StaffQuestions =>
         LET people == StaffNeeded(asked.covers, asked.each)
         IN  /\ people * asked.each >= asked.covers
             /\ people > MinimumStaff => (people - 1) * asked.each < asked.covers
=============================================================================
