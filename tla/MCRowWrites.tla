----------------------------- MODULE MCRowWrites ------------------------------
(***************************************************************************)
(* Instances of RowWrites for TLC.  Row ids stand for rows of              *)
(* inventory_items (item), equipment_units (unit), locations (shelf),      *)
(* stock_by_location (stock) and approval_requests (request).              *)
(***************************************************************************)
EXTENDS RowWrites, TLC

CONSTANTS item, unit, shelf, stock, request

ParentIs(child, parent) == [r \in Row |-> IF r = child THEN parent ELSE NoRow]
UnitOfItem   == ParentIs(unit, item)
StockOnShelf == ParentIs(stock, shelf)

\* Three writes of an item and its unit, or two of any rows.
ThirdWriteInFamily ==
  \/ Len(queue) <= 2
  \/ {queue[w].row : w \in Queued} = {item, unit}

\* Sound where no device is told apart by Manager or Exempt.
Symmetry == Permutations(Device)
===============================================================================
