--------------------------- MODULE MCStockLedger ---------------------------
(***************************************************************************)
(* Small instances of StockLedger for TLC.  Quantities are half units.     *)
(***************************************************************************)
EXTENDS RangeReports, TLC

WholeQuantity   == {4}
MoneyDeltas     == {2}
ThreeHalf       == {0, 3}
UnitQuantities  == {0, 2, 3}
UnitDeltas      == {1, 2}
OneDelta        == {1}
Pieces == {"dona"}
BothUnits == {"dona", "kg"}
OnePrice  == {1}
TwoPrices == {1, 2}
NoAmounts == {}
OneAmount == {3}
=============================================================================
