--------------------------- MODULE MC_CardRefunds ---------------------------
(* Instances of CardRefunds for TLC: refunds of different amounts, so that *)
(* none can stand in for another in a sum.                                 *)
EXTENDS CardRefunds

CONSTANTS a, b
AmountsOf == [r \in Refunds |-> IF r = a THEN 2 ELSE 1]

Setting(listings, lifecycle, method, bound) ==
  [listings |-> listings, lifecycle |-> lifecycle, methods |-> {method}, hooks |-> bound]
SettingsOf ==
  {Setting({"fetched", "inline"}, "final", "card", 2),
   Setting({"unlisted"}, "pending", "card", 1),
   Setting({"inline"}, "final", "debit", 1)}
=============================================================================
