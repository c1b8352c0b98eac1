---------------------------- MODULE MCQuoteSubmit ----------------------------
(***************************************************************************)
(* QuoteSubmit for TLC: an empty amount, two texts worth the same and one  *)
(* worth something else.                                                   *)
(***************************************************************************)
EXTENDS QuoteSubmit

AmountTexts == {"", "1", "1.0", "2"}
AmountUnits == [t \in AmountTexts |-> CASE t = "" -> 0 [] t \in {"1", "1.0"} -> 1 [] t = "2" -> 2]

==============================================================================
