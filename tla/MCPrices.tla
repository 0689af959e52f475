------------------------------ MODULE MCPrices ------------------------------
(***************************************************************************)
(* Prices with three digits of fraction: 9.99, 57.08, 349.95 and 175.00    *)
(* in small, quotes that end in .0, .1 and .9, and two currencies besides  *)
(* the dollar, one dear and one cheap.                                     *)
(***************************************************************************)
EXTENDS Prices

MCRate == [c \in {"USD", "GBP", "JPY"} |->
             CASE c = "USD" -> 113 [] c = "GBP" -> 86 [] c = "JPY" -> 12640]
MCPrices == {990, 7080, 9950, 5000}
MCQuotes == {640, 641, 409}
=============================================================================
