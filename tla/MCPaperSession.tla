--------------------------- MODULE MCPaperSession ---------------------------
(***************************************************************************)
(* Instances of PaperSession for TLC.                                      *)
(***************************************************************************)
EXTENDS PaperSession

\* A market that may go flat for two candles, and a feed with one gap.
MCFlatable == {4, 5}
MCGaps == {1}
NoCandles == {}
TradeOrHold == {"HOLD", "TRADE"}
LowOrTrade == {"LOW", "TRADE"}
=============================================================================
