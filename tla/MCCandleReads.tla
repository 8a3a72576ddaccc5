--------------------------- MODULE MCCandleReads ---------------------------
(* CandleReads over small tables of two markets. *)
EXTENDS CandleReads, MCCandleInputs

\* Steps too small for the table.
TwoBatches == [kind : {"discrete"}, stepSize : {2}, duration : {2}]

=============================================================================
