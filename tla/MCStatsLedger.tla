--------------------------- MODULE MCStatsLedger ----------------------------
(***************************************************************************)
(* A few records, minutes of two ticks, hours of two minutes.              *)
(***************************************************************************)
EXTENDS StatsLedger

CONSTANTS old, new

=============================================================================
