------------------------------ MODULE MCSweep ------------------------------
(* Instance of Sweep for TLC: levels that are skipped, small and larger. *)
EXTENDS Sweep

MCLevels == <<0, 1, 3>>
MCSelected == {"ssh", "https"}
=============================================================================
