---------------------------- MODULE MCBenchModes ----------------------------
(* Instances of BenchModes for TLC. *)
EXTENDS BenchModes

AllTransports == ToSet(Order)
OnlySSH == {"ssh"}
=============================================================================
