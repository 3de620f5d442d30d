----------------------------- MODULE MCWatchdog -----------------------------
(* Instances of Watchdog for TLC: a timeout of a few intervals, so that     *)
(* several rounds, and several forgotten timers, fit into one.              *)
EXTENDS Watchdog

MCTimeout == 4
MCInterval == 1
=============================================================================
