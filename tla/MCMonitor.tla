------------------------------ MODULE MCMonitor ------------------------------
(* The monitor parser with every message of diald and a few faults.        *)
EXTENDS Monitor

AllKinds == Kind
===============================================================================
