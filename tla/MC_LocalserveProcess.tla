-------------------------- MODULE MC_LocalserveProcess --------------------------
(* Model-checking instance of LocalserveProcess.                           *)
EXTENDS LocalserveProcess

\* The counter starts from the wall clock; its value is irrelevant as long
\* as it is far from overflow, so a small one stands for it.
MCCidStart == 100
=============================================================================
