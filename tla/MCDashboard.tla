------------------------------- MODULE MCDashboard -------------------------------
(* A small instance of Dashboard for TLC: two accounts of one actor. *)
EXTENDS Dashboard

CONSTANTS A, B

================================================================================
