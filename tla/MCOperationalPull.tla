-------------------------- MODULE MCOperationalPull --------------------------
(* A short history, pages of two changes, four changes a run.             *)
EXTENDS OperationalPull

CONSTANTS a, b, c
=============================================================================
