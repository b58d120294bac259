-------------------------- MODULE MCOperationalPush --------------------------
(* A queue of a few events, sent two at a time.                            *)
EXTENDS OperationalPush

CONSTANTS r1, r2
=============================================================================
