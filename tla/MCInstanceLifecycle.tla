-------------------------- MODULE MCInstanceLifecycle --------------------------
(* A managed and a runtime-loaded instance of one model, and its requests.   *)
EXTENDS InstanceLifecycle

CONSTANTS primary, extra, r1, p1, p2, p3
===============================================================================
