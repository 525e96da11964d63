------------------------- MODULE MCIterationScheduler -------------------------
(* Instance of IterationScheduler for TLC: two plain requests and one feature  *)
(* request, of which two are served at a time, on two lanes. The two plain     *)
(* requests reserve two KV cells each and fit the pool together; the feature   *)
(* request reserves three and fits beside neither.  Each may come to use more  *)
(* than its reservation, as max_tokens exceeds the headroom.                   *)
EXTENDS IterationScheduler

MCPrompt == [c \in Client |-> IF c = 1 THEN 2 ELSE 1]
===============================================================================
