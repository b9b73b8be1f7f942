-------------------------- MODULE MCRequestBuffer --------------------------
(* The request buffer with two workers and a ring of one or two requests.  *)
(* There are enough connections to fill the ring while main has another    *)
(* one in its hands and a worker serves one.                               *)
EXTENDS RequestBuffer
=============================================================================
