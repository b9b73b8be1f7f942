---------------------------- MODULE BoundedFifo ----------------------------
(***************************************************************************)
(* What the request buffer of the web server promises, with no ring, lock  *)
(* or condition variable: at most Capacity connections wait in order of    *)
(* arrival, and each one is given to one worker at a time, which finishes  *)
(* it.  When the server is gone, so is the queue.                          *)
(***************************************************************************)
EXTENDS Naturals, Sequences, SequencesExt

CONSTANTS Item, Server, Capacity, Nobody

VARIABLES
  queue,  \* the items that wait
  serving \* the item each server works on, or Nobody

vars == <<queue, serving>>

Init ==
  /\ queue = <<>>
  /\ serving = [s \in Server |-> Nobody]

Put(c) ==
  /\ Len(queue) < Capacity
  /\ c \notin Range(queue) \cup Range(serving)
  /\ queue' = Append(queue, c)
  /\ UNCHANGED serving

Take(s) ==
  /\ queue # <<>>
  /\ serving[s] = Nobody
  /\ serving' = [serving EXCEPT ![s] = Head(queue)]
  /\ queue' = Tail(queue)

Finish(s) ==
  /\ serving[s] # Nobody
  /\ serving' = [serving EXCEPT ![s] = Nobody]
  /\ UNCHANGED queue

Close ==
  /\ serving = [s \in Server |-> Nobody]
  /\ queue' = <<>>
  /\ UNCHANGED serving

Next ==
  \/ \E c \in Item : Put(c)
  \/ \E s \in Server : Take(s) \/ Finish(s)
  \/ Close

Spec == Init /\ [][Next]_vars
=============================================================================
