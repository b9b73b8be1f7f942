----------------------------- MODULE ByteStream -----------------------------
(***************************************************************************)
(* What the Rio package of common.c promises over a connection: whatever   *)
(* the kernel does with the pieces, each end takes the bytes that the      *)
(* other one has said, each once and in that order.  Bytes are lost only   *)
(* when an end closes: from the tail of what is underway.                  *)
(***************************************************************************)
EXTENDS Sequences, SequencesExt

CONSTANT End

VARIABLES
  pending, \* pending[e] is what has been said to e and not taken
  open     \* which ends are open

vars == <<pending, open>>

Init ==
  /\ pending = [e \in End |-> <<>>]
  /\ open = [e \in End |-> FALSE]

(* The only thing that changes is what is pending for e.                   *)
Only(e) == pending' = [pending EXCEPT ![e] = pending'[e]]

Say(e) ==
  /\ Only(e)
  /\ IsPrefix(pending[e], pending'[e])
  /\ UNCHANGED open

Take(e) ==
  /\ pending[e] # <<>>
  /\ pending' = [pending EXCEPT ![e] = Tail(@)]
  /\ UNCHANGED open

(* A connection is made, with nothing in it.                               *)
Connect ==
  /\ open' = [e \in End |-> TRUE]
  /\ pending' = [e \in End |-> <<>>]

(* An end closes; what was on its way may be cut short.                    *)
Close(e) ==
  /\ open[e]
  /\ open' = [open EXCEPT ![e] = FALSE]
  /\ \A d \in End : IsPrefix(pending'[d], pending[d])

Next ==
  \/ Connect
  \/ \E e \in End : Say(e) \/ Take(e) \/ Close(e)

Spec == Init /\ [][Next]_vars
=============================================================================
