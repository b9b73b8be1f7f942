----------------------------- MODULE ThreadLife -----------------------------
(***************************************************************************)
(* What thread.h promises about the life of each thread, with no lists,    *)
(* identifiers or memory: a thread is created ready, it stops running only *)
(* by a switch to a ready thread, it sleeps until it is woken, and it goes *)
(* away only because it exited or because it was killed while ready.       *)
(* Threads that exited are reclaimed at any later time.                    *)
(***************************************************************************)
CONSTANT Thread

VARIABLES
  phase, \* where each thread is in its life
  over   \* has the program exited?

vars == <<phase, over>>

In(p) == {t \in Thread : phase[t] = p}

Init ==
  /\ \E t \in Thread :
       phase = [u \in Thread |-> IF u = t THEN "running" ELSE "none"]
  /\ over = FALSE

(* The phases once the exited threads of R are reclaimed.                  *)
Reclaimed(R) == [t \in Thread |-> IF t \in R THEN "none" ELSE phase[t]]

Start(t) ==
  /\ \E R \in SUBSET In("exited") :
       /\ Reclaimed(R)[t] = "none"
       /\ phase' = [Reclaimed(R) EXCEPT ![t] = "ready"]
  /\ UNCHANGED over

(* r stops running and goes to phase p; t, which was ready, runs.          *)
Switch(r, t, p) ==
  /\ phase[r] = "running"
  /\ phase[t] = "ready"
  /\ \E R \in SUBSET In("exited") :
       phase' = [Reclaimed(R) EXCEPT ![r] = p, ![t] = "running"]
  /\ UNCHANGED over

Yield(r, t) == Switch(r, t, "ready")
Sleep(r, t) == Switch(r, t, "asleep")
Exit(r, t) == Switch(r, t, "exited") \/ Switch(r, t, "none")

Kill(t) ==
  /\ phase[t] = "ready"
  /\ phase' = [phase EXCEPT ![t] = "none"]
  /\ UNCHANGED over

Wakeup(S) ==
  /\ S # {}
  /\ phase' = [t \in Thread |-> IF t \in S THEN "ready" ELSE phase[t]]
  /\ UNCHANGED over

Reclaim ==
  /\ \E R \in SUBSET In("exited") : phase' = Reclaimed(R)
  /\ UNCHANGED over

(* The running thread exits and no other can run.                          *)
Finish(r) ==
  /\ phase[r] = "running"
  /\ In("ready") = {}
  /\ phase' = [phase EXCEPT ![r] = "exited"]
  /\ over' = TRUE

Next ==
  /\ ~over
  /\ \/ \E t \in Thread : Start(t) \/ Kill(t) \/ Finish(t)
     \/ \E r, t \in Thread : Yield(r, t) \/ Sleep(r, t) \/ Exit(r, t)
     \/ \E S \in SUBSET In("asleep") : Wakeup(S)
     \/ Reclaim

Spec == Init /\ [][Next]_vars
=============================================================================
