----------------------------- MODULE MCThreads -----------------------------
(* The thread package on small instances: three or four struct threads,    *)
(* three identifiers, one wait queue of the program's.                     *)
EXTENDS Threads, TLC

(* Struct threads differ only by their address.                            *)
Interchangeable == Permutations(TCB)

(* The API of lab 2 and the sleep and wakeup calls of lab 3.               *)
Lab2 == {"create", "yield", "exit", "kill", "mask"}
Cooperative == Lab2 \cup {"sleep", "wakeup", "queue"}
=============================================================================
