--------------------------- MODULE RequestBuffer ---------------------------
(***************************************************************************)
(* The request buffer of the web server: main's loop in server.c, and      *)
(* server_request, stub and server_exit of server_thread.c.                *)
(*                                                                         *)
(* The ring buffer, in and out are read and written under sv->lock only,   *)
(* so what a thread does from locking it to unlocking it is one action,    *)
(* with one exception: server_exit sets exiting and broadcasts without the *)
(* lock, and this can come between a worker's test of the buffer and its   *)
(* pthread_cond_wait.  Such a worker ("empty") holds the lock, and it is   *)
(* the only thread ever seen to hold it.                                   *)
(***************************************************************************)
EXTENDS Integers, Sequences, FiniteSets, SequencesExt

CONSTANTS
  Worker,      \* the nr_threads worker threads
  Conn,        \* connection descriptors
  MaxRequests, \* max_requests
  NULL

ASSUME RequestBufferAssumption ==
  /\ Worker # {} /\ IsFiniteSet(Worker)
  /\ MaxRequests \in Nat \ {0}
  /\ NULL \notin Conn

BuffSize == MaxRequests + 1
Slot == 0 .. BuffSize - 1

VARIABLES
  buffer,  \* the ring
  in,      \* the slot that the next request goes to
  out,     \* the slot of the oldest request
  exiting, \* sv->exiting
  wpc,     \* where each worker is
  job,     \* the connection each worker serves
  mpc,     \* where the main thread is
  connfd   \* the connection that main has in its hands

vars == <<buffer, in, out, exiting, wpc, job, mpc, connfd>>

TypeOK ==
  /\ buffer \in [Slot -> Conn \cup {NULL}]
  /\ in \in Slot
  /\ out \in Slot
  /\ exiting \in BOOLEAN
  /\ wpc \in [Worker -> {"top", "empty", "wait", "woken", "serve", "done"}]
  /\ job \in [Worker -> Conn \cup {NULL}]
  /\ mpc \in {"poll", "request", "full", "woken", "exiting", "join", "gone"}
  /\ connfd \in Conn \cup {NULL}

(* server_init: the ring is empty and every worker is about to lock.       *)
Init ==
  /\ buffer = [i \in Slot |-> NULL]
  /\ in = 0
  /\ out = 0
  /\ exiting = FALSE
  /\ wpc = [w \in Worker |-> "top"]
  /\ job = [w \in Worker |-> NULL]
  /\ mpc = "poll"
  /\ connfd = NULL

LockFree == \A w \in Worker : wpc[w] # "empty"

SuccNoWrap(i) == i + 1 \* mutant: no modulo
Succ(i) == (i + 1) % BuffSize

(* How many requests a ring with these in and out holds, and which ones,   *)
(* oldest first.                                                           *)
RingCount(i, o) == (i - o + BuffSize) % BuffSize
Ring(b, i, o) == [k \in 1 .. RingCount(i, o) |-> b[(o + k - 1) % BuffSize]]

Count == RingCount(in, out)
Queued == Ring(buffer, in, out)

IsFullNot == FALSE \* mutant: the ring is never full
IsFull == Count = BuffSize - 1

(* The descriptors that are open: accept returns another one.              *)
Open == (Range(Queued) \cup Range(job) \cup {connfd}) \ {NULL}
-----------------------------------------------------------------------------
(* main: poll reports a connection, and accept returns it.                 *)
Accept(c) ==
  /\ mpc = "poll"
  /\ c \notin Open
  /\ connfd' = c
  /\ mpc' = "request"
  /\ UNCHANGED <<buffer, in, out, exiting, wpc, job>>

(* pthread_cond_signal(&sv->empty): one of the waiting workers, if any.    *)
SignalNobody == UNCHANGED wpc \* mutant: the signal is forgotten
SignalEmpty ==
  \/ /\ \A w \in Worker : wpc[w] # "wait"
     /\ UNCHANGED wpc
  \/ \E w \in Worker :
       /\ wpc[w] = "wait"
       /\ wpc' = [wpc EXCEPT ![w] = "woken"]

(* server_request, with the lock: it waits while the ring is full.         *)
ServerRequest ==
  /\ mpc \in {"request", "woken"}
  /\ LockFree
  /\ \/ /\ IsFull
        /\ mpc' = "full"
        /\ UNCHANGED <<buffer, in, wpc, connfd>>
     \/ /\ ~IsFull
        /\ buffer' = [buffer EXCEPT ![in] = connfd]
        /\ in' = Succ(in)
        /\ SignalEmpty
        /\ mpc' = "poll"
        /\ connfd' = NULL
  /\ UNCHANGED <<out, exiting, job>>

(* server_exit, in three steps: exiting is set, the waiting workers are    *)
(* woken, the workers are joined and the buffer is freed.                  *)
SetExiting ==
  /\ mpc = "poll"
  /\ exiting' = TRUE
  /\ mpc' = "exiting"
  /\ UNCHANGED <<buffer, in, out, wpc, job, connfd>>

Broadcast ==
  /\ mpc = "exiting"
  /\ wpc' = [w \in Worker |-> IF wpc[w] = "wait" THEN "woken" ELSE wpc[w]]
  /\ mpc' = "join"
  /\ UNCHANGED <<buffer, in, out, exiting, job, connfd>>

Join ==
  /\ mpc = "join"
  /\ \A w \in Worker : wpc[w] = "done"
  /\ mpc' = "gone"
  /\ UNCHANGED <<buffer, in, out, exiting, wpc, job, connfd>>
-----------------------------------------------------------------------------
(* pthread_cond_signal(&sv->full): main, if it waits.                      *)
SignalFullNot == UNCHANGED mpc \* mutant: the signal is forgotten
SignalFull == mpc' = IF mpc = "full" THEN "woken" ELSE mpc

(* stub, with the lock, at the test of its inner loop: the worker takes    *)
(* the oldest request, or it is going to wait.                             *)
TakeRequest(w) ==
  /\ job' = [job EXCEPT ![w] = buffer[out]]
  /\ out' = Succ(out)
  /\ SignalFull
  /\ wpc' = [wpc EXCEPT ![w] = "serve"]

TestBuffer(w) ==
  /\ \/ /\ in = out
        /\ wpc' = [wpc EXCEPT ![w] = "empty"]
        /\ UNCHANGED <<out, job, mpc>>
     \/ /\ in # out
        /\ TakeRequest(w)
  /\ UNCHANGED <<buffer, in, exiting, connfd>>

Top(w) ==
  /\ wpc[w] = "top"
  /\ LockFree
  /\ TestBuffer(w)

(* pthread_cond_wait: the worker waits and the lock is free.               *)
BeginWait(w) ==
  /\ wpc[w] = "empty"
  /\ wpc' = [wpc EXCEPT ![w] = "wait"]
  /\ UNCHANGED <<buffer, in, out, exiting, job, mpc, connfd>>

(* Mutant: an if where the code has a while.                               *)
WokenTakes(w) ==
  /\ wpc[w] = "woken"
  /\ LockFree
  /\ ~exiting
  /\ TakeRequest(w)
  /\ UNCHANGED <<buffer, in, exiting, connfd>>

(* It has the lock again: it returns if the server is exiting, whatever    *)
(* the buffer holds, and tests the buffer again if not.                    *)
Woken(w) ==
  /\ wpc[w] = "woken"
  /\ LockFree
  /\ ~exiting
  /\ TestBuffer(w)

WokenExit(w) ==
  /\ wpc[w] = "woken"
  /\ LockFree
  /\ exiting
  /\ wpc' = [wpc EXCEPT ![w] = "done"]
  /\ UNCHANGED <<buffer, in, out, exiting, job, mpc, connfd>>

(* do_server_request, which closes the connection whatever happens.        *)
Serve(w) ==
  /\ wpc[w] = "serve"
  /\ wpc' = [wpc EXCEPT ![w] = "top"]
  /\ job' = [job EXCEPT ![w] = NULL]
  /\ UNCHANGED <<buffer, in, out, exiting, mpc, connfd>>

(* POSIX lets pthread_cond_wait return without a signal.                   *)
SpuriousWorker(w) ==
  /\ wpc[w] = "wait"
  /\ wpc' = [wpc EXCEPT ![w] = "woken"]
  /\ UNCHANGED <<buffer, in, out, exiting, job, mpc, connfd>>

SpuriousMain ==
  /\ mpc = "full"
  /\ mpc' = "woken"
  /\ UNCHANGED <<buffer, in, out, exiting, wpc, job, connfd>>

Gone ==
  /\ mpc = "gone"
  /\ UNCHANGED vars
-----------------------------------------------------------------------------
WorkerStep(w) == Top(w) \/ Woken(w) \/ WokenExit(w) \/ BeginWait(w) \/ Serve(w)

Next ==
  \/ \E c \in Conn : Accept(c)
  \/ ServerRequest
  \/ SetExiting \/ Broadcast \/ Join
  \/ \E w \in Worker : WorkerStep(w) \/ SpuriousWorker(w)
  \/ SpuriousMain
  \/ Gone

Spec == Init /\ [][Next]_vars

(* A thread goes on until it wants the lock.  Main gets it if it keeps     *)
(* asking, and so does the pool of workers: between two workers a mutex    *)
(* need not be fair, and nothing is assumed.  Nothing makes a connection   *)
(* arrive, the server exit, or a wait end by itself.                       *)
Fairness ==
  /\ SF_vars(ServerRequest)
  /\ SF_vars(\E w \in Worker : Top(w) \/ Woken(w) \/ WokenExit(w))
  /\ \A w \in Worker : WF_vars(BeginWait(w)) /\ WF_vars(Serve(w))
  /\ WF_vars(Broadcast)
  /\ WF_vars(Join)

FairSpec == Spec /\ Fairness
-----------------------------------------------------------------------------
(* No connection is in two places: a descriptor that two workers served,   *)
(* or that is served while it is still in the ring, would be closed twice, *)
(* the second time under another client that got the same number.          *)
OneOwner ==
  /\ IsInjective(Queued)
  /\ \A v, w \in Worker : job[v] = job[w] /\ job[v] # NULL => v = w
  /\ Range(Queued) \cap Range(job) = {}
  /\ connfd # NULL => connfd \notin Range(Queued) \cup Range(job)
  /\ NULL \notin Range(Queued)

AwakeWorkers == {w \in Worker : wpc[w] \in {"top", "woken"}}

(* No wake-up is lost while the server runs: as long as one worker waits,  *)
(* or is about to, each queued request has a worker of its own that is on  *)
(* its way to the buffer; and main waits only while the ring is full.      *)
NoLostWakeup ==
  /\ ~exiting /\ (\E w \in Worker : wpc[w] \in {"empty", "wait"})
       => Count <= Cardinality(AwakeWorkers)
  /\ mpc = "full" => IsFull

Fifo == INSTANCE BoundedFifo
          WITH Item <- Conn, Server <- Worker, Capacity <- MaxRequests,
               Nobody <- NULL,
               queue <- IF mpc = "gone" THEN <<>> ELSE Queued,
               serving <- job

(* The ring is a FIFO queue of max_requests requests: one slot is lost to  *)
(* tell a full ring from an empty one, nothing is overwritten or taken     *)
(* twice, and requests are taken in the order of arrival.                  *)
ImplementsFifo == Fifo!Spec

(* While the server is not told to exit, every queued request is taken and *)
(* main gets rid of every connection it accepted.                          *)
EveryRequestTaken ==
  /\ \A c \in Conn : c \in Range(Queued) ~> (c \notin Range(Queued) \/ exiting)
  /\ mpc = "request" ~> mpc = "poll"
-----------------------------------------------------------------------------
(* server_exit waits for all worker threads to exit, and then exits.       *)
ExitCompletes == exiting ~> mpc = "gone"
=============================================================================
