------------------------------ MODULE Threads ------------------------------
(***************************************************************************)
(* The user-level thread package of src/threads: thread.c, with the timer  *)
(* interrupt of interrupt.c that makes it preemptive.                      *)
(*                                                                         *)
(* One processor runs one thread at a time.  Almost every entry point runs *)
(* with SIGALRM blocked, so it is one action here, from the moment a       *)
(* thread calls it to the moment some thread (often another one) is back   *)
(* in program code: saving the caller's context, the switch, and what the  *)
(* thread switched to does on its way out of the library belong to the     *)
(* same action.  Two calls are not atomic, and are split where the code    *)
(* unblocks the signal: thread_create (which reads the new thread's id     *)
(* after it) and thread_sleep (which checks the ready list before it).     *)
(***************************************************************************)
EXTENDS Integers, Sequences, FiniteSets, SequencesExt

CONSTANTS
  TCB,         \* the chunks malloc has for a struct thread
  MaxThreads,  \* THREAD_MAX_THREADS
  UserQueue,   \* the wait queues the program makes for itself
  Calls,       \* the library calls the program makes
  Preemptive,  \* has register_interrupt_handler been called?
  MallocFails, \* may malloc return NULL?
  NULL

Tid == 0 .. MaxThreads - 1

(* A queue is named by the waitArray slot, or the program variable, that   *)
(* holds the pointer to it.                                                *)
Queue == Tid \cup UserQueue

AllCalls == {"create", "yield", "exit", "kill", "sleep", "wakeup", "wait",
             "queue", "destroy", "mask"}

ASSUME ThreadsAssumption ==
  /\ MaxThreads \in Nat \ {0}
  /\ Tid \cap UserQueue = {}
  /\ NULL \notin TCB
  /\ Calls \subseteq AllCalls
  /\ Preemptive \in BOOLEAN
  /\ MallocFails \in BOOLEAN

VARIABLES
  heap,        \* the struct threads that are allocated
  current,     \* the running thread
  readyList,   \* the ready queue, head first
  exitList,    \* threads that called thread_exit and are not yet freed
  threadArray, \* threadArray[i] = 1: the identifier i is taken
  queue,       \* is the queue behind the pointer "null", "live" or "freed"?
  wait,        \* the threads on each queue, head first
  id,          \* the identifier in a struct thread
  status,      \* its status field
  ctx,         \* what its saved context does first (see Resume)
  pending,     \* the call that it is in the middle of, or Idle
  interrupts,  \* is SIGALRM deliverable to the running thread?
  halt         \* "none", "exit", or the undefined step that was taken

vars == <<heap, current, readyList, exitList, threadArray, queue, wait, id,
          status, ctx, pending, interrupts, halt>>

Idle == [op |-> "none", arg |-> NULL]

(* The steps whose effect the C standard leaves open: reading freed memory,*)
(* dereferencing NULL, freeing the stack one is running on, and indexing   *)
(* past the end of waitArray.  Nothing is known after one of them, so the  *)
(* model stops there and records which it was.                             *)
Undefined == {"use_after_free", "null", "free_running", "out_of_bounds"}

TypeOK ==
  /\ heap \in SUBSET TCB
  /\ current \in TCB
  /\ readyList \in Seq(TCB)
  /\ exitList \in Seq(TCB)
  /\ threadArray \in [Tid -> {0, 1}]
  /\ queue \in [Queue -> {"null", "live", "freed"}]
  /\ wait \in [Queue -> Seq(TCB)]
  /\ id \in [TCB -> Tid]
  /\ status \in [TCB -> {"run", "ready", "exit", "sleep"}]
  /\ ctx \in [TCB -> {"stub", "on", "off"}]
  /\ pending \in [TCB -> {Idle} \cup [op : {"create"}, arg : TCB]
                                \cup [op : {"sleep"}, arg : UserQueue]]
  /\ interrupts \in BOOLEAN
  /\ halt \in {"none", "exit"} \cup Undefined
-----------------------------------------------------------------------------
(* thread_init: the main thread gets identifier 0 and a wait queue.        *)
Init ==
  /\ current \in TCB
  /\ heap = {current}
  /\ readyList = <<>>
  /\ exitList = <<>>
  /\ threadArray = [i \in Tid |-> IF i = 0 THEN 1 ELSE 0]
  /\ queue = [q \in Queue |-> IF q = 0 THEN "live" ELSE "null"]
  /\ wait = [q \in Queue |-> <<>>]
  /\ id = [t \in TCB |-> 0]
  /\ status = [t \in TCB |-> "run"]
  /\ ctx = [t \in TCB |-> "stub"]
  /\ pending = [t \in TCB |-> Idle]
  /\ interrupts = TRUE
  /\ halt = "none"

(* The running thread is in program code and may make this call.           *)
AtUser(call) ==
  /\ halt = "none"
  /\ pending[current] = Idle
  /\ call \in Calls

(* A step that is undefined: no other variable moves.                      *)
Halt(how) ==
  /\ halt' = how
  /\ UNCHANGED <<heap, current, readyList, exitList, threadArray, queue,
                 wait, id, status, ctx, pending, interrupts>>
-----------------------------------------------------------------------------
(* Reaping: the loop that thread_create, changeCurrentToTarget and         *)
(* thread_yield_wait run over exitList.  It gives the identifier back,     *)
(* destroys the wait queue of the thread, which frees every thread still   *)
(* on it, and frees the thread.                                            *)
IdsOf(el) == {id[t] : t \in Range(el)}

Waiters(w, S) == UNION {Range(w[q]) : q \in S}

(* wait_queue_destroy for the queues in S: the queues and what is on them. *)
DestroyedNot(S) == queue \* mutant: the queue is left alone
Destroyed(S) == [q \in Queue |-> IF q \in S THEN "freed" ELSE queue[q]]
Emptied(w, S) == [q \in Queue |-> IF q \in S THEN <<>> ELSE w[q]]

(* threadArray once the identifiers in S are given back.                   *)
ReleasedNot(S) == threadArray \* mutant: they are not
Released(S) == [i \in Tid |-> IF i \in S THEN 0 ELSE threadArray[i]]

ReapedHeap(el, w) == heap \ (Range(el) \cup Waiters(w, IdsOf(el)))

Reap(el, w) ==
  /\ heap' = ReapedHeap(el, w)
  /\ threadArray' = Released(IdsOf(el))
  /\ queue' = Destroyed(IdsOf(el))
  /\ wait' = Emptied(w, IdsOf(el))
  /\ exitList' = <<>>
-----------------------------------------------------------------------------
(* setcontext to t.  A new thread ("stub") enters thread_stub and unblocks *)
(* the signal; a thread that was switched out returns to its program with  *)
(* the signal as the call found it ("off": it had blocked it).  The        *)
(* interrupt handler's yield ("on") is followed by sigreturn, and          *)
(* thread_sleep always returns with the signal unblocked ("on").           *)
Resume(t) ==
  /\ current' = t
  /\ interrupts' = (ctx[t] # "off")

SavedMask == IF interrupts THEN "on" ELSE "off"

(* The first ready thread with identifier w.                               *)
FirstReady(w, i) ==
  /\ i \in DOMAIN readyList
  /\ id[readyList[i]] = w
  /\ \A j \in 1 .. i - 1 : id[readyList[j]] # w

(* The i-th thread is taken out of the ready list.                         *)
UnlinkedNot(i) == readyList \* mutant: it stays there
Unlinked(i) == RemoveAt(readyList, i)

(* The caller goes to the tail of the ready list.                          *)
RequeuedAtHead(ready) == <<current>> \o ready \* mutant
Requeued(ready) == Append(ready, current)

(* changeCurrentToTarget(w), with what a resumed caller finds in its mask. *)
ChangeCurrentTo(w, saved) ==
  \E i \in DOMAIN readyList :
    /\ FirstReady(w, i)
    /\ readyList' = Requeued(Unlinked(i))
    /\ status' = [status EXCEPT ![current] = "ready",
                                ![readyList[i]] = "run"]
    /\ ctx' = [ctx EXCEPT ![current] = saved]
    /\ Reap(exitList, wait)
    /\ Resume(readyList[i])
    /\ UNCHANGED <<id, pending, halt>>

(* thread_yield(THREAD_ANY).  With no ready thread it returns THREAD_NONE  *)
(* and changes nothing, as do THREAD_SELF and an invalid identifier.       *)
YieldAny ==
  /\ AtUser("yield")
  /\ readyList # <<>>
  /\ ChangeCurrentTo(id[Head(readyList)], SavedMask)

(* thread_yield(w) for an identifier w.                                    *)
YieldTid(w) ==
  /\ AtUser("yield")
  /\ threadArray[w] = 1
  /\ w # id[current]
  /\ ChangeCurrentTo(w, SavedMask)

(* The timer fires while the signal is unblocked, in program code or in    *)
(* the unblocked window of a call: interrupt_handler calls                 *)
(* thread_yield(THREAD_ANY).                                               *)
Preempt ==
  /\ Preemptive
  /\ halt = "none"
  /\ interrupts
  /\ readyList # <<>>
  /\ ChangeCurrentTo(id[Head(readyList)], "on")
-----------------------------------------------------------------------------
IsLeastFree(i, ta) == /\ ta[i] = 0
                      /\ \A j \in Tid : j < i => ta[j] # 0

(* thread_create, up to the point where it unblocks the signal.            *)
Create ==
  /\ AtUser("create")
  /\ \E n \in TCB \ ReapedHeap(exitList, wait), i \in Tid :
       /\ IsLeastFree(i, Released(IdsOf(exitList)))
       /\ heap' = ReapedHeap(exitList, wait) \cup {n}
       /\ threadArray' = [Released(IdsOf(exitList)) EXCEPT ![i] = 1]
       /\ queue' = [Destroyed(IdsOf(exitList)) EXCEPT ![i] = "live"]
       /\ wait' = [Emptied(wait, IdsOf(exitList)) EXCEPT ![i] = <<>>]
       /\ readyList' = Append(readyList, n)
       /\ id' = [id EXCEPT ![n] = i]
       /\ status' = [status EXCEPT ![n] = "ready"]
       /\ ctx' = [ctx EXCEPT ![n] = "stub"]
       /\ pending' = [pending EXCEPT ![n] = Idle,
                        ![current] = [op |-> "create", arg |-> n]]
  /\ exitList' = <<>>
  /\ UNCHANGED <<current, interrupts, halt>>

(* The rest of thread_create: return newThread->id.                        *)
CreateReturn ==
  /\ halt = "none"
  /\ pending[current].op = "create"
  /\ IF pending[current].arg \in heap
     THEN /\ pending' = [pending EXCEPT ![current] = Idle]
          /\ UNCHANGED <<heap, current, readyList, exitList, threadArray,
                         queue, wait, id, status, ctx, interrupts, halt>>
     ELSE Halt("use_after_free")

(* No identifier is free: THREAD_NOMORE, and the struct thread just        *)
(* allocated is dropped.                                                   *)
CreateNoMore ==
  /\ AtUser("create")
  /\ \A i \in Tid : Released(IdsOf(exitList))[i] # 0
  /\ \E n \in TCB \ ReapedHeap(exitList, wait) :
       /\ heap' = ReapedHeap(exitList, wait) \cup {n}
       /\ status' = [status EXCEPT ![n] = "ready"]
       /\ id' = [id EXCEPT ![n] = 0]
       /\ ctx' = [ctx EXCEPT ![n] = "stub"]
       /\ pending' = [pending EXCEPT ![n] = Idle]
  /\ threadArray' = Released(IdsOf(exitList))
  /\ queue' = Destroyed(IdsOf(exitList))
  /\ wait' = Emptied(wait, IdsOf(exitList))
  /\ exitList' = <<>>
  /\ UNCHANGED <<current, readyList, interrupts, halt>>

(* No memory for the stack: THREAD_NOMEMORY, with the identifier already   *)
(* marked as taken and the struct thread dropped.                          *)
CreateNoStack ==
  /\ MallocFails
  /\ AtUser("create")
  /\ \E n \in TCB \ ReapedHeap(exitList, wait), i \in Tid :
       /\ IsLeastFree(i, Released(IdsOf(exitList)))
       /\ heap' = ReapedHeap(exitList, wait) \cup {n}
       /\ threadArray' = [Released(IdsOf(exitList)) EXCEPT ![i] = 1]
       /\ status' = [status EXCEPT ![n] = "ready"]
       /\ id' = [id EXCEPT ![n] = 0]
       /\ ctx' = [ctx EXCEPT ![n] = "stub"]
       /\ pending' = [pending EXCEPT ![n] = Idle]
  /\ queue' = Destroyed(IdsOf(exitList))
  /\ wait' = Emptied(wait, IdsOf(exitList))
  /\ exitList' = <<>>
  /\ UNCHANGED <<current, readyList, interrupts, halt>>

(* Mutant: the NULL that malloc returned is queued as a thread.            *)
CreateNullThread ==
  /\ MallocFails
  /\ AtUser("create")
  /\ readyList' = Append(readyList, NULL)
  /\ UNCHANGED <<heap, current, exitList, threadArray, queue, wait, id,
                 status, ctx, pending, interrupts, halt>>

(* No memory for the struct thread: it is cleared before it is tested.     *)
CreateNoThread ==
  /\ MallocFails
  /\ AtUser("create")
  /\ Halt("null")
-----------------------------------------------------------------------------
(* thread_exit, and the return of a thread's function.                     *)
ExitBegin ==
  /\ AtUser("exit")
  /\ readyList # <<>>
  /\ status' = [status EXCEPT ![current] = "exit",
                              ![Head(readyList)] = "run"]
  /\ readyList' = Tail(readyList)
  /\ Resume(Head(readyList))
  /\ UNCHANGED <<id, ctx, pending, halt>>

(* Mutant: the assignment that is commented out in thread_exit.            *)
ExitGivesIdBack ==
  /\ ExitBegin
  /\ ctx[Head(readyList)] = "stub"
  /\ exitList' = Append(exitList, current)
  /\ threadArray' = [threadArray EXCEPT ![id[current]] = 0]
  /\ UNCHANGED <<heap, queue, wait>>

(* The next thread is new: nothing is reaped on its way to its function.   *)
ExitToNew ==
  /\ ExitBegin
  /\ ctx[Head(readyList)] = "stub"
  /\ exitList' = Append(exitList, current)
  /\ UNCHANGED <<heap, threadArray, queue, wait>>

(* The next thread returns from a library call, which reaps the caller.    *)
ExitToOld ==
  /\ ExitBegin
  /\ ctx[Head(readyList)] # "stub"
  /\ Reap(Append(exitList, current), wait)

(* No ready thread: exit(0).                                               *)
ExitProgram ==
  /\ AtUser("exit")
  /\ readyList = <<>>
  /\ exitList' = Append(exitList, current)
  /\ status' = [status EXCEPT ![current] = "exit"]
  /\ halt' = "exit"
  /\ UNCHANGED <<heap, current, readyList, threadArray, queue, wait, id, ctx,
                 pending, interrupts>>

(* thread_kill finds ready threads only; for any other it returns          *)
(* THREAD_INVALID.                                                         *)
Kill(w) ==
  /\ AtUser("kill")
  /\ \E i \in DOMAIN readyList :
       /\ FirstReady(w, i)
       /\ readyList' = Unlinked(i)
       /\ heap' = heap \ ({readyList[i]} \cup Waiters(wait, {w}))
  /\ threadArray' = Released({w})
  /\ queue' = Destroyed({w})
  /\ wait' = Emptied(wait, {w})
  /\ UNCHANGED <<current, exitList, id, status, ctx, pending, interrupts,
                 halt>>
-----------------------------------------------------------------------------
(* thread_yield_wait(q) in the order of the code: the caller joins the     *)
(* queue, the exit list is reaped, the head of the ready list runs.  The   *)
(* new running thread keeps the status it had.                             *)
JoinedAtHead(q) == [wait EXCEPT ![q] = <<current>> \o @] \* mutant
Joined(q) == [wait EXCEPT ![q] = Append(@, current)]

YieldWait(q, saved) ==
  \/ /\ queue[q] = "freed"
     /\ Halt("use_after_free")
  \/ /\ queue[q] = "live"
     /\ current \notin ReapedHeap(exitList, Joined(q))
     /\ Halt("free_running")
  \/ /\ queue[q] = "live"
     /\ current \in ReapedHeap(exitList, Joined(q))
     /\ readyList = <<>>
     /\ Halt("null")
  \/ /\ queue[q] = "live"
     /\ current \in ReapedHeap(exitList, Joined(q))
     /\ readyList # <<>>
     /\ status' = [status EXCEPT ![current] = "sleep"]
     /\ ctx' = [ctx EXCEPT ![current] = saved]
     /\ pending' = [pending EXCEPT ![current] = Idle]
     /\ Reap(exitList, Joined(q))
     /\ readyList' = Tail(readyList)
     /\ Resume(Head(readyList))
     /\ UNCHANGED <<id, halt>>

(* Some other thread is ready to run.                                      *)
OtherIsReadyNot == TRUE \* mutant: thread_sleep does not look
OtherIsReady == readyList # <<>>

(* thread_sleep up to the point where it restores the signal mask.  With   *)
(* no ready thread it returns THREAD_NONE.                                 *)
SleepCheck(q) ==
  /\ AtUser("sleep")
  /\ queue[q] = "live"
  /\ OtherIsReady
  /\ pending' = [pending EXCEPT ![current] = [op |-> "sleep", arg |-> q]]
  /\ UNCHANGED <<heap, current, readyList, exitList, threadArray, queue,
                 wait, id, status, ctx, interrupts, halt>>

(* The rest of thread_sleep: thread_yield_wait blocks the signal again.    *)
SleepCommit ==
  /\ halt = "none"
  /\ pending[current].op = "sleep"
  /\ YieldWait(pending[current].arg, "on")

(* thread_wait(w), atomic because thread_sleep finds the signal blocked.   *)
(* The only test of w is that its waitArray slot is not NULL.              *)
Wait(w) ==
  /\ AtUser("wait")
  /\ w # id[current]
  /\ OtherIsReady
  /\ YieldWait(w, SavedMask)

(* thread_wait of an identifier past the last one.                         *)
WaitBeyond ==
  /\ AtUser("wait")
  /\ Halt("out_of_bounds")

(* Status fields once the threads in S are woken.                          *)
WokenNot(S) == status \* mutant: they keep "sleep"
Woken(S) == [t \in TCB |-> IF t \in S THEN "ready" ELSE status[t]]

(* What thread_wakeup(q, 0) leaves on the queue.                           *)
RestWithHead(q) == wait[q] \* mutant: the woken thread too
RestNone(q) == <<>>        \* mutant: nothing, as if all were woken
Rest(q) == Tail(wait[q])

(* thread_wakeup(q, 0) and thread_wakeup(q, 1).                            *)
WakeOne(q) ==
  /\ AtUser("wakeup")
  /\ queue[q] = "live"
  /\ wait[q] # <<>>
  /\ readyList' = Append(readyList, Head(wait[q]))
  /\ wait' = [wait EXCEPT ![q] = Rest(q)]
  /\ status' = Woken({Head(wait[q])})
  /\ UNCHANGED <<heap, current, exitList, threadArray, queue, id, ctx,
                 pending, interrupts, halt>>

WakeAll(q) ==
  /\ AtUser("wakeup")
  /\ queue[q] = "live"
  /\ wait[q] # <<>>
  /\ readyList' = readyList \o wait[q]
  /\ wait' = [wait EXCEPT ![q] = <<>>]
  /\ status' = Woken(Range(wait[q]))
  /\ UNCHANGED <<heap, current, exitList, threadArray, queue, id, ctx,
                 pending, interrupts, halt>>
-----------------------------------------------------------------------------
(* wait_queue_create and wait_queue_destroy of the program's own queues.   *)
(* The program destroys a queue only when no thread that can still run is  *)
(* about to sleep on it, which it can know; whether one sleeps on it       *)
(* already is for wait_queue_destroy to check (thread.h): it does not.     *)
QueueCreate(q) ==
  /\ AtUser("queue")
  /\ queue[q] # "live"
  /\ queue' = [queue EXCEPT ![q] = "live"]
  /\ wait' = [wait EXCEPT ![q] = <<>>]
  /\ UNCHANGED <<heap, current, readyList, exitList, threadArray, id, status,
                 ctx, pending, interrupts, halt>>

QueueDestroy(q) ==
  /\ AtUser("destroy")
  /\ queue[q] = "live"
  /\ \A t \in Range(readyList) : pending[t] # [op |-> "sleep", arg |-> q]
  /\ heap' = heap \ Waiters(wait, {q})
  /\ queue' = Destroyed({q})
  /\ wait' = Emptied(wait, {q})
  /\ UNCHANGED <<current, readyList, exitList, threadArray, id, status, ctx,
                 pending, interrupts, halt>>

(* interrupts_set by the program.                                          *)
SetInterrupts(b) ==
  /\ AtUser("mask")
  /\ interrupts # b
  /\ interrupts' = b
  /\ UNCHANGED <<heap, current, readyList, exitList, threadArray, queue,
                 wait, id, status, ctx, pending, halt>>

(* The program is over, or an undefined step was taken.                    *)
Stopped ==
  /\ halt # "none"
  /\ UNCHANGED vars
-----------------------------------------------------------------------------
Next ==
  \/ YieldAny
  \/ \E w \in Tid : YieldTid(w) \/ Kill(w) \/ Wait(w)
  \/ Preempt
  \/ Create
  \/ CreateReturn
  \/ CreateNoMore
  \/ CreateNoStack
  \/ CreateNoThread
  \/ ExitToNew
  \/ ExitToOld
  \/ ExitProgram
  \/ SleepCommit
  \/ WaitBeyond
  \/ \E q \in UserQueue :
       \/ SleepCheck(q)
       \/ WakeOne(q)
       \/ WakeAll(q)
       \/ QueueCreate(q)
       \/ QueueDestroy(q)
  \/ \E b \in BOOLEAN : SetInterrupts(b)
  \/ Stopped

Spec == Init /\ [][Next]_vars
-----------------------------------------------------------------------------
(* What the running program owes the library, and what the kernel gives    *)
(* it.  A SIGALRM that expires while the signal is blocked stays pending   *)
(* and interrupts the next unblocked stretch, however short: that is       *)
(* strong fairness of Preempt (interrupt_handler rearms the timer before   *)
(* it yields).  A program that masks the signal unmasks it some time, even *)
(* when it makes other calls meanwhile.  A thread that is inside a call    *)
(* goes on while it runs.                                                  *)
Fairness ==
  /\ SF_vars(Preempt)
  /\ SF_vars(SetInterrupts(TRUE))
  /\ WF_vars(CreateReturn)
  /\ WF_vars(SleepCommit)

FairSpec == Spec /\ Fairness
-----------------------------------------------------------------------------
Running == IF halt = "exit" THEN {} ELSE {current}

(* The threads that the library can still reach.                           *)
Known == Running \cup Range(readyList) \cup Range(exitList)
                 \cup Waiters(wait, Queue)

(* Every thread is in one place: it runs, or it is once on one of the      *)
(* lists that are threaded through the one field struct thread.next.  A    *)
(* thread in two places would make two lists share a tail.                 *)
OnePlace ==
  /\ IsInjective(readyList)
  /\ IsInjective(exitList)
  /\ \A q \in Queue : IsInjective(wait[q])
  /\ Range(readyList) \cap Range(exitList) = {}
  /\ \A q \in Queue :
       Range(wait[q]) \cap (Range(readyList) \cup Range(exitList)) = {}
  /\ \A q, r \in Queue : q # r => Range(wait[q]) \cap Range(wait[r]) = {}
  /\ Running \cap (Range(readyList) \cup Range(exitList) \cup Waiters(wait, Queue)) = {}

(* Nothing that a list or current points to has been freed: thread_kill,   *)
(* the reaping loops and wait_queue_destroy free whole threads, and none   *)
(* of them leaves a pointer to one behind in another list.                 *)
KnownAllocated == Known \subseteq heap

(* An identifier means one thread until that thread is reaped: it is       *)
(* marked in threadArray, no other thread has it, and the queue behind     *)
(* waitArray[id] is the one made for this thread, not one that the last    *)
(* thread with this identifier left behind.                                *)
OwnIds ==
  /\ \A t \in Known : threadArray[id[t]] = 1 /\ queue[id[t]] = "live"
  /\ \A t, u \in Known : id[t] = id[u] => t = u

(* Only a queue that is alive has threads on it, and a live waitArray      *)
(* queue belongs to an identifier that is taken, so the reaping loops      *)
(* never destroy a queue twice.                                            *)
QueuesSound ==
  /\ \A q \in Queue : wait[q] # <<>> => queue[q] = "live"
  /\ \A i \in Tid : queue[i] = "live" => threadArray[i] = 1

(* The status field agrees with the list that a thread is on, except that  *)
(* a thread which runs because another one went to sleep still says        *)
(* "ready": thread_yield_wait does not set it.                             *)
StatusTracksPlace ==
  /\ \A t \in Range(readyList) : status[t] = "ready"
  /\ \A t \in Waiters(wait, Queue) : status[t] = "sleep"
  /\ \A t \in Range(exitList) : status[t] = "exit"
  /\ halt # "exit" => status[current] \in {"run", "ready"}

(* A taken identifier is held by some thread, which will give it back: no  *)
(* sequence of calls loses identifiers for good (as long as no thread is   *)
(* freed while it sleeps and malloc does not fail).                        *)
IdsConserved == \A i \in Tid : threadArray[i] = 1 => \E t \in Known : id[t] = i

(* The library never takes a step that C leaves undefined.                 *)
NoFault == halt \notin Undefined
-----------------------------------------------------------------------------
(* The life of each thread, read off the lists.                            *)
Phase(t) ==
  CASE t \in Running -> "running"
    [] t \in Range(readyList) -> "ready"
    [] t \in Range(exitList) -> "exited"
    [] t \in Waiters(wait, Queue) -> "asleep"
    [] OTHER -> "none"

Life == INSTANCE ThreadLife
          WITH Thread <- TCB,
               phase <- [t \in TCB |-> Phase(t)],
               over <- (halt = "exit")

(* The package gives every thread the life that thread.h promises (as long *)
(* as no call frees the threads on a queue: see WaitersSurvive): no        *)
(* sequence of calls and timer interrupts makes a thread vanish while it   *)
(* sleeps, run again after it exited, or run without having been ready.    *)
LivesAsPromised == Life!Spec
-----------------------------------------------------------------------------
Precedes(s, a, b) ==
  \E i, j \in DOMAIN s : i < j /\ s[i] = a /\ s[j] = b

(* The ready list is served in order of arrival: whoever is on it and      *)
(* stays on it stays ahead of everyone who was behind or comes later.      *)
NoOvertaking ==
  [][\A a \in Range(readyList) \cap Range(readyList'), b \in Range(readyList') :
       (a # b /\ ~Precedes(readyList, b, a)) => Precedes(readyList', a, b)]_vars

(* The first thread to sleep on a queue is woken first (thread.h), whether *)
(* threads are woken one by one or all together: on the queue nobody gets  *)
(* past a thread that was there before, nor on the way to the ready list.  *)
FifoWakeup ==
  [][\A q \in UserQueue :
       /\ \A a \in Range(wait[q]) \cap Range(wait'[q]), b \in Range(wait'[q]) :
            (a # b /\ ~Precedes(wait[q], b, a)) => Precedes(wait'[q], a, b)
       /\ \A i, j \in DOMAIN wait[q] :
            (i < j /\ wait[q][j] \in Range(readyList'))
              => Precedes(readyList', wait[q][i], wait[q][j])]_vars

(* With the timer on, a ready thread gets the processor, is killed, or the *)
(* program ends, whatever the other threads do.                            *)
EveryReadyThreadRuns ==
  \A t \in TCB : t \in Range(readyList)
                 ~> (current = t \/ t \notin heap \/ halt # "none")
-----------------------------------------------------------------------------
(* What thread.h says of the package and the code does not do.  Each is     *)
(* refuted by a run of its own.                                            *)

(* thread_wait suspends the caller until the other thread exits and then   *)
(* returns: a thread that waits for another one is not destroyed with it.  *)
WaitersSurvive == [][\A i \in Tid : Range(wait[i]) \subseteq heap']_vars

(* thread_sleep returns THREAD_NONE when no other thread can run, rather   *)
(* than switch to a thread that is no longer there.                        *)
SleepFindsAThread == halt # "null"
=============================================================================
