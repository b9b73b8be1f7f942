# Formal models of the thread package, the web server and the warm-up programs

This directory holds TLA+ models of the programs in `src/`, the TLC
configurations that check them on small instances, and theorems that TLAPS
proves about them for every size. Every definition is translated from the C
source; `PROJECT.json` says from which lines.

## 1. The system

The repository holds the programs of an operating systems course: a thread
package, a web server with its clients and file sets, and small warm-up
programs.

| Component | Source | State | Operations |
| --- | --- | --- | --- |
| Thread package, scheduler | `threads/thread.c` 8-380, `interrupt.c` | ready list, exit list, `current`, `threadArray`, `waitArray`, the struct threads | `thread_init`, `thread_id`, `thread_create`, `thread_yield`, `thread_exit`, `thread_kill`, `interrupts_set`, the SIGALRM handler |
| Thread package, wait queues | `thread.c` 461-782 | the list behind each `struct wait_queue` | `wait_queue_create/destroy`, `thread_sleep`, `thread_wakeup`, `thread_wait` |
| Thread package, locks and condition variables | `thread.c` 784-880 | none | empty: every function calls `TBD()` |
| Web server, request buffer | `webserver/server_thread.c` 195-270, 459-503, `server.c` | ring buffer `buffer/in/out`, `exiting`, a mutex, two condition variables, the worker threads | `server_init`, `server_request`, `stub`, `server_exit` |
| Web server, file cache | `server_thread.c` 29-192, 272-458 | hash table of chains, FIFO list, `memoryLeft`, `using` counts, `RAMLock` | `do_server_request`, `cache_lookup/insert/remove`, `evict`, `removeNode` |
| Web server, requests and buffered I/O | `request.c`, `common.c` | a connection: the kernel's two directions, `struct rio`, the line and the buffer that are being read | `request_init/readfile/sendfile/error/destroy`, `rio_write`, `rio_readb`, `rio_readlineb` |
| Clients | `client.c`, `client_simple.c` | the file set, the counters of one answer | `init_fileset`, `client_request`, `client_send`, `client_print` |
| File sets | `fileset.c` | the files on disk, the index, `idx_buffer` | `main`: delete, make, write, list |
| Word count | `warmup/wc.c`, `test_wc.c` | the hash table of counts | `wc_init`, `wc_output`, `wc_destroy` |
| cpr | `warmup/cpr.c` | the two trees, the calls of `copyDirect`, the open file | `copyDirect`, `copyFile` |
| fact | `warmup/fact.c` | none | `main`, `helper` |
| Scripts; `point`, `words`, `hello`, `hi`; the marker's copy | `webserver/*-experiment`, `warmup/`, `marker/` | none | not modelled, see 6 |

How they interact. The thread package is one process with one kernel thread:
the struct threads, the lists and the two arrays are global, every entry point
blocks SIGALRM (`interrupts_set(0)`), and the timer's handler calls
`thread_yield(THREAD_ANY)`. A call that switches threads returns in another
thread. In the web server the main thread accepts connections and puts their
descriptors into the ring buffer under `lock`; each worker takes one out and
runs `do_server_request`, which looks in the cache under `RAMLock`, reads the
file outside it, inserts under it, sends outside it. `server_exit` sets
`exiting` and broadcasts without taking `lock`, then joins the workers. A worker
and a client talk over a connection, each through its own `struct rio`, in
pieces that the kernel cuts as it likes; either may go away at any time. The
file set, which the server serves, is made by `fileset`, and the client reads
its index to know what to ask for and what to expect.

What is hard:

* **Threads.** The windows where SIGALRM is unblocked inside a call (after
  `thread_create` queued the thread, between the two halves of
  `thread_sleep`); one `next` field for every list; identifiers, struct threads
  and wait queues that are freed by *other* threads' calls; `waitArray`
  pointers that outlive what they point to.
* **Request buffer.** Lost wake-ups, a full or empty ring, the order of
  `exiting`, the broadcast and a worker's test of the buffer.
* **Cache.** Files that are read outside the lock by two workers at once;
  eviction while a file is being sent; the chains, the FIFO list and
  `memoryLeft` that must agree.
* **Connections.** Short reads and writes, lines and headers in pieces, the end
  of the stream in the middle of a line, resets, a full socket, clients that die.
* **File sets.** `fileset` killed between any two of its system calls, and run
  again over what it left; an index that is cut short; overflow of the total.
* **Warm-up programs.** Buckets shared by different words, the ends of the text
  and of its last page; directories that must be writable until all is in them;
  failing calls in the middle of a copy; `int` overflow.

What makes each component correct is stated, in words, above each property of
its module. `PROJECT.json` lists every hazard met in the code at its line, with
the property that covers it or the reason why none does.

## 2. Modules

| Module | Models | Kind |
| --- | --- | --- |
| `Threads` | the whole thread package with the timer | component |
| `ThreadLife` | what `thread.h` promises about each thread's life | abstract |
| `MCThreads` | small instances of `Threads` | model checking |
| `ListLemmas` | sequences as linked lists: append, unlink, splice; induction over the natural numbers, running totals and other loops | lemmas |
| `ThreadsProofs` | invariants and action properties of `Threads`, and that it implements `ThreadLife` | proofs |
| `RequestBuffer` | `main`'s loop, `server_request`, `stub`, `server_exit` | component |
| `BoundedFifo` | what the request buffer promises: a FIFO queue whose items are served once | abstract |
| `MCRequestBuffer` | small instances of `RequestBuffer` | model checking |
| `RequestBufferProofs` | invariants of `RequestBuffer`, and that it implements `BoundedFifo` | proofs |
| `FileCache` | `do_server_request` and the cache functions | component |
| `MCFileCache` | small instances of `FileCache` | model checking |
| `FileCacheProofs` | invariants of `FileCache`, and the order of eviction | proofs |
| `ByteStream` | what the Rio package promises: a lossless, ordered stream of bytes | abstract |
| `Connection` | the kernel's connection and the Rio package at both ends | component |
| `Exchange` | a worker's `request.c` and a client over a `Connection` | component, composition |
| `MCExchange` | small files for `Exchange` | model checking |
| `ExchangeProofs` | `Exchange` implements `ByteStream`; what each end has yet to hear, and what follows for the clients' assertions, resets and buffers | proofs |
| `FileSet` | `fileset.c`, and `init_fileset` and the requests of `client.c` over what it leaves | component, composition |
| `WordCount` | `wc.c` | component |
| `WordCountProofs` | the only inputs on which `wc_init` faults; the counts are right | proofs |
| `CopyTree` | `cpr.c` | component |
| `CopyTreeProofs` | a copy is never refused, and is like its source | proofs |
| `Factorial` | `fact.c` | algorithm |
| `Programs` | the last four components next to each other, one of which runs | composition |
| `MCPrograms` | small inputs for `Programs` | model checking |
| `ProgramsProofs` | `FileSet`: the index is true, when the client's assertions hold; `Factorial`: the answers are right; all of `Programs`: types | proofs |

### 2.1 Threads

**State.** `heap` is the set of struct threads that are allocated;
`readyList`, `exitList` and `wait[q]` are the linked lists, as sequences;
`queue[q]` says whether the `struct wait_queue` behind a `waitArray` slot or a
program variable is live or freed; `id`, `status` are fields of the struct
threads; `ctx[t]` abstracts its saved context to what the thread does first
when it is resumed: enter `thread_stub` ("stub"), or return to its program with
the signal unblocked ("on") or blocked ("off"). `pending[t]` marks the two
calls that are not atomic, `interrupts` is the signal mask, `halt` records the
end of the program or the first step that C leaves undefined, after which the
model stops.

**Actions.** One per entry point and outcome: an entry point runs with the
signal blocked, so it is one step up to the moment program code runs again, the
switch and what the resumed thread does inside the library included (a thread
resumed in `changeCurrentToTarget` or `thread_yield_wait` reaps the exit list, a
new one does not: `ExitToOld` and `ExitToNew`). `thread_create` is split before
`return newThread->id`, `thread_sleep` before `thread_yield_wait`. `Preempt` is
the SIGALRM handler. Calls that only return a code (`thread_id`,
`THREAD_SELF`, an invalid argument) change no state and are no actions.

**Abstracted.** Registers and stacks; the arguments of threads; return values,
except where a property needs them; `malloc` failing inside `wait_queue_create`
(an assertion). A `thread_wait` called with the signal blocked is unblocked by
`thread_yield_wait` when it is resumed (`thread.c:508`) and blocked again at
line 771; between the two it does nothing, and that it may be preempted there is
left out. `wait_queue_destroy` is called of a queue on which no living thread is
about to sleep; with sleepers, it ends them. Memory that was freed may be handed out by the next `malloc`: a
struct thread is an element of `TCB` and is reused.

**Bounds.** Three or four struct threads, three identifiers, one queue of the
program's own. Three threads are enough for every pair of lists to be
non-empty while a third thread runs; three identifiers with four struct threads
let `thread_create` run out of identifiers; identifiers and struct threads are
reused as often as one likes, so runs have no length bound.

**Fairness** (`FairSpec`). `SF(Preempt)`: the timer is one-shot and re-armed by
the handler before it yields (`interrupt.c:172`), and a SIGALRM that expires
while blocked stays pending in the kernel, so it interrupts the next unblocked
stretch. `SF(SetInterrupts(TRUE))`: a program that blocks the signal unblocks
it some time; this is an obligation of the program. `WF(CreateReturn)`,
`WF(SleepCommit)`: a running thread goes on with the call it is in. No fairness
is assumed of the program's calls.

### 2.2 RequestBuffer

**State.** `buffer`, `in`, `out` and `exiting` are the fields of `struct
server`. `mpc` is where `main` is: in `poll`, in `server_request` with a
connection in its hands (`connfd`), waiting on `full`, woken, or in the three
stages of `server_exit`. `wpc[w]` is where each worker is: at the top of its
loop, at `pthread_cond_wait` with the lock held ("empty"), waiting, woken,
serving `job[w]`, returned.

**Actions.** What a thread does between locking and unlocking `sv->lock` is one
action, for the ring is touched nowhere else. The exception is
`server_exit`, which writes `exiting` and broadcasts *without* the lock, and so
can fall between a worker's test of the buffer and its wait: a worker in
"empty" holds the lock (`LockFree` is false) and goes on with `BeginWait`.
`pthread_cond_signal` wakes one waiter, any one, or nobody; POSIX lets a wait
end without a signal (`SpuriousWorker`, `SpuriousMain`). `Serve` stands for all
of `do_server_request`, which ends with the connection closed. The kernel gives
`accept` a descriptor that is not open.

**Bounds.** Two workers, a ring of two (three slots, so that `in` and `out`
wrap), four descriptors: the ring can be full while `main` waits with another
connection and one worker serves, or both workers serve and nothing waits.
Nothing is cut off: the state
space is finite.

**Fairness** (`FairSpec`). `WF` of a step that needs no lock (`BeginWait`,
`Serve`, `Broadcast`, `Join`): a thread that can go on does; a client that
never finishes its request would block `Serve`, and is excluded by this. `SF`
of `main`'s locked step, and of the *pool's*: whoever keeps asking for the
mutex gets it some time, but nothing is said of which worker does, as mutexes are
not fair between equals. Nothing makes a connection arrive, the server exit, or
a wait end by itself.

### 2.3 FileCache

**State.** `hashtable[i]` is the chain of bucket `i`, a sequence of blocks;
`heap[b]` is the `struct data` in a block, or `NULL` when the block is not
allocated; `FIFO` is the list of names, `FIFO_head` first; `memoryLeft` as in
the code. `file_name[w]` and `temp[w]` are the locals of `do_server_request`,
`pc[w]` its progress, and `node` the place of `evict` in the list. A file is a
name with a size and a hash; its contents are the same whenever it is read.

**Actions.** A critical section of `RAMLock` is one action (`CacheLookup`,
`CacheInsert`, `Release`), except that each round of `evict`'s loop is a step of
its own, with the lock held (`pc[w] = "evict"`). Reading the file (`ReadFile`,
which may fail) and sending it happen between them, without the lock. What
`cache_remove` loses is kept as long as a worker sends it, and then
forgotten: nothing can reach it. `malloc` returns any block that is not in use.

**Abstracted.** With `max_cache_size = 0` requests share nothing; the model
assumes a positive size. `RAMLock` and the table are never initialised in the
code; the model takes the case in which `malloc` returned zeroed memory, the
only one in which the server works.

**Bounds.** Two workers; a cache of four bytes; three files of one byte, one of
four and one of five, which never fits. Two of the small files share a bucket;
the third is alone with the one that never fits, so that `Lone` holds of it. A
chain holds two files; `evict` meets files in use, unused files and lost ones,
and loses one that it has just passed, which needs four bytes (see 4). Five
blocks are enough for what the table and the workers can hold, so `malloc` never
fails. The state space is finite without any cut.

### 2.4 Connection and Exchange

**State.** `wire[e]` is what the kernel holds for end `e` to read, `out[e]` what
`e`'s `rio_write` has yet to write, `rio_buf[e]` the unread bytes of its `struct
rio`, `line[e]` what its `rio_readlineb` has stored so far. `pc` is where each
end is; `method`, `uri` and `buf` are the worker's locals, `length`, `csum` and
the two counts `client_print`'s. A byte is a number; a line of a request or an
answer is the bytes that one of the readers looks at, and a formatted number is
one byte. `asked` is all that the client says on its connection.

**Actions.** A system call, or a turn of a loop of the package: `Write` moves
any part of `out` that the socket has room for, `Refill` any part of what is
there to read, `NextByte` is a turn of `rio_readlineb`. Above it each action is
what its owner does with one line (`ReadRequest`, `ReadHeader`, `ReadStatus`,
`ReadTag`, `ReadBody`), one answer (`Respond`, which is `request_sendfile` or
`request_error`), or the end of a connection (`Finish`, `Check`). An end that
closes with unread bytes resets the other (`reset`), as TCP does: its reads and
writes then fail, and what it had not read is lost. A failing read or write ends
the process by `unix_error` or SIGPIPE, and for the server that is the whole
server (`ServerFails`). The client is `client` (which makes `NrTimes` requests
for files of its index and checks what it gets), `client_simple` (one request
for any name), or one of another make, which says any of the sequences of bytes
in the constant `Others`: what it says need not be a request, its lines may be of
any length, and its headers may have no end, in which case it may keep the
worker waiting (`Stalls`). Any client may be killed at any moment
(`ClientKilled`).

`request_init` and `request_read_headers` give `rio_readlineb` all of their
buffer, so that a line of `MAXLINE` bytes has its terminating zero stored behind
it (`Overrun`). What is there is the compiler's choice: the model lets the
process go on as if nothing happened, with any `method` and `uri`, or end
(`ServerSmashed`, `ClientSmashed`). What `sscanf` does not find in a line stays
what it was on the stack (`Scanned`), and so does `buf` at the end of the stream:
`ReadRequest` then chooses any of it.

**Abstracted.** The text of requests and pages, so that `request_error`'s page
does not quote its cause; names have no white space; `request_parse_URI`; how
`request_readfile` reads the file; a client's threads, which share nothing but the
file set they read: one of them is modelled.

**Bounds.** A buffer of two bytes for `struct rio`, four for a line, twelve for a
socket, so that refills, lines and writes end in each other's middle, and a
writer blocks; two files, one with a line that fills a line's buffer, and
a name that is no file; two requests of `client`. The clients of another make
say four things: a method that is refused, in a line that fills the worker's
buffer; a name that the end of the buffer cuts off; a header whose rest, after
the buffer is full, looks like the empty line; and headers without an end. In
`exchange_hang` there are none of them: what it shows happens with the clients of
this repository alone. Smaller sockets only add
more of the same waits; the file is longer than the line's buffer and shorter
than the socket.

**Fairness** (`FairSpec`). `WF` of each process' steps: both are scheduled, and
the kernel delivers what it holds. Nothing makes a client die, or say the rest of
its headers, or lets the zero behind a buffer do harm.

### 2.5 FileSet

**State.** `disk` is the directory, `idx_count` and `idx` the first line and the
other lines of the index on disk; `nr_files`, `current_fileset_sz`,
`total_fileset_sz`, `file_sz`, `remaining`, `idx_buffer` are `main`'s variables;
`fileset`, `nr_entries` and `line_nr` the client's. `complete` says that the last
run of `fileset` came to its end. `csum` follows from the file's number and the
seed, which is fixed.

**Actions.** One per system call that changes the disk (`FsUnlink`, `FsCreate`,
`FsWrite` of one block, `FsTruncate`, `FsCount`, `FsEntry`), for `FsKilled` may
fall between any two of them; the next `FsStart` goes on from what is there. The
client reads the index line by line (`ClLine`), and aborts where an assertion of
`init_fileset` fails; then it asks for files at random, and `ClGet` compares the
file's size and checksum with the index, as `client_print` does. `rand_int`
draws from 0 on: `random` may return 0, and then the assertion at
`common.c:327` fails (`"rand_abort"`). That end of the client is in the model,
but `ClAborts` is about the assertions of `init_fileset` and `client_print` only,
which check the file set and not the numbers drawn.

**Abstracted.** `stat` and `unlink` succeed: the code ignores their failures
(`fileset.c:88-90`), and a file that it cannot delete stays.

**Bounds.** Two or three files of two or three bytes in blocks of two, an index
with room for three lines, the largest `int` 15, so that one set of parameters
overflows. Any number of runs.

**Fairness** `WF(FsStep)`: `fileset`, once started, goes on.

### 2.6 WordCount, CopyTree, Factorial

`WordCount`: a turn of `wc_init`'s loop is an action (`WcLetter`, `WcNoWord`,
`WcWord`), on the letters, the space and the one character past the text, which
is unmapped when the text fills its last page (`WcUnmapped`; were there another
mapping behind it, `wc.c:50-51` would go on with an arbitrary character, which
is left out); a table without
buckets divides by zero (`WcNoBucket`). A chain is the sequence of its words and
counts. All texts of up to seven characters, one bucket for three, pages of four:
texts with no bucket, one bucket and two, and of one page and of a full one.

`CopyTree`: the recursion of `copyDirect` is the stack of the directories that
are being read, with what each has yet to read; `readdir` returns it in any
order. Each system call that changes the copy is an action, and any call may
fail (`CpFail`). A path is a sequence of names. Two trees: a read-only file of
two blocks, and a write-protected directory with a file and a directory in it,
next to an empty file and something that is neither; blocks of two bytes, and
short writes.

`Factorial`: `main` as one step, `helper` as a recursive function. All strings
of up to three characters around the ends of the digits.

`Programs` puts these four, which never meet, into one specification, so that
one run checks them: `prog` chooses the program, and the others stand still.

## 3. Runs

| Run | Question | Result |
| --- | --- | --- |
| `threads_full` | Every call, timer on, malloc failing, three struct threads: are the lists disjoint, the pointers valid, the identifiers unique, the statuses right, the queues FIFO? | holds, 478,907 states |
| `threads_coop` | No timer, `thread_wait`, destruction or failing malloc, four struct threads: is an undefined step reachable, is an identifier lost, does the package implement `ThreadLife`? | holds, 287,676 states |
| `threads_live` | Lab 2 calls with the timer: does every ready thread run? | holds under `FairSpec`, 85,182 states |
| `threads_wait_lost` | `thread.h:115`: `thread_wait` returns when the other thread exits | violated: the waiter is freed with the thread it waits for |
| `threads_sleep_race` | `thread.h:102`: `thread_sleep` returns `THREAD_NONE` when nobody else can run | violated: preempted between the test and the switch, it dereferences NULL |
| `reqbuf_safe` | Two workers, spurious wake-ups, exit at any time: is each connection served once, in order, no wake-up lost, every request taken? | holds under `FairSpec`, 132,612 states |
| `reqbuf_exit` | `server_thread.c:483`: `server_exit` waits for the workers to exit, "before exiting" | violated: a worker that was busy, or about to wait, at the broadcast never returns |
| `cache_safe` | Files that share buckets: is no block freed while it is sent, no file stored twice, every byte charged to a name, the oldest file evicted first; and is a file with a bucket of its own always listed, and cached while it is sent? | holds, 72,699 states |
| `cache_node` | `server_thread.c:404`: a name in the list that is not in the cache "should not be the case" | violated: `cache_remove` drops the chain behind a first file |
| `exchange_safe` | Three kinds of clients, pieces of any size, clients that die: does Rio implement `ByteStream`, do the clients' assertions hold, is no answer lost to a reset, for which lines alone is a zero stored behind their buffer, do both sides come to an end? | holds under `FairSpec`, 55,041 states |
| `exchange_hang` | `request.c:101`: `request_init` "returns NULL on failure" | violated: when a client goes away in the middle of its headers, `request_read_headers` reads at the end of the stream for ever |
| `programs_safe` | Do `wc`, `cpr`, `fact` and `fileset` compute what they are for, and fault only where they must; does the client find a true index, and `fileset` end? | holds, 175,950 states |

`LoneListed` and `LoneStaysCached` show that the one flaw behind `cache_node` is
what breaks the promise: what happens in a shared bucket never harms a file that
has its bucket to itself. Even with the flaw, `memoryLeft` and the list agree:
the lost bytes stay charged to names that nobody finds (`CacheFits`).

Other disagreements of the thread package are modelled, and end in a step that C
leaves undefined or in a leak, without a run of their own: `thread_wait` of an
identifier past `waitArray` (`WaitBeyond`), `thread_wait` of an identifier whose
thread was reaped, or of an exited thread that is not reaped yet, `thread_create`
writing through NULL (`CreateNoThread`) or, preempted before its return, reading
the identifier of a thread that was freed meanwhile, and the struct thread lost
with `THREAD_NOMORE` (`CreateNoMore`). `NoFault`, in `threads_coop`, says that
without the timer, `thread_wait`, the destruction of queues in use and failing
`malloc` none of them is reached.

`CpMirrors` excepts copies in which a write was short: `copyFile` compares what
`write` returns with 0 only, and nothing in the program promises more.
`ServerReturns` excepts clients that die, of which `exchange_hang` is a case,
clients that keep the worker waiting for the rest of their headers, and workers
that end by a line too long for its buffer; `ClientEnds` excepts the second.

`OverrunOnlyLong` says where the buffer of a line is *not* respected, at either
end: the code reads `MAXLINE` bytes into `MAXLINE` bytes (`request.c:63`, 65, 118,
`client.c:56`, `common.c:143-163`). The clients of this repository never send such
a line; another client may, and the run reaches it. A file with such a line does it
to the client that asks for it; what `fileset.c` writes has no newlines at all, so
there it is every file of at least `MAXBUF` bytes.

## 4. Proofs

All theorems hold for every value of the constants that the `ASSUME` of the
module allows.

`ThreadsProofs` proves, for any number of struct threads, identifiers and
program queues, with or without the timer and failing malloc, from
`ThreadsAssumption` alone, that `TypeOK`, `OnePlace`, `KnownAllocated`,
`OwnIds`, `QueuesSound` and `StatusTracksPlace` hold in every reachable state.
None of them is inductive alone: that a freed thread is on no other list
(`KnownAllocated`) needs that a thread is on one list only (`OnePlace`), and
that reaping one identifier's queue frees nobody else's sleepers needs that
identifiers are unique (`OwnIds`) and queues sound. The inductive invariant
`IInv` is their conjunction, phrased over the *sets* of threads on each list
(`Shape`) so that a step is one of a few set rearrangements: a thread moves
between lists (lemma `Rearranged`), some are freed (`Freed`), one is allocated
(`Allocated`), the exit list is reaped (`Reaped`). `ListLemmas` supplies what
append, unlink and splice do to those sets.

The same lemmas about lists give the two action properties, under the same
assumption alone: `NoOvertaking` and `FifoWakeup`. Each operation of `thread.c`
keeps the order of a list (`Kept`), but for the one that it moves.

What the package promises holds only of programs that stay off its flaws, and
the theorems say of which, in hypotheses on `Calls`, `Preemptive` and
`MallocFails`:

* `LivesAsPromised`, the refinement of `ThreadLife`, if the program calls neither
  `thread_wait` nor `wait_queue_destroy`, with preemption and failing `malloc`.
  Then nobody sleeps on a queue of `waitArray` (`NobodyWaits`), so that reaping a
  thread ends no other. Each step moves at most the threads that it names
  between the phases of `ThreadLife`.
* `IdsConserved`, if besides `malloc` does not fail: an identifier is lost only when
  there is no memory for a stack (`CreateNoStack`), or when a queue that is
  destroyed frees its sleepers.
* `NoFault`, without the timer, `thread_wait` and failing `malloc`, though queues
  may be destroyed while threads sleep on them. `CallsUndisturbed` says that
  what a call found at its start still holds at its end.

`threads_coop` checks the three on an instance that satisfies all of these
hypotheses; without them `threads_wait_lost` and `threads_sleep_race` show two
of the ways in which they fail.

`RequestBufferProofs` proves, for every finite, non-empty set of workers and
every ring size (`RequestBufferAssumption`), that `TypeOK`, `OneOwner` and
`NoLostWakeup` hold, and that the ring implements `BoundedFifo`. It starts from
the arithmetic of the ring: `RingCount` is the distance from `out` to `in`, the
k-th request is at `At(out, k)`, and storing and taking append to and cut the
sequence `Queued` (`RingPut`, `RingTake`). `NoLostWakeup` compares the number of
requests with the *cardinality* of the set of workers on their way; it is
inductive with `Phases` (what `mpc` and `wpc` say about `connfd`, `job` and
`exiting`), as one signal moves one worker into the set, and one request leaves
whenever a worker does.

`FileCacheProofs` proves, for all files, sizes, hashes and finite sets of
workers (`FileCacheAssumption`), that `UsingCounts` and `CachedOnce` hold. The
invariant adds that each chain is injective, holds allocated blocks whose names
hash to it and differ (`Chains`), and that at most one worker is in `evict`, for a
file that is `Absent`. With different names in a chain, `SelectInSeq` finds one
block (`PlaceFound`); that eviction frees nobody's block is then that a count of
zero means an empty set of users. It holds in spite of the chains that are lost.

On top of it, `LoneInv` is about the files that share their bucket with no
other that fits: such a file's chain holds it alone, so that `cache_remove` of it
loses nothing, and no other file's removal touches its chain. `LoneListed` and
`LoneStaysCached` follow; the hard step is a round of `evict` (`NodeEvicted`), in
which the table and the list lose the same file, and only one without users.

`LedgerInv` keeps the books: `memoryLeft` and the sizes of the names in the list
add up to the size of the cache, each cached file has its name there
(`CacheFits`), and what a running `evict` has passed is in use or not in the
cache (`Passed`). The sum over a list is characterised by its running totals,
which exist and are unique (`ListLemmas`), so that a name appended adds its
size and a name taken away, at any place, subtracts it. `TypeOK`, whose bounds on
`memoryLeft` are the point of it, and `EvictsOldest` follow.

`EvictsOldest` was corrected by its proof. It used to say that whatever was
listed longer than the evicted file is in use, which held on the instance
checked then, a cache of three bytes. But `evict` may pass a file in use, and then
remove the first file of the chain in which that one is: `cache_remove` loses the
rest of the chain, and the passed file is no more in the cache, though in the list.
The property now excepts files that are not in the cache, and the run has a
cache of four bytes, in which this happens.

`ExchangeProofs` proves that `Exchange` implements `ByteStream`, for any files,
any sizes of the buffers, of lines and of sockets, and clients killed at any
moment (`ConnectionAssumption`, `ExchangeAssumption`: an error page fits into a
socket's buffer). The refinement mapping is the concatenation of what the reader
has buffered, what the kernel holds, and what the writer has yet to write
(`Pending`): a system call moves a byte from one of the three to the next, a
stutter; `NextByte` takes the head; `Say` extends the tail. The invariant
ties `pc` to `open`: a program is inside its part of the protocol exactly while
its end is open, and a closed end holds no bytes. No fact about what checksums
and lengths come to is needed.

From the stream follows what the two programs know of each other. `Talk` says
that what an end has yet to read (`Unread`: the line so far and what is underway)
is at every point the rest of what the other one says: for the worker, the rest of
the request, of which a killed client may leave only a beginning; for the client,
the rest of the answer, with what it has counted of it so far (`Counted`). A
line is read up to its newline or the end of the buffer, and in both cases the
rest is again such a rest (`Within`). It yields `TypeOK`, `AssertionsHold`,
`GetNotReset` and `OverrunOnlyLong`, with `MaxLine >= 4` as the only hypothesis: the
longest line of this repository's requests, and the longest header of an answer,
has three bytes in the model and must fit into a line with its zero (in the code
`MAXLINE` is 8192). Of a client of another make nothing is assumed; its lines
have any length. What a worker knows of one is `Overheard`: what it has yet to read
is a stretch of what was said, so that a line of `MaxLine` bytes without a newline
before the last is one in `asked` (`ServerOverrunIsLong`); and a client's lines
that are as long are in the page it is answered with (`ClientOverrunIsLong`), as no
status line or header fills the buffer.

`WordCountProofs` proves `WcFaultsOnly` for any text, hash and page size: `head`
never runs further than one past the text, and a text has no bucket only when it
is shorter than `Ratio`. And it proves `WcOutput`, that the words are counted
right, without any further hypothesis. `CountInv` says that the cursor stands in a
word that begins at `start` (`Cursor`), and that the table holds each word that has
ended so far, once, in the chain of its hash, with the number of places where it
ended (`Tabled`). A turn of the loop that ends a word adds one such place to one
word (`OneMoreEnd`), which its chain has (`CountAgain`) or has not (`CountFirst`).
What is printed is the chains one behind the other: that nothing is in it twice
needs that a word has one hash (`HashType` says only that it is a number).

`CopyTreeProofs` proves `CpNotDenied` and `CpMirrors` for every set of
well-formed trees (`IsTree`: a node's ancestors are directories), any order of
the entries and any block size. `Frames` says that the calls on the stack are
those of the directories from the root down, k names deep at place k, and none has
its final mode yet: that is why no call is refused. `Exact` says what is there and
not on the stack or being copied is like the source; `Whole` says what is not there
is at or below an entry that some call has yet to read, so that nothing is left
out when the stack is empty. The step of the recursion, `CopyDirectStep`, is
proved once, for the root and for an entry, from the lemma that what is below a
directory is below one of its children (`Below`).

`ProgramsProofs` proves, of `FileSet`, `FsIndexTrue` and `ClAborts` for any
parameters, sizes, number of runs and kills. `GenInv` says, for each place of
`main`, what the run has made so far: the files on disk are those noted in
`idx_buffer`, and one more in the middle of a file; the index on disk is, in the
last loop, a prefix of it. It says nothing of a run that was killed, but that
the next one first deletes what is there. The client's part adds that what it
has read is a part of the index, and that the index does not change under it.
`ClAborts` leaves aside the assertion of `rand_int`, which has nothing to do with
the file set.

Of `Factorial` it proves `FactAnswers` for any set of arguments. The reference is a
fold over the *set* `1 .. n`, which says nothing of an order: `TimesIsProduct`
proves by induction on the size of a set that it is the product of the running
products (`Products`), `TimesOf` that it satisfies the equation of the factorial,
`HelperIs` that the recursion of `helper` computes it, and `FitsIs` that the
reference's test by division says exactly whether it is an `int`. The hypothesis
on the constants is that 12! is an `int` and 13! is not, without which the code's
test `num > 12` is wrong.

Of `Programs` it proves that a behaviour of the four programs together is one of
each (`ProgramsAsSpecified`), so that what is proved of each specification holds of
what `programs_safe` checks, and `TypesOK`.

Induction. The induction theorems of the library take an operator as a parameter,
which the provers cannot instantiate. `ListLemmas` states induction over the
natural numbers for *sets* instead (`SetInduction`, from the well-foundedness of
the order), and from it that running totals and, more generally, the steps of any
loop exist (`TotalsExist`, `IteratesExist`). That a recursive function satisfies its
equation is proved by giving a function that does.

Only model-checked is liveness, which is out of the prover's reach:
`EveryReadyThreadRuns`, `EveryRequestTaken`, `ClientEnds`, `ServerReturns` and
`FsEnds`. Every safety invariant, action property and refinement that a passing
run checks is stated by a theorem; `NoFault`, `IdsConserved` and `LivesAsPromised`
under the hypotheses above. The runs that expect a violation have no theorem, of
course.

## 5. What is left

* `IdsConserved` and `NoFault` with the timer: `CreateReturn` reads the identifier of a
  thread that may be freed, so that the theorems would have to say for which
  programs that does not happen.
* The server composed of its parts: `RequestBuffer` stands for a request by
  `Serve`, which `FileCache` and `Exchange` each refine by themselves.

## 6. Not modelled

* Locks and condition variables of the thread package: every function of them
  calls `TBD()`.
* `changeCurrentToTarget2` in `thread.c`, and `releaseMemory`, `FIFO_pop_tail`
  and `FIFO_find` in `server_thread.c`: nobody calls them.
* `point.c` (floating point over two numbers), `words.c`, `hello.c`, `hi.c`
  (they print their arguments), the demonstrations and tests of the thread
  package, the scripts that run the server and draw plots.
* The second copy of the web server under `src/marker`, which is the same, file
  for file: what is said of the original holds of it.
* `max_cache_size = 0`, in which workers share nothing; the text of headers and
  pages; `request_parse_URI`; the timing mode of the client.
* A `SIGALRM` in the few instructions between `thread.c:508` and 771; failing
  `unlink`s in `fileset`; a mapped page behind the text of `wc`. Each is described
  in 2.1, 2.5 and 2.6.
* A path's 100 characters in `cpr`: paths have no length in the model.
