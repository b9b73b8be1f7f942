----------------------------- MODULE FileCache -----------------------------
(***************************************************************************)
(* The file cache of the web server: do_server_request and the cache       *)
(* functions of server_thread.c.                                           *)
(*                                                                         *)
(* Cached files hang in the chains of a hash table, and a list FIFO names  *)
(* them, newest first.  Both, memoryLeft and the using counts belong to    *)
(* whoever holds sv->RAMLock, so each critical section is one action; only *)
(* evict, which may run long, is an action per round of its loop, with the *)
(* lock held ("evict").  Without the lock, workers read files and send     *)
(* them, and the others go on.                                             *)
(***************************************************************************)
EXTENDS Integers, Sequences, FiniteSets, SequencesExt

CONSTANTS
  Worker,  \* the threads that call do_server_request
  File,    \* file names
  Size,    \* file_size of each file
  Hash,    \* hash of each name
  MaxSize, \* max_cache_size
  Block,   \* the blocks that malloc may return for a struct data
  NULL

Data == [string : File, using : Nat]

ASSUME FileCacheAssumption ==
  /\ Size \in [File -> Nat]
  /\ Hash \in [File -> Nat]
  /\ MaxSize \in Nat \ {0}
  /\ IsFiniteSet(Worker)
  /\ NULL \notin Block \cup Data

Bucket == 0 .. MaxSize - 1

VARIABLES
  hashtable,  \* the chain of blocks of each bucket
  heap,       \* what each block holds, NULL if it was never given or freed
  FIFO,       \* the names in the list, from FIFO_head to FIFO_tail
  memoryLeft,
  node,       \* where evict is in the list
  pc,         \* where each worker is in do_server_request
  file_name,  \* data->file_name of each worker
  temp        \* the block each worker counts as using, or NULL

vars == <<hashtable, heap, FIFO, memoryLeft, node, pc, file_name, temp>>
cache == <<hashtable, heap, FIFO, memoryLeft, node>>

TypeOK ==
  /\ hashtable \in [Bucket -> Seq(Block)]
  /\ heap \in [Block -> Data \cup {NULL}]
  /\ FIFO \in Seq(File)
  /\ memoryLeft \in 0 .. MaxSize
  /\ node \in 0 .. Len(FIFO)
  /\ pc \in [Worker -> {"idle", "lookup", "read", "insert", "evict", "send"}]
  /\ file_name \in [Worker -> File]
  /\ temp \in [Worker -> Block \cup {NULL}]

Init ==
  /\ hashtable = [i \in Bucket |-> <<>>]
  /\ heap = [b \in Block |-> NULL]
  /\ FIFO = <<>>
  /\ memoryLeft = MaxSize
  /\ node = 0
  /\ pc = [w \in Worker |-> "idle"]
  /\ file_name \in [Worker -> File]
  /\ temp = [w \in Worker |-> NULL]

LockFree == \A w \in Worker : pc[w] # "evict"

Index(f) == Hash[f] % MaxSize

(* The blocks that the table reaches.                                      *)
Cached == UNION {Range(hashtable[i]) : i \in Bucket}

(* cache_lookup: where the name is in its chain, 0 if it is not there.     *)
Place(f) == SelectInSeq(hashtable[Index(f)], LAMBDA b : heap[b].string = f)
InCache(f) == Place(f) # 0
Lookup(f) == hashtable[Index(f)][Place(f)]

FitsEmpty(f) == Size[f] <= MaxSize \* mutant: memoryLeft is not looked at
Fits(f) == memoryLeft >= Size[f]

Goto(w, l) == pc' = [pc EXCEPT ![w] = l]
-----------------------------------------------------------------------------
(* request_init: a GET request for a file.                                 *)
Request(w, f) ==
  /\ pc[w] = "idle"
  /\ file_name' = [file_name EXCEPT ![w] = f]
  /\ Goto(w, "lookup")
  /\ UNCHANGED <<cache, temp>>

(* A file in the cache is marked as used, and sent from the cache.         *)
HitUncounted(w) == temp' = [temp EXCEPT ![w] = Lookup(file_name[w])]
                   /\ UNCHANGED heap \* mutant: using is not counted
Hit(w) ==
  LET b == Lookup(file_name[w]) IN
    /\ heap' = [heap EXCEPT ![b].using = @ + 1]
    /\ temp' = [temp EXCEPT ![w] = b]

CacheLookup(w) ==
  /\ pc[w] = "lookup"
  /\ LockFree
  /\ \/ /\ InCache(file_name[w])
        /\ Hit(w)
        /\ Goto(w, "send")
     \/ /\ ~InCache(file_name[w])
        /\ Goto(w, "read")
        /\ UNCHANGED <<heap, temp>>
  /\ UNCHANGED <<hashtable, FIFO, memoryLeft, node, file_name>>

(* request_readfile, which sends an error if there is no such file.        *)
ReadFile(w) ==
  /\ pc[w] = "read"
  /\ \/ Goto(w, "idle")
     \/ Goto(w, "insert")
  /\ UNCHANGED <<cache, file_name, temp>>

(* The file goes to the end of its chain and to the head of the list.      *)
PutFree(w) == UNCHANGED memoryLeft \* mutant: the memory is not charged
Charge(w) == memoryLeft' = memoryLeft - Size[file_name[w]]

Put(w) ==
  LET f == file_name[w] IN
  \E b \in Block :
    /\ heap[b] = NULL
    /\ heap' = [heap EXCEPT ![b] = [string |-> f, using |-> 1]]
    /\ hashtable' = [hashtable EXCEPT ![Index(f)] = Append(@, b)]
    /\ FIFO' = <<f>> \o FIFO
    /\ Charge(w)
    /\ temp' = [temp EXCEPT ![w] = b]
    /\ node' = 0
    /\ Goto(w, "send")
    /\ UNCHANGED file_name

(* cache_insert refuses: the worker sends its own copy.                    *)
Refuse(w) ==
  /\ node' = 0
  /\ Goto(w, "send")
  /\ UNCHANGED <<hashtable, heap, FIFO, memoryLeft, file_name, temp>>

(* A file is refused if it can never fit, or if another worker has put it  *)
(* in the cache while this one was reading it.                             *)
UnwantedTwice(f) == Size[f] > MaxSize \* mutant: no second lookup
Unwanted(f) == Size[f] > MaxSize \/ InCache(f)

Newest == 1 \* mutant: the list is walked from the other end
Oldest == Len(FIFO)

CacheInsert(w) ==
  LET f == file_name[w] IN
  /\ pc[w] = "insert"
  /\ LockFree
  /\ \/ /\ Unwanted(f)
        /\ Refuse(w)
     \/ /\ ~Unwanted(f)
        /\ Fits(f)
        /\ Put(w)
     \/ /\ ~Unwanted(f)
        /\ ~Fits(f)
        /\ node' = Oldest
        /\ Goto(w, "evict")
        /\ UNCHANGED <<hashtable, heap, FIFO, memoryLeft, file_name, temp>>
-----------------------------------------------------------------------------
(* cache_remove: the place of the name in its chain is bypassed.  When it  *)
(* is the first, the whole chain goes: what follows it is leaked.  A block *)
(* that is freed or that nothing points to any more is NULL again.         *)
CacheRemove(f) ==
  LET b == Lookup(f)
      rest == IF Place(f) = 1 THEN <<>> ELSE RemoveAt(hashtable[Index(f)], Place(f))
      lost == Range(hashtable[Index(f)]) \ Range(rest)
  IN
    /\ hashtable' = [hashtable EXCEPT ![Index(f)] = rest]
    /\ heap' = [x \in Block |->
                  IF x = b \/ (x \in lost /\ heap[x].using = 0)
                  THEN NULL ELSE heap[x]]
    /\ memoryLeft' = memoryLeft + Size[f]

(* evict gives up at the end of the list, or at a name that is not in the  *)
(* cache.                                                                  *)
GiveUp == node # 0 => ~InCache(FIFO[node])

InUseNever(b) == FALSE \* mutant: using is not looked at
InUse(b) == heap[b].using # 0

RemoveNodeNot == UNCHANGED FIFO \* mutant: the node stays in the list
RemoveNode == FIFO' = RemoveAt(FIFO, node)

(* A file in use is stepped over; another one goes, and its node.          *)
StepOver ==
  /\ InUse(Lookup(FIFO[node]))
  /\ UNCHANGED <<hashtable, heap, FIFO, memoryLeft>>

EvictNode ==
  /\ ~InUse(Lookup(FIFO[node]))
  /\ CacheRemove(FIFO[node])
  /\ RemoveNode

Evict(w) ==
  /\ pc[w] = "evict"
  /\ \/ /\ Fits(file_name[w])
        /\ Put(w)
     \/ /\ ~Fits(file_name[w])
        /\ GiveUp
        /\ Refuse(w)
     \/ /\ ~Fits(file_name[w])
        /\ ~GiveUp
        /\ StepOver \/ EvictNode
        /\ node' = node - 1
        /\ UNCHANGED <<pc, file_name, temp>>
-----------------------------------------------------------------------------
(* request_sendfile is over; the count of a block of the cache goes down.  *)
Sent(w) ==
  /\ pc[w] = "send"
  /\ temp[w] = NULL
  /\ Goto(w, "idle")
  /\ UNCHANGED <<cache, file_name, temp>>

Release(w) ==
  LET b == temp[w] IN
  /\ pc[w] = "send"
  /\ b # NULL
  /\ LockFree
  /\ heap' = [heap EXCEPT ![b] = IF @.using = 1 /\ b \notin Cached
                                 THEN NULL
                                 ELSE [string |-> @.string, using |-> @.using - 1]]
  /\ temp' = [temp EXCEPT ![w] = NULL]
  /\ Goto(w, "idle")
  /\ UNCHANGED <<hashtable, FIFO, memoryLeft, node, file_name>>

WorkerStep(w) ==
  \/ \E f \in File : Request(w, f)
  \/ CacheLookup(w) \/ ReadFile(w)
  \/ CacheInsert(w) \/ Evict(w)
  \/ Sent(w) \/ Release(w)

Next == \E w \in Worker : WorkerStep(w)

Spec == Init /\ [][Next]_vars
-----------------------------------------------------------------------------
Users(b) == {w \in Worker : temp[w] = b}

(* No block is freed while a worker sends from it, and using says how many *)
(* do, though a block may leave the table, and its place be taken, in the  *)
(* meantime.                                                               *)
UsingCounts ==
  /\ \A w \in Worker : temp[w] # NULL => heap[temp[w]] # NULL
  /\ \A b \in Block : heap[b] # NULL => heap[b].using = Cardinality(Users(b))

(* Two workers that read the same file at the same time do not both store  *)
(* it, each file is in the chain its name hashes to, and no chain reaches  *)
(* a block that was freed.                                                 *)
CachedOnce ==
  /\ \A b \in Cached : heap[b] # NULL
  /\ \A i \in Bucket :
       /\ \A b \in Range(hashtable[i]) : Index(heap[b].string) = i
       /\ \A j, k \in DOMAIN hashtable[i] :
            heap[hashtable[i][j]].string = heap[hashtable[i][k]].string => j = k

(* What the files of a list take.                                          *)
Charged(list) ==
  LET sum[n \in 0 .. Len(list)] ==
        IF n = 0 THEN 0 ELSE sum[n - 1] + Size[list[n]]
  IN sum[Len(list)]

(* Every byte is accounted for: what is not left is charged to a name in   *)
(* the list, and the names of all cached files are there.                  *)
CacheFits ==
  /\ memoryLeft + Charged(FIFO) = MaxSize
  /\ \A b \in Cached : heap[b].string \in Range(FIFO)

(* What evict removes from the list is not in use, and everything behind   *)
(* it, which has been there longer, is, unless it is not in the cache any  *)
(* more: the same evict may have lost it, with the rest of its chain.      *)
EvictsOldest ==
  [][Len(FIFO') < Len(FIFO) =>
       /\ node # 0
       /\ Users(Lookup(FIFO[node])) = {}
       /\ \A j \in node + 1 .. Len(FIFO) :
            InCache(FIFO[j]) => Users(Lookup(FIFO[j])) # {}]_vars

(* No other file that may be cached has the bucket of f.                   *)
Lone(f) == \A g \in File \ {f} : Size[g] <= MaxSize => Index(g) # Index(f)

(* The table and the list agree on such a file, whatever happens to others *)
(* that share a bucket: it is listed once if it is cached, or not at all.  *)
LoneListed ==
  \A f \in File : Lone(f) =>
    /\ InCache(f) <=> f \in Range(FIFO)
    /\ \A j, k \in DOMAIN FIFO : FIFO[j] = f /\ FIFO[k] = f => j = k

(* And it stays in the cache while it is sent from there.                  *)
LoneStaysCached ==
  \A w \in Worker :
    temp[w] # NULL /\ Lone(file_name[w]) => temp[w] \in Cached
-----------------------------------------------------------------------------
(* "Not found in cache, should not be the case": whatever evict meets in   *)
(* the list is in the cache.                                               *)
EvictFindsEveryNode ==
  \A w \in Worker :
    pc[w] = "evict" /\ ~Fits(file_name[w]) /\ node # 0 => InCache(FIFO[node])
=============================================================================
