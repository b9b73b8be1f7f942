-------------------------- MODULE FileCacheProofs --------------------------
(***************************************************************************)
(* The file cache stores no file twice, frees no block that is being sent, *)
(* accounts for every byte and evicts the oldest file first, for any       *)
(* number of workers and files, any sizes and hashes.                      *)
(***************************************************************************)
EXTENDS FileCache, ListLemmas, FiniteSetTheorems

(* The type invariant without the upper bound on memoryLeft.               *)
Types ==
  /\ hashtable \in [Bucket -> Seq(Block)]
  /\ heap \in [Block -> Data \cup {NULL}]
  /\ FIFO \in Seq(File)
  /\ node \in 0 .. Len(FIFO)
  /\ pc \in [Worker -> {"idle", "lookup", "read", "insert", "evict", "send"}]
  /\ file_name \in [Worker -> File]
  /\ temp \in [Worker -> Block \cup {NULL}]

(* The chain of bucket i, given what the blocks hold.                      *)
Chain(c, h, i) ==
  /\ IsInjective(c)
  /\ \A b \in Range(c) : h[b] # NULL /\ Index(h[b].string) = i
  /\ \A b1, b2 \in Range(c) : h[b1].string = h[b2].string => b1 = b2

Chains == \A i \in Bucket : Chain(hashtable[i], heap, i)

Absent(f) == \A b \in Range(hashtable[Index(f)]) : heap[b].string # f

(* Only a worker that sends has a block; at most one worker is in evict,   *)
(* and the file it stores is not in the cache.                             *)
Phases ==
  /\ \A w \in Worker : temp[w] # NULL => pc[w] = "send"
  /\ \A w \in Worker : pc[w] = "evict" => Absent(file_name[w])
  /\ \A v, w \in Worker : pc[v] = "evict" /\ pc[w] = "evict" => v = w

IInv == Types /\ Chains /\ Phases /\ UsingCounts
-----------------------------------------------------------------------------
LEMMA IndexIsBucket == \A f \in File : Index(f) \in Bucket
BY FileCacheAssumption DEF Index, Bucket

(* A string of blocks in different chains differs.                         *)
LEMMA ChainsApart ==
  ASSUME Chains, NEW i \in Bucket, NEW j \in Bucket,
         NEW b \in Range(hashtable[i]), b \in Range(hashtable[j])
  PROVE  i = j
BY DEF Chains, Chain

(* SelectInSeq finds the one block of the chain that has the name.         *)
LEMMA PlaceFound ==
  ASSUME Types, Chains, NEW f \in File
  PROVE  /\ ~InCache(f) <=> Absent(f)
         /\ InCache(f) =>
              /\ Place(f) \in DOMAIN hashtable[Index(f)]
              /\ Lookup(f) = hashtable[Index(f)][Place(f)]
              /\ Lookup(f) \in Range(hashtable[Index(f)])
              /\ Lookup(f) \in Block
              /\ heap[Lookup(f)] \in Data
              /\ heap[Lookup(f)].string = f
<1> DEFINE s == hashtable[Index(f)]
           I == {i \in 1 .. Len(s) : heap[s[i]].string = f}
<1>1. Index(f) \in Bucket /\ s \in Seq(Block) /\ Chain(s, heap, Index(f))
  BY IndexIsBucket DEF Types, Chains
<1>2. Place(f) = IF I # {} THEN Min(I) ELSE 0
  BY DEF Place, SelectInSeq
<1>3. \A y : y \in Range(s) <=> \E i \in 1 .. Len(s) : s[i] = y
  <2> HIDE DEF s
  <2>1. QED
    BY <1>1, RangeMember
<1>4. I = {} <=> Absent(f)
  BY <1>3 DEF Absent
<1>5. ASSUME I # {}
      PROVE  /\ Place(f) \in 1 .. Len(s)
             /\ s[Place(f)] \in Range(s)
             /\ heap[s[Place(f)]].string = f
  <2>1. PICK p \in I : TRUE
    BY <1>5
  <2>2. \A i \in I : i = p
    <3>1. SUFFICES ASSUME NEW i \in I PROVE i = p
      OBVIOUS
    <3>2. s[i] \in Range(s) /\ s[p] \in Range(s) /\ i \in DOMAIN s /\ p \in DOMAIN s
      BY <1>1, <1>3
    <3>3. s[i] = s[p]
      BY <1>1, <3>2 DEF Chain
    <3>4. QED
      BY <1>1, <3>2, <3>3 DEF Chain, IsInjective
  <2>3. I = {p} /\ p \in Nat
    BY <1>1, <2>2
  <2>4. Min(I) = p
    <3> HIDE DEF I
    <3>1. Min({p}) = p
      BY <2>3 DEF Min
    <3>2. QED
      BY <2>3, <3>1
  <2>5. QED
    BY <1>2, <1>3, <1>5, <2>4
<1>6. InCache(f) <=> I # {}
  <2> HIDE DEF s, I
  <2>1. I # {} => Place(f) # 0
    BY <1>5
  <2>2. I = {} => Place(f) = 0
    BY <1>2
  <2>3. QED
    BY <2>1, <2>2 DEF InCache
<1>7. ASSUME I # {} PROVE Lookup(f) = s[Place(f)] /\ Lookup(f) \in Block
  BY <1>1, <1>5, <1>7 DEF Lookup
<1>8. ASSUME I # {} PROVE heap[Lookup(f)] \in Data
  BY <1>1, <1>5, <1>7, <1>8 DEF Types, Chain
<1>9. QED
  BY <1>1, <1>4, <1>5, <1>6, <1>7, <1>8

LEMMA UsersFinite == \A b : IsFiniteSet(Users(b)) /\ Cardinality(Users(b)) \in Nat
BY FileCacheAssumption, FS_Subset, FS_CardinalityType DEF Users

(* A block with using = 0 has no users.                                    *)
LEMMA NoUsers ==
  ASSUME Types, UsingCounts, NEW b \in Block, heap[b] # NULL
  PROVE  heap[b].using = 0 <=> \A w \in Worker : temp[w] # b
<1>1. heap[b].using = Cardinality(Users(b))
  BY DEF UsingCounts
<1>2. Cardinality(Users(b)) = 0 <=> Users(b) = {}
  BY UsersFinite, FS_EmptySet
<1>3. QED
  BY <1>1, <1>2 DEF Users

LEMMA CachedIn == \A b : b \in Cached <=> \E i \in Bucket : b \in Range(hashtable[i])
BY DEF Cached

(* A step that changes no chain, and no name in a chain.                   *)
LEMMA SameChains ==
  ASSUME Types, Chains, hashtable' = hashtable,
         \A b \in Cached : heap'[b] # NULL /\ heap'[b].string = heap[b].string
  PROVE  Chains' /\ \A f \in File : Absent(f) => Absent(f)'
<1>1. \A i \in Bucket : \A b \in Range(hashtable[i]) :
        heap'[b] # NULL /\ heap'[b].string = heap[b].string
  BY CachedIn
<1>2. Chains'
  BY <1>1 DEF Chains, Chain
<1>3. \A f \in File : Absent(f) => Absent(f)'
  BY <1>1, IndexIsBucket DEF Absent
<1>4. QED
  BY <1>2, <1>3

(* A step that leaves all blocks and chains alone, and no block is given   *)
(* to a worker or taken from one.                                          *)
LEMMA SameCache ==
  ASSUME Types, Chains, UsingCounts, hashtable' = hashtable, heap' = heap, temp' = temp
  PROVE  Chains' /\ UsingCounts' /\ \A f \in File : Absent(f) => Absent(f)'
<1>1. Chains' /\ \A f \in File : Absent(f) => Absent(f)'
  <2>1. \A b \in Cached : heap'[b] # NULL /\ heap'[b].string = heap[b].string
    BY CachedIn DEF Chains, Chain
  <2>2. QED
    BY <2>1, SameChains
<1>2. UsingCounts'
  BY DEF UsingCounts, Users
<1>3. QED
  BY <1>1, <1>2

(* A worker that got a block, or gave it back, changes the count by one.   *)
LEMMA UserAdded ==
  ASSUME Types, NEW w \in Worker, NEW b \in Block, temp[w] = NULL,
         temp' = [temp EXCEPT ![w] = b]
  PROVE  /\ Cardinality(Users(b)') = Cardinality(Users(b)) + 1
         /\ \A x \in Block : x # b => Users(x)' = Users(x)
<1>1. NULL \notin Block /\ b # NULL
  BY FileCacheAssumption
<1>2. Users(b)' = Users(b) \cup {w} /\ w \notin Users(b)
  BY <1>1 DEF Users, Types
<1>3. \A x \in Block : x # b => Users(x)' = Users(x)
  BY <1>1 DEF Users, Types
<1>4. Cardinality(Users(b) \cup {w}) = Cardinality(Users(b)) + 1
  BY <1>2, UsersFinite, FS_AddElement
<1>5. QED
  BY <1>2, <1>3, <1>4

LEMMA UserRemoved ==
  ASSUME Types, NEW w \in Worker, NEW b \in Block, temp[w] = b,
         temp' = [temp EXCEPT ![w] = NULL]
  PROVE  /\ Cardinality(Users(b)') = Cardinality(Users(b)) - 1
         /\ Cardinality(Users(b)) >= 1
         /\ \A x \in Block : x # b => Users(x)' = Users(x)
<1>1. NULL \notin Block /\ b # NULL
  BY FileCacheAssumption
<1>2. temp'[w] = NULL /\ \A v \in Worker : v # w => temp'[v] = temp[v]
  BY DEF Types
<1>3. Users(b)' = Users(b) \ {w} /\ w \in Users(b)
  BY <1>1, <1>2 DEF Users
<1>4. \A x \in Block : x # b => Users(x)' = Users(x)
  BY <1>1, <1>2 DEF Users
<1>5. /\ Cardinality(Users(b) \ {w}) = Cardinality(Users(b)) - 1
      /\ Cardinality(Users(b)) # 0
  BY <1>3, UsersFinite, FS_RemoveElement, FS_EmptySet
<1>6. QED
  BY <1>3, <1>4, <1>5, UsersFinite

LEMMA InitInv == Init => IInv
<1>1. SUFFICES ASSUME Init PROVE IInv
  OBVIOUS
<1>2. Types
  BY <1>1 DEF Init, Types
<1>3. Chains
  BY <1>1 DEF Init, Chains, Chain, Range, IsInjective
<1>4. Phases /\ UsingCounts
  BY <1>1 DEF Init, Phases, UsingCounts
<1>5. QED
  BY <1>2, <1>3, <1>4 DEF IInv

(* Put: a new block for a file that is not in the cache.                   *)
LEMMA PutStep ==
  ASSUME IInv, NEW w \in Worker, Put(w), temp[w] = NULL,
         Absent(file_name[w]), pc[w] = "evict" \/ LockFree
  PROVE  IInv'
<1> DEFINE f == file_name[w]
           i == Index(f)
<1>0. Types /\ Chains /\ Phases /\ UsingCounts
  BY DEF IInv
<1>1. PICK b \in Block :
        /\ heap[b] = NULL
        /\ heap' = [heap EXCEPT ![b] = [string |-> f, using |-> 1]]
        /\ hashtable' = [hashtable EXCEPT ![i] = Append(@, b)]
        /\ FIFO' = <<f>> \o FIFO
        /\ temp' = [temp EXCEPT ![w] = b]
        /\ node' = 0
        /\ pc' = [pc EXCEPT ![w] = "send"]
        /\ file_name' = file_name
  BY DEF Put, Goto
<1>2. /\ f \in File /\ i \in Bucket /\ NULL \notin Block
      /\ \A j \in Bucket : hashtable[j] \in Seq(Block)
  BY <1>0, IndexIsBucket, FileCacheAssumption DEF Types
<1> HIDE DEF f, i
<1>3. /\ Append(hashtable[i], b) \in Seq(Block)
      /\ Range(Append(hashtable[i], b)) = Range(hashtable[i]) \cup {b}
      /\ b \notin Range(hashtable[i]) => IsInjective(Append(hashtable[i], b))
  BY <1>0, <1>2, AppendList DEF Chains, Chain
<1>4. /\ heap'[b] = [string |-> f, using |-> 1]
      /\ heap'[b] \in Data /\ heap'[b] # NULL
      /\ \A x \in Block : x # b => heap'[x] = heap[x]
      /\ heap' \in [Block -> Data \cup {NULL}]
  <2>1. heap'[b] \in Data
    BY <1>0, <1>1, <1>2 DEF Types, Data
  <2>2. heap'[b] # NULL
    BY <2>1, FileCacheAssumption
  <2>3. QED
    BY <1>0, <1>1, <1>2, <2>1, <2>2 DEF Types
<1>5. \A j \in Bucket : /\ \A x \in Range(hashtable[j]) : x # b /\ x \in Block
                        /\ b \notin Range(hashtable[j])
  BY <1>0, <1>1, <1>2, RangeType DEF Chains, Chain
<1>6. Chains'
  <2>1. SUFFICES ASSUME NEW j \in Bucket PROVE Chain(hashtable'[j], heap', j)
    BY DEF Chains
  <2>2. CASE j # i
    <3>1. hashtable'[j] = hashtable[j]
      BY <1>0, <1>1, <2>2 DEF Types
    <3>2. Chain(hashtable[j], heap, j) /\ \A x \in Range(hashtable[j]) : heap'[x] = heap[x]
      BY <1>0, <1>4, <1>5 DEF Chains
    <3>3. QED
      BY <3>1, <3>2 DEF Chain
  <2>3. CASE j = i
    <3>1. hashtable'[j] = Append(hashtable[i], b)
      BY <1>0, <1>1, <1>2, <2>3 DEF Types
    <3>2. Chain(hashtable[i], heap, i) /\ \A x \in Range(hashtable[i]) : heap'[x] = heap[x]
      BY <1>0, <1>2, <1>4, <1>5 DEF Chains
    <3>3. IsInjective(hashtable'[j]) /\ Range(hashtable'[j]) = Range(hashtable[i]) \cup {b}
      BY <1>2, <1>3, <1>5, <3>1
    <3>4. \A x \in Range(hashtable[i]) : heap[x].string # f
      BY DEF Absent, f, i
    <3>5. heap'[b].string = f /\ Index(f) = i
      BY <1>4 DEF i
    <3>6. QED
      BY <1>4, <2>3, <3>2, <3>3, <3>4, <3>5 DEF Chain
  <2>4. QED
    BY <2>2, <2>3
<1>7. Types'
  <2>1. hashtable' \in [Bucket -> Seq(Block)]
    BY <1>0, <1>1, <1>2, <1>3 DEF Types
  <2>2. FIFO' \in Seq(File) /\ node' \in 0 .. Len(FIFO')
    BY <1>0, <1>1, <1>2 DEF Types
  <2>3. /\ pc' \in [Worker -> {"idle", "lookup", "read", "insert", "evict", "send"}]
        /\ file_name' \in [Worker -> File] /\ temp' \in [Worker -> Block \cup {NULL}]
    BY <1>0, <1>1 DEF Types
  <2>4. QED
    BY <1>4, <2>1, <2>2, <2>3 DEF Types
<1>8. Phases'
  <2>1. \A v \in Worker : /\ v # w => temp'[v] = temp[v] /\ pc'[v] = pc[v]
                          /\ pc'[w] = "send"
    BY <1>0, <1>1 DEF Types
  <2>2. \A v \in Worker : v # w => pc[v] # "evict"
    BY <1>0 DEF Phases, LockFree
  <2>3. QED
    BY <1>0, <2>1, <2>2 DEF Phases
<1>9. UsingCounts'
  <2>1. /\ Cardinality(Users(b)') = Cardinality(Users(b)) + 1
        /\ \A x \in Block : x # b => Users(x)' = Users(x)
    BY <1>0, <1>1, UserAdded
  <2>2. Users(b) = {}
    BY <1>0, <1>1, <1>2 DEF Users, UsingCounts
  <2>3. Cardinality(Users(b)') = 1
    BY <2>1, <2>2, FS_EmptySet
  <2>4. \A v \in Worker : temp'[v] # NULL => heap'[temp'[v]] # NULL
    <3>1. SUFFICES ASSUME NEW v \in Worker, temp'[v] # NULL PROVE heap'[temp'[v]] # NULL
      OBVIOUS
    <3>2. CASE v = w
      BY <1>0, <1>1, <1>4, <3>2 DEF Types
    <3>3. CASE v # w
      <4>1. temp'[v] = temp[v] /\ temp[v] \in Block /\ heap[temp[v]] # NULL
        BY <1>0, <1>1, <3>1, <3>3 DEF Types, UsingCounts
      <4>2. QED
        BY <1>1, <1>4, <4>1
    <3>4. QED
      BY <3>2, <3>3
  <2>5. ASSUME NEW x \in Block, heap'[x] # NULL
        PROVE  heap'[x].using = Cardinality(Users(x)')
    <3>1. CASE x = b
      BY <1>4, <2>3, <3>1
    <3>2. CASE x # b
      <4>1. heap'[x] = heap[x] /\ Users(x)' = Users(x)
        BY <1>4, <2>1, <3>2
      <4>2. QED
        BY <1>0, <2>5, <4>1 DEF UsingCounts
    <3>3. QED
      BY <3>1, <3>2
  <2>6. QED
    BY <2>4, <2>5 DEF UsingCounts
<1>10. QED
  BY <1>6, <1>7, <1>8, <1>9 DEF IInv

(* cache_remove of a file that is not in use: what is left of its chain.   *)
LEMMA NodeEvicted ==
  ASSUME Types, Chains, EvictNode, node # 0, InCache(FIFO[node])
  PROVE  LET f == FIFO[node]
             b == Lookup(f)
         IN
         /\ f \in File /\ node \in 1 .. Len(FIFO) /\ FIFO' = RemoveAt(FIFO, node)
         /\ b \in Block /\ b \in Range(hashtable[Index(f)])
         /\ heap[b] \in Data /\ heap[b].string = f /\ heap[b].using = 0
         /\ hashtable' \in [Bucket -> Seq(Block)]
         /\ \A j \in Bucket : j # Index(f) => hashtable'[j] = hashtable[j]
         /\ \A j \in Bucket : IsInjective(hashtable'[j])
         /\ \A j \in Bucket : \A x \in Range(hashtable'[j]) :
              x \in Block /\ x \in Range(hashtable[j]) /\ x # b /\ heap'[x] = heap[x]
<1> DEFINE f == FIFO[node]
           i == Index(f)
           b == Lookup(f)
           rest == IF Place(f) = 1 THEN <<>> ELSE RemoveAt(hashtable[i], Place(f))
           lost == Range(hashtable[i]) \ Range(rest)
<1>0. Types /\ Chains
  OBVIOUS
<1>1. /\ hashtable' = [hashtable EXCEPT ![i] = rest]
      /\ heap' = [x \in Block |->
                    IF x = b \/ (x \in lost /\ heap[x].using = 0)
                    THEN NULL ELSE heap[x]]
      /\ FIFO' = RemoveAt(FIFO, node)
      /\ heap[b].using = 0
  BY DEF EvictNode, CacheRemove, RemoveNode, InUse
<1>2. /\ f \in File /\ i \in Bucket /\ hashtable[i] \in Seq(Block)
      /\ node \in 1 .. Len(FIFO)
  BY <1>0, IndexIsBucket DEF Types
<1>3. /\ Place(f) \in DOMAIN hashtable[i]
      /\ b = hashtable[i][Place(f)]
      /\ b \in Range(hashtable[i]) /\ b \in Block
      /\ heap[b] \in Data /\ heap[b].string = f
  BY <1>0, <1>2, PlaceFound
<1> HIDE DEF f, i, b
<1>4. /\ rest \in Seq(Block) /\ IsInjective(rest)
      /\ Range(rest) \subseteq Range(hashtable[i]) \ {b}
  <2>1. CASE Place(f) = 1
    BY <2>1 DEF IsInjective, Range
  <2>2. CASE Place(f) # 1
    BY <1>0, <1>2, <1>3, <2>2, UnlinkList DEF Chains, Chain
  <2>3. QED
    BY <2>1, <2>2
<1> HIDE DEF rest
<1>5. \A j \in Bucket : \A x \in Range(hashtable'[j]) :
        x \in Block /\ x \in Range(hashtable[j]) /\ x # b /\ heap'[x] = heap[x]
  <2>1. SUFFICES ASSUME NEW j \in Bucket, NEW x \in Range(hashtable'[j])
                 PROVE  x \in Block /\ x \in Range(hashtable[j]) /\ x # b /\ heap'[x] = heap[x]
    OBVIOUS
  <2>2. CASE j = i
    <3>1. hashtable'[j] = rest
      BY <1>0, <1>1, <2>2 DEF Types
    <3>2. x \in Range(rest) /\ x # b /\ x \in Range(hashtable[i])
      BY <1>4, <2>1, <3>1
    <3>3. x \in Block /\ x \notin lost
      BY <1>2, <3>2, RangeType
    <3>4. QED
      BY <1>1, <2>2, <3>2, <3>3
  <2>3. CASE j # i
    <3>1. hashtable'[j] = hashtable[j]
      BY <1>0, <1>1, <2>3 DEF Types
    <3>2. x \in Range(hashtable[j]) /\ x \in Block
      BY <1>0, <2>1, <3>1, RangeType DEF Types
    <3>3. x \notin Range(hashtable[i])
      BY <1>0, <1>2, <2>3, <3>2, ChainsApart
    <3>4. QED
      BY <1>1, <1>3, <3>2, <3>3
  <2>4. QED
    BY <2>2, <2>3
<1>6. hashtable' \in [Bucket -> Seq(Block)]
  BY <1>0, <1>1, <1>4 DEF Types
<1>7. \A j \in Bucket : /\ j # i => hashtable'[j] = hashtable[j]
                        /\ IsInjective(hashtable'[j])
  BY <1>0, <1>1, <1>4 DEF Types, Chains, Chain
<1>8. QED
  BY <1>1, <1>2, <1>3, <1>5, <1>6, <1>7 DEF f, i, b

LEMMA EvictNodeStep ==
  ASSUME IInv, EvictNode, node # 0, InCache(FIFO[node]),
         node' = node - 1, UNCHANGED <<pc, file_name, temp>>
  PROVE  IInv'
<1> DEFINE f == FIFO[node]
           i == Index(f)
           b == Lookup(f)
           rest == IF Place(f) = 1 THEN <<>> ELSE RemoveAt(hashtable[i], Place(f))
           lost == Range(hashtable[i]) \ Range(rest)
<1>0. Types /\ Chains /\ Phases /\ UsingCounts
  BY DEF IInv
<1>1. heap' = [x \in Block |->
                 IF x = b \/ (x \in lost /\ heap[x].using = 0)
                 THEN NULL ELSE heap[x]]
  BY DEF EvictNode, CacheRemove
<1>2. /\ node \in 1 .. Len(FIFO) /\ FIFO' = RemoveAt(FIFO, node)
      /\ b \in Block /\ heap[b] \in Data /\ heap[b].using = 0
      /\ hashtable' \in [Bucket -> Seq(Block)]
      /\ \A j \in Bucket : IsInjective(hashtable'[j])
  BY <1>0, NodeEvicted
<1>5. \A j \in Bucket : \A x \in Range(hashtable'[j]) :
        x \in Block /\ x \in Range(hashtable[j]) /\ heap'[x] = heap[x]
  BY <1>0, NodeEvicted
<1> HIDE DEF f, i, b, rest
<1>6. Types'
  <2>1. hashtable' \in [Bucket -> Seq(Block)]
    BY <1>2
  <2>2. heap' \in [Block -> Data \cup {NULL}]
    BY <1>0, <1>1 DEF Types
  <2>3. FIFO' \in Seq(File) /\ Len(FIFO') = Len(FIFO) - 1
    BY <1>0, <1>2, RemoveList DEF Types
  <2>4. node' \in 0 .. Len(FIFO')
    BY <1>0, <1>2, <2>3 DEF Types
  <2>5. QED
    BY <1>0, <2>1, <2>2, <2>3, <2>4 DEF Types
<1>7. Chains'
  <2>1. \A j \in Bucket : Chain(hashtable[j], heap, j)
    BY <1>0 DEF Chains
  <2>2. \A j \in Bucket : IsInjective(hashtable'[j])
    BY <1>2
  <2>3. QED
    BY <1>5, <2>1, <2>2 DEF Chains, Chain
<1>8. Phases'
  <2>1. \A g \in File : Absent(g) => Absent(g)'
    BY <1>5, IndexIsBucket DEF Absent
  <2>2. QED
    BY <1>0, <2>1 DEF Phases, Types
<1>9. UsingCounts'
  <2>1. \A x \in Block : Users(x)' = Users(x)
    BY DEF Users
  <2>2. \A x \in Block : heap'[x] # NULL => heap'[x] = heap[x]
    BY <1>1
  <2>3. ASSUME NEW w \in Worker, temp[w] # NULL PROVE heap'[temp[w]] # NULL
    <3>1. temp[w] \in Block /\ heap[temp[w]] # NULL
      BY <1>0, <2>3 DEF Types, UsingCounts
    <3>2. heap[temp[w]].using # 0
      BY <1>0, <3>1, NoUsers
    <3>3. QED
      BY <1>1, <1>2, <3>1, <3>2
  <2>4. QED
    BY <1>0, <2>1, <2>2, <2>3 DEF UsingCounts
<1>10. QED
  BY <1>6, <1>7, <1>8, <1>9 DEF IInv

(* A worker that finds its file in the cache.                              *)
LEMMA HitStep ==
  ASSUME IInv, NEW w \in Worker, pc[w] = "lookup", InCache(file_name[w]), Hit(w),
         pc' = [pc EXCEPT ![w] = "send"], UNCHANGED <<hashtable, FIFO, node, file_name>>
  PROVE  IInv'
<1>0. Types /\ Chains /\ Phases /\ UsingCounts
  BY DEF IInv
<1>1. PICK b \in Block : b = Lookup(file_name[w]) /\ heap[b] \in Data
  BY <1>0, PlaceFound DEF Types
<1>2. /\ heap' = [heap EXCEPT ![b] = [heap[b] EXCEPT !.using = heap[b].using + 1]]
      /\ temp' = [temp EXCEPT ![w] = b]
      /\ temp[w] = NULL /\ b # NULL
  BY <1>0, <1>1, FileCacheAssumption DEF Hit, Phases
<1>3. /\ heap'[b] \in Data /\ heap'[b] # NULL /\ heap[b] # NULL
      /\ heap'[b].string = heap[b].string
      /\ heap'[b].using = heap[b].using + 1
      /\ \A x \in Block : x # b => heap'[x] = heap[x]
      /\ heap' \in [Block -> Data \cup {NULL}]
  <2>1. heap'[b] = [heap[b] EXCEPT !.using = heap[b].using + 1]
    BY <1>0, <1>1, <1>2 DEF Types
  <2>2. /\ heap'[b] \in Data
        /\ heap'[b].string = heap[b].string
        /\ heap'[b].using = heap[b].using + 1
    <3> DEFINE d == heap[b]
    <3>1. d \in Data /\ heap'[b] = [d EXCEPT !.using = d.using + 1]
      BY <1>1, <2>1
    <3> HIDE DEF d
    <3>2. QED
      BY <3>1 DEF Data, d
  <2>3. heap'[b] # NULL /\ heap[b] # NULL
    BY <1>1, <2>2, FileCacheAssumption
  <2>4. /\ \A x \in Block : x # b => heap'[x] = heap[x]
        /\ heap' \in [Block -> Data \cup {NULL}]
    BY <1>0, <1>2, <2>2 DEF Types
  <2>5. QED
    BY <2>2, <2>3, <2>4
<1>4. Types'
  BY <1>0, <1>2, <1>3 DEF Types
<1>5. Chains' /\ \A g \in File : Absent(g) => Absent(g)'
  <2>1. \A x \in Cached : x \in Block /\ heap[x] # NULL
    BY <1>0, CachedIn, RangeType DEF Types, Chains, Chain
  <2>2. \A x \in Cached : heap'[x] # NULL /\ heap'[x].string = heap[x].string
    BY <1>3, <2>1
  <2>3. QED
    BY <1>0, <2>2, SameChains
<1>6. Phases'
  BY <1>0, <1>2, <1>5 DEF Phases, Types
<1>7. UsingCounts'
  <2>1. /\ Cardinality(Users(b)') = Cardinality(Users(b)) + 1
        /\ \A x \in Block : x # b => Users(x)' = Users(x)
    BY <1>0, <1>2, UserAdded
  <2>2. \A x \in Block : heap'[x] # NULL => heap'[x].using = Cardinality(Users(x)')
    BY <1>0, <1>3, <2>1 DEF UsingCounts
  <2>3. \A v \in Worker : temp'[v] # NULL => heap'[temp'[v]] # NULL
    <3>1. SUFFICES ASSUME NEW v \in Worker, temp'[v] # NULL PROVE heap'[temp'[v]] # NULL
      OBVIOUS
    <3>2. temp'[v] = b \/ (temp'[v] = temp[v] /\ temp[v] \in Block)
      BY <1>0, <1>2, <3>1 DEF Types
    <3>3. QED
      BY <1>0, <1>3, <3>1, <3>2 DEF UsingCounts
  <2>4. QED
    BY <2>2, <2>3 DEF UsingCounts
<1>8. QED
  BY <1>4, <1>5, <1>6, <1>7 DEF IInv

(* A worker that has sent a file of the cache.                             *)
LEMMA ReleaseStep ==
  ASSUME IInv, NEW w \in Worker, Release(w)
  PROVE  IInv'
<1>0. Types /\ Chains /\ Phases /\ UsingCounts
  BY DEF IInv
<1>1. PICK b \in Block : b = temp[w] /\ heap[b] \in Data
  BY <1>0 DEF Release, Types, UsingCounts
<1>2. /\ heap' = [heap EXCEPT ![b] = IF heap[b].using = 1 /\ b \notin Cached THEN NULL
                                     ELSE [string |-> heap[b].string, using |-> heap[b].using - 1]]
      /\ temp' = [temp EXCEPT ![w] = NULL]
      /\ pc' = [pc EXCEPT ![w] = "idle"]
      /\ UNCHANGED <<hashtable, FIFO, node, file_name>>
  <2>1. heap' = [heap EXCEPT ![temp[w]] =
                   IF heap[temp[w]].using = 1 /\ temp[w] \notin Cached THEN NULL
                   ELSE [string |-> heap[temp[w]].string,
                         using |-> heap[temp[w]].using - 1]]
    BY DEF Release
  <2>2. /\ temp' = [temp EXCEPT ![w] = NULL]
        /\ pc' = [pc EXCEPT ![w] = "idle"]
        /\ UNCHANGED <<hashtable, FIFO, node, file_name>>
    BY DEF Release, Goto
  <2>3. QED
    BY <1>1, <2>1, <2>2
<1>3. /\ Cardinality(Users(b)') = Cardinality(Users(b)) - 1
      /\ Cardinality(Users(b)) >= 1
      /\ \A x \in Block : x # b => Users(x)' = Users(x)
  BY <1>0, <1>1, <1>2, UserRemoved DEF Release
<1>4. heap[b] # NULL /\ heap[b].using = Cardinality(Users(b)) /\ heap[b].using >= 1
  BY <1>0, <1>1, <1>3, FileCacheAssumption DEF UsingCounts
<1> DEFINE d == heap[b]
           e == [string |-> d.string, using |-> d.using - 1]
<1>5. e \in Data /\ e # NULL /\ e.string = d.string /\ e.using = d.using - 1
  <2>1. d \in Data /\ d.using >= 1
    BY <1>1, <1>4
  <2> HIDE DEF d
  <2>2. e \in Data /\ e.string = d.string /\ e.using = d.using - 1
    BY <2>1 DEF Data
  <2>3. QED
    BY <2>2, FileCacheAssumption
<1>6. /\ heap'[b] = IF d.using = 1 /\ b \notin Cached THEN NULL ELSE e
      /\ \A x \in Block : x # b => heap'[x] = heap[x]
  BY <1>0, <1>1, <1>2 DEF Types
<1> HIDE DEF e
<1>7. Types'
  <2>1. heap' \in [Block -> Data \cup {NULL}]
    BY <1>0, <1>2, <1>5, <1>6 DEF Types
  <2>2. QED
    BY <1>0, <1>2, <2>1 DEF Types
<1>8. Chains' /\ \A g \in File : Absent(g) => Absent(g)'
  <2>1. \A x \in Cached : x \in Block /\ heap[x] # NULL
    BY <1>0, CachedIn, RangeType DEF Types, Chains, Chain
  <2>2. \A x \in Cached : heap'[x] # NULL /\ heap'[x].string = heap[x].string
    BY <1>5, <1>6, <2>1
  <2>3. QED
    BY <1>0, <1>2, <2>2, SameChains
<1>9. Phases'
  BY <1>0, <1>2, <1>8 DEF Phases, Types
<1>10. UsingCounts'
  <2>1. ASSUME NEW x \in Block, heap'[x] # NULL
        PROVE  heap'[x].using = Cardinality(Users(x)')
    <3>1. CASE x = b
      BY <1>3, <1>4, <1>5, <1>6, <2>1, <3>1
    <3>2. CASE x # b
      <4>1. heap'[x] = heap[x] /\ Users(x)' = Users(x)
        BY <1>3, <1>6, <3>2
      <4>2. QED
        BY <1>0, <2>1, <4>1 DEF UsingCounts
    <3>3. QED
      BY <3>1, <3>2
  <2>2. ASSUME NEW v \in Worker, temp'[v] # NULL PROVE heap'[temp'[v]] # NULL
    <3>1. v # w /\ temp'[v] = temp[v] /\ temp[v] \in Block
      BY <1>0, <1>2, <2>2 DEF Types
    <3>2. CASE temp[v] # b
      BY <1>0, <1>6, <3>1, <3>2, <2>2 DEF UsingCounts
    <3>3. CASE temp[v] = b
      <4>1. v \in Users(b)' /\ Cardinality(Users(b)') # 0
        <5>1. v \in Users(b)'
          BY <3>1, <3>3 DEF Users
        <5>2. IsFiniteSet(Users(b)')
          BY FileCacheAssumption, FS_Subset DEF Users
        <5>3. QED
          BY <5>1, <5>2, FS_EmptySet
      <4>2. heap[b].using # 1
        BY <1>3, <1>4, <4>1
      <4>3. QED
        BY <1>5, <1>6, <3>1, <3>3, <4>2
    <3>4. QED
      BY <3>2, <3>3
  <2>3. QED
    BY <2>1, <2>2 DEF UsingCounts
<1>11. QED
  BY <1>7, <1>8, <1>9, <1>10 DEF IInv

(* A step of a worker outside the cache, or one that only looks at it: the *)
(* worker has no block, and does not get one.                              *)
LEMMA LookStep ==
  ASSUME IInv, NEW w \in Worker, NEW l \in {"idle", "lookup", "read", "insert", "evict", "send"},
         UNCHANGED <<hashtable, heap, FIFO, temp>>,
         temp[w] = NULL, pc' = [pc EXCEPT ![w] = l], node' \in 0 .. Len(FIFO),
         file_name' \in [Worker -> File],
         \A v \in Worker : v # w => file_name'[v] = file_name[v],
         l = "evict" => Absent(file_name[w]) /\ file_name' = file_name
                        /\ (pc[w] = "evict" \/ LockFree)
  PROVE  IInv'
<1>0. Types /\ Chains /\ Phases /\ UsingCounts
  BY DEF IInv
<1>1. Types'
  BY <1>0 DEF Types
<1>2. Chains' /\ UsingCounts' /\ \A f \in File : Absent(f) => Absent(f)'
  BY <1>0, SameCache
<1>3. Phases'
  <2>1. /\ pc'[w] = l
        /\ \A v \in Worker : v # w => pc'[v] = pc[v]
    BY <1>0 DEF Types
  <2>2. \A v \in Worker : temp'[v] # NULL => pc'[v] = "send"
    BY <1>0, <2>1 DEF Phases
  <2>3. ASSUME NEW v \in Worker, pc'[v] = "evict" PROVE Absent(file_name[v]) /\ file_name'[v] = file_name[v]
    BY <1>0, <2>1, <2>3 DEF Phases
  <2>4. \A u, v \in Worker : pc'[u] = "evict" /\ pc'[v] = "evict" => u = v
    BY <1>0, <2>1 DEF Phases, LockFree
  <2>5. \A v \in Worker : pc'[v] = "evict" => Absent(file_name[v])'
    BY <2>3 DEF Absent
  <2>6. QED
    BY <2>2, <2>4, <2>5 DEF Phases
<1>4. QED
  BY <1>1, <1>2, <1>3 DEF IInv
-----------------------------------------------------------------------------
LEMMA StepInv == IInv /\ [Next]_vars => IInv'
<1>1. SUFFICES ASSUME IInv, [Next]_vars PROVE IInv'
  OBVIOUS
<1>2. Types /\ Chains /\ Phases /\ UsingCounts
  BY <1>1 DEF IInv
<1>3. \A w \in Worker : file_name[w] \in File /\ (pc[w] # "send" => temp[w] = NULL)
  BY <1>2 DEF Types, Phases
<1>4. \A f \in File : ~InCache(f) <=> Absent(f)
  BY <1>2, PlaceFound
<1>5. ASSUME NEW w \in Worker, NEW f \in File, Request(w, f) PROVE IInv'
  <2>1. /\ UNCHANGED <<hashtable, heap, FIFO, temp, node>> /\ temp[w] = NULL
        /\ pc' = [pc EXCEPT ![w] = "lookup"]
        /\ file_name' = [file_name EXCEPT ![w] = f]
    BY <1>3, <1>5 DEF Request, Goto, cache
  <2>2. /\ node' \in 0 .. Len(FIFO) /\ file_name' \in [Worker -> File]
        /\ \A v \in Worker : v # w => file_name'[v] = file_name[v]
    BY <1>2, <2>1 DEF Types
  <2>3. QED
    BY <1>1, <2>1, <2>2, LookStep
<1>6. ASSUME NEW w \in Worker, CacheLookup(w) PROVE IInv'
  <2>1. CASE InCache(file_name[w])
    BY <1>1, <1>6, <2>1, HitStep DEF CacheLookup, Goto
  <2>2. CASE ~InCache(file_name[w])
    <3>1. /\ UNCHANGED <<hashtable, heap, FIFO, temp, node, file_name>>
          /\ temp[w] = NULL /\ pc' = [pc EXCEPT ![w] = "read"]
      BY <1>3, <1>6, <2>2 DEF CacheLookup, Goto
    <3>2. node' \in 0 .. Len(FIFO) /\ file_name' \in [Worker -> File]
      BY <1>2, <3>1 DEF Types
    <3>3. QED
      BY <1>1, <3>1, <3>2, LookStep
  <2>3. QED
    BY <2>1, <2>2
<1>7. ASSUME NEW w \in Worker, ReadFile(w) \/ Sent(w) PROVE IInv'
  <2>1. /\ UNCHANGED <<hashtable, heap, FIFO, temp, node, file_name>>
        /\ temp[w] = NULL
        /\ \E l \in {"idle", "insert"} : pc' = [pc EXCEPT ![w] = l]
    BY <1>3, <1>7 DEF ReadFile, Sent, Goto, cache
  <2>2. node' \in 0 .. Len(FIFO) /\ file_name' \in [Worker -> File]
    BY <1>2, <2>1 DEF Types
  <2>3. QED
    BY <1>1, <2>1, <2>2, LookStep
<1>8. ASSUME NEW w \in Worker, temp[w] = NULL, Refuse(w) PROVE IInv'
  <2>1. /\ UNCHANGED <<hashtable, heap, FIFO, temp, file_name>>
        /\ node' = 0 /\ pc' = [pc EXCEPT ![w] = "send"]
    BY <1>8 DEF Refuse, Goto
  <2>2. node' \in 0 .. Len(FIFO) /\ file_name' \in [Worker -> File]
    BY <1>2, <2>1 DEF Types
  <2>3. QED
    BY <1>1, <1>8, <2>1, <2>2, LookStep
<1>9. ASSUME NEW w \in Worker, CacheInsert(w) PROVE IInv'
  <2>1. temp[w] = NULL /\ LockFree
    BY <1>3, <1>9 DEF CacheInsert
  <2>2. CASE Refuse(w)
    BY <1>8, <2>1, <2>2
  <2>3. CASE Put(w) /\ ~Unwanted(file_name[w])
    <3>1. Absent(file_name[w])
      BY <1>3, <1>4, <2>3 DEF Unwanted
    <3>2. QED
      BY <1>1, <2>1, <2>3, <3>1, PutStep
  <2>4. CASE /\ ~Unwanted(file_name[w]) /\ node' = Oldest /\ Goto(w, "evict")
             /\ UNCHANGED <<hashtable, heap, FIFO, memoryLeft, file_name, temp>>
    <3>1. Absent(file_name[w])
      BY <1>3, <1>4, <2>4 DEF Unwanted
    <3>2. pc' = [pc EXCEPT ![w] = "evict"] /\ node' \in 0 .. Len(FIFO)
      BY <1>2, <2>4, LenProperties DEF Goto, Oldest, Types
    <3>3. file_name' \in [Worker -> File]
      BY <1>2, <2>4 DEF Types
    <3>4. QED
      BY <1>1, <2>1, <2>4, <3>1, <3>2, <3>3, LookStep
  <2>5. QED
    BY <1>9, <2>2, <2>3, <2>4 DEF CacheInsert
<1>10. ASSUME NEW w \in Worker, Evict(w) PROVE IInv'
  <2>1. temp[w] = NULL /\ pc[w] = "evict" /\ Absent(file_name[w])
    BY <1>2, <1>3, <1>10 DEF Evict, Phases
  <2>2. CASE Refuse(w)
    BY <1>8, <2>1, <2>2
  <2>3. CASE Put(w)
    BY <1>1, <2>1, <2>3, PutStep
  <2>4. CASE ~GiveUp /\ (StepOver \/ EvictNode) /\ node' = node - 1
             /\ UNCHANGED <<pc, file_name, temp>>
    <3>1. node # 0 /\ InCache(FIFO[node])
      BY <2>4 DEF GiveUp
    <3>2. CASE EvictNode
      BY <1>1, <2>4, <3>1, <3>2, EvictNodeStep
    <3>3. CASE StepOver
      <4>1. UNCHANGED <<hashtable, heap, FIFO, temp, file_name, pc>>
        BY <2>4, <3>3 DEF StepOver
      <4>2. node' \in 0 .. Len(FIFO) /\ file_name' \in [Worker -> File]
        BY <1>2, <2>4, <3>1, <4>1 DEF Types
      <4>3. pc' = [pc EXCEPT ![w] = "evict"]
        BY <1>2, <2>1, <4>1 DEF Types
      <4>4. QED
        BY <1>1, <2>1, <4>1, <4>2, <4>3, LookStep
    <3>4. QED
      BY <2>4, <3>2, <3>3
  <2>5. QED
    BY <1>10, <2>2, <2>3, <2>4 DEF Evict
<1>11. CASE UNCHANGED vars
  <2>1. Chains' /\ UsingCounts' /\ \A f \in File : Absent(f) => Absent(f)'
    BY <1>2, <1>11, SameCache DEF vars
  <2>2. Types' /\ Phases'
    BY <1>2, <1>11, <2>1 DEF Types, Phases, vars
  <2>3. QED
    BY <2>1, <2>2 DEF IInv
<1>12. QED
  BY <1>1, <1>5, <1>6, <1>7, <1>9, <1>10, <1>11, ReleaseStep DEF Next, WorkerStep

(* The inductive invariant: types, well-formed chains, exclusive eviction  *)
(* of a file that is absent, and exact counts of users.                    *)
THEOREM Invariance == Spec => []IInv
BY InitInv, StepInv, PTL DEF Spec

(* evict and cache_remove free no block that a worker is sending, and      *)
(* using is exact.                                                         *)
THEOREM UsingCountsHolds == Spec => []UsingCounts
<1>1. IInv => UsingCounts
  BY DEF IInv
<1>2. QED
  BY <1>1, Invariance, PTL

(* Although a file is read without the lock, no two workers store it both. *)
THEOREM CachedOnceHolds == Spec => []CachedOnce
<1>1. IInv => CachedOnce
  <2>1. SUFFICES ASSUME Types, Chains PROVE CachedOnce
    BY DEF IInv
  <2>2. \A b \in Cached : heap[b] # NULL
    BY <2>1, CachedIn DEF Chains, Chain
  <2>3. ASSUME NEW i \in Bucket
        PROVE  /\ \A b \in Range(hashtable[i]) : Index(heap[b].string) = i
               /\ \A j, k \in DOMAIN hashtable[i] :
                    heap[hashtable[i][j]].string = heap[hashtable[i][k]].string => j = k
    <3>1. Chain(hashtable[i], heap, i)
      BY <2>1 DEF Chains
    <3>2. \A j \in DOMAIN hashtable[i] : hashtable[i][j] \in Range(hashtable[i])
      BY DEF Range
    <3>3. QED
      BY <3>1, <3>2 DEF Chain, IsInjective
  <2>4. QED
    BY <2>2, <2>3 DEF CachedOnce
<1>2. QED
  BY <1>1, Invariance, PTL
-----------------------------------------------------------------------------
(* Files that are alone in their bucket.  Each is listed once while it is  *)
(* cached, and what is cached or about to be can fit.                      *)
Once(s, f) == \A j, k \in DOMAIN s : s[j] = f /\ s[k] = f => j = k

Small ==
  /\ \A b \in Cached : Size[heap[b].string] <= MaxSize
  /\ \A w \in Worker : pc[w] = "evict" => Size[file_name[w]] <= MaxSize

Listed ==
  \A f \in File : Lone(f) => (Absent(f) <=> f \notin Range(FIFO)) /\ Once(FIFO, f)

Mine == \A w \in Worker : temp[w] # NULL => heap[temp[w]].string = file_name[w]

LoneInv == Small /\ Listed /\ Mine /\ LoneStaysCached

LEMMA ListedWithout ==
  ASSUME NEW S, NEW s \in Seq(S), NEW n \in 1 .. Len(s), NEW f, Once(s, f)
  PROVE  /\ Once(RemoveAt(s, n), f)
         /\ f # s[n] => (f \in Range(RemoveAt(s, n)) <=> f \in Range(s))
         /\ f = s[n] => f \notin Range(RemoveAt(s, n))
<1> DEFINE r == RemoveAt(s, n)
<1>1. /\ r \in Seq(S) /\ Len(r) = Len(s) - 1
      /\ \A j \in 1 .. Len(s) - 1 : r[j] = IF j < n THEN s[j] ELSE s[j + 1]
  BY RemoveList
<1> HIDE DEF r
<1>2. /\ Len(s) \in Nat /\ DOMAIN s = 1 .. Len(s) /\ DOMAIN r = 1 .. Len(s) - 1
      /\ \A j, k \in 1 .. Len(s) : s[j] = f /\ s[k] = f => j = k
  BY <1>1 DEF Once
<1>3. Once(r, f)
  BY <1>1, <1>2 DEF Once
<1>4. f \in Range(s) <=> \E k \in 1 .. Len(s) : s[k] = f
  BY RangeMember
<1>5. f \in Range(r) <=> \E k \in 1 .. Len(s) - 1 : r[k] = f
  BY <1>1, RangeMember
<1>6. f \in Range(r) => f \in Range(s) /\ f # s[n]
  BY <1>1, <1>2, <1>4, <1>5
<1>7. ASSUME f \in Range(s), f # s[n] PROVE f \in Range(r)
  <2>1. PICK k \in 1 .. Len(s) : s[k] = f /\ k # n
    BY <1>4, <1>7
  <2>2. CASE k < n
    BY <1>1, <1>2, <1>5, <2>1, <2>2
  <2>3. CASE k > n
    <3>1. k - 1 \in 1 .. Len(s) - 1 /\ ~(k - 1 < n) /\ (k - 1) + 1 = k
      BY <1>2, <2>1, <2>3
    <3>2. QED
      BY <1>1, <1>5, <2>1, <3>1
  <2>4. QED
    BY <1>2, <2>1, <2>2, <2>3
<1>8. QED
  BY <1>3, <1>6, <1>7 DEF r

LEMMA ListedFirst ==
  ASSUME NEW S, NEW s \in Seq(S), NEW g \in S, NEW f, Once(s, f)
  PROVE  /\ f # g \/ f \notin Range(s) => Once(<<g>> \o s, f)
         /\ Range(<<g>> \o s) = Range(s) \cup {g}
<1> DEFINE r == <<g>> \o s
<1>1. /\ <<g>> \in Seq(S) /\ Len(<<g>>) = 1 /\ <<g>>[1] = g /\ Range(<<g>>) = {g}
  BY DEF Range
<1>2. /\ Len(s) \in Nat /\ r \in Seq(S) /\ Len(r) = 1 + Len(s)
      /\ \A j \in 1 .. 1 + Len(s) : r[j] = IF j <= 1 THEN g ELSE s[j - 1]
  BY <1>1, ConcatProperties
<1>3. Range(r) = Range(s) \cup {g}
  <2> DEFINE h == <<g>>
  <2>1. h \in Seq(S) /\ Range(h) = {g}
    BY <1>1
  <2> HIDE DEF h
  <2>2. Range(h \o s) = Range(h) \cup Range(s)
    BY <2>1, SpliceList
  <2>3. QED
    BY <2>1, <2>2 DEF h
<1> HIDE DEF r
<1>4. DOMAIN s = 1 .. Len(s) /\ DOMAIN r = 1 .. 1 + Len(s)
  BY <1>2
<1>5. f \in Range(s) <=> \E k \in 1 .. Len(s) : s[k] = f
  BY RangeMember
<1>6. ASSUME f # g \/ f \notin Range(s),
             NEW j \in 1 .. 1 + Len(s), NEW k \in 1 .. 1 + Len(s), r[j] = f, r[k] = f
      PROVE  j = k
  <2>1. CASE f = g
    <3>1. \A m \in 1 .. 1 + Len(s) : m > 1 => m - 1 \in 1 .. Len(s) /\ r[m] = s[m - 1]
      BY <1>2
    <3>2. QED
      BY <1>2, <1>5, <1>6, <2>1, <3>1
  <2>2. CASE f # g
    <3>1. /\ j - 1 \in 1 .. Len(s) /\ s[j - 1] = f
          /\ k - 1 \in 1 .. Len(s) /\ s[k - 1] = f
      BY <1>2, <1>6, <2>2
    <3>2. j - 1 = k - 1
      BY <1>4, <3>1 DEF Once
    <3>3. QED
      BY <1>2, <3>2
  <2>3. QED
    BY <2>1, <2>2
<1>7. QED
  BY <1>3, <1>4, <1>6 DEF Once, r

(* Two names of one chain: neither is alone.                               *)
LEMMA Together ==
  ASSUME Types, Chains, Small, NEW f \in File, Lone(f),
         NEW b \in Range(hashtable[Index(f)])
  PROVE  heap[b].string = f
<1>1. Index(f) \in Bucket
  BY IndexIsBucket
<1>2. /\ b \in Block /\ heap[b] \in Data /\ Index(heap[b].string) = Index(f)
      /\ b \in Cached
  BY <1>1, RangeType, CachedIn DEF Types, Chains, Chain
<1>3. heap[b].string \in File /\ Size[heap[b].string] <= MaxSize
  BY <1>2 DEF Data, Small
<1>4. QED
  BY <1>2, <1>3 DEF Lone

(* A step that leaves the table, the list and the cached names alone.      *)
LEMMA SameListed ==
  ASSUME Types, Chains, Small, Listed, hashtable' = hashtable, FIFO' = FIFO,
         \A b \in Cached : heap'[b].string = heap[b].string
  PROVE  /\ Listed' /\ Cached' = Cached
         /\ \A b \in Cached' : Size[heap'[b].string] <= MaxSize
<1>1. Cached' = Cached
  BY DEF Cached
<1>2. ASSUME NEW f \in File PROVE Absent(f)' <=> Absent(f)
  BY IndexIsBucket, CachedIn DEF Absent
<1>3. Listed'
  BY <1>2 DEF Listed, Lone
<1>4. QED
  BY <1>1, <1>3 DEF Small

LEMMA LookKeeps ==
  ASSUME IInv, LoneInv, UNCHANGED <<hashtable, heap, FIFO, temp>>,
         \A w \in Worker : temp[w] # NULL => file_name'[w] = file_name[w],
         \A w \in Worker : pc'[w] = "evict" => Size[file_name'[w]] <= MaxSize
  PROVE  LoneInv'
<1>1. /\ Listed' /\ Cached' = Cached
      /\ \A b \in Cached' : Size[heap'[b].string] <= MaxSize
  BY SameListed DEF IInv, LoneInv
<1>2. Small' /\ Mine'
  BY <1>1 DEF Small, Mine, LoneInv
<1>3. LoneStaysCached'
  BY <1>1 DEF LoneStaysCached, LoneInv, Lone
<1>4. QED
  BY <1>1, <1>2, <1>3 DEF LoneInv

LEMMA HitKeeps ==
  ASSUME IInv, LoneInv, NEW w \in Worker, CacheLookup(w), InCache(file_name[w])
  PROVE  LoneInv'
<1>0. Types /\ Chains /\ UsingCounts /\ Small /\ Listed /\ Mine /\ LoneStaysCached
  BY DEF IInv, LoneInv
<1> DEFINE f == file_name[w]
           b == Lookup(f)
<1>1. /\ f \in File /\ Hit(w) /\ pc' = [pc EXCEPT ![w] = "send"]
      /\ UNCHANGED <<hashtable, FIFO, file_name>>
  BY <1>0 DEF CacheLookup, Goto, Types
<1>2. /\ b \in Range(hashtable[Index(f)]) /\ b \in Block
      /\ heap[b] \in Data /\ heap[b].string = f
  BY <1>0, <1>1, PlaceFound
<1> HIDE DEF b
<1>3. /\ heap' = [heap EXCEPT ![b] = [heap[b] EXCEPT !.using = heap[b].using + 1]]
      /\ temp' = [temp EXCEPT ![w] = b]
  BY <1>1, <1>2 DEF Hit, b
<1>4. \A x \in Block : heap'[x].string = heap[x].string
  <2>1. SUFFICES ASSUME NEW x \in Block PROVE heap'[x].string = heap[x].string
    OBVIOUS
  <2>2. CASE x = b
    BY <1>0, <1>2, <1>3, <2>2 DEF Types, Data
  <2>3. CASE x # b
    BY <1>0, <1>3, <2>3 DEF Types
  <2>4. QED
    BY <2>2, <2>3
<1>5. /\ Listed' /\ Cached' = Cached
      /\ \A x \in Cached' : Size[heap'[x].string] <= MaxSize
  <2>1. \A x \in Cached : heap'[x].string = heap[x].string
    BY <1>0, <1>4, CachedIn, RangeType DEF Types
  <2>2. QED
    BY <1>0, <1>1, <2>1, SameListed
<1>6. Small'
  BY <1>0, <1>1, <1>5 DEF Small, Types
<1>7. \A v \in Worker : v # w => temp'[v] = temp[v]
  BY <1>0, <1>3 DEF Types
<1>8. temp'[w] = b
  BY <1>0, <1>3 DEF Types
<1>9. Mine'
  BY <1>0, <1>1, <1>2, <1>4, <1>7, <1>8 DEF Mine, Types
<1>10. LoneStaysCached'
  <2>1. b \in Cached
    BY <1>1, <1>2, CachedIn, IndexIsBucket
  <2>2. QED
    BY <1>0, <1>1, <1>5, <1>7, <1>8, <2>1 DEF LoneStaysCached, Lone
<1>11. QED
  BY <1>5, <1>6, <1>9, <1>10 DEF LoneInv

LEMMA ReleaseKeeps ==
  ASSUME IInv, IInv', LoneInv, NEW w \in Worker, Release(w)
  PROVE  LoneInv'
<1>0. Types /\ Chains /\ UsingCounts /\ UsingCounts' /\ Types'
      /\ Small /\ Listed /\ Mine /\ LoneStaysCached
  BY DEF IInv, LoneInv
<1>1. PICK b \in Block : b = temp[w] /\ heap[b] \in Data
  BY <1>0 DEF Release, Types, UsingCounts
<1>2. /\ \A x \in Block : x # b => heap'[x] = heap[x]
      /\ heap'[b] = NULL => b \notin Cached
      /\ heap'[b] # NULL => heap'[b].string = heap[b].string
      /\ temp' = [temp EXCEPT ![w] = NULL]
      /\ pc' = [pc EXCEPT ![w] = "idle"]
      /\ UNCHANGED <<hashtable, FIFO, file_name>>
  <2> DEFINE e == [string |-> heap[b].string, using |-> heap[b].using - 1]
  <2>1. heap'[b] = IF heap[b].using = 1 /\ b \notin Cached THEN NULL ELSE e
    BY <1>0, <1>1 DEF Release, Types
  <2>2. \A x \in Block : x # b => heap'[x] = heap[x]
    BY <1>0, <1>1 DEF Release, Types
  <2>3. e.string = heap[b].string
    OBVIOUS
  <2>4. /\ temp' = [temp EXCEPT ![w] = NULL]
        /\ pc' = [pc EXCEPT ![w] = "idle"]
        /\ UNCHANGED <<hashtable, FIFO, file_name>>
    BY DEF Release, Goto
  <2>5. heap'[b] = NULL => b \notin Cached
    <3>1. b \in Cached => \E i \in Bucket : b \in Range(hashtable'[i])
      BY <2>4, CachedIn
    <3>2. Chains'
      BY DEF IInv
    <3>3. QED
      BY <3>1, <3>2 DEF Chains, Chain
  <2> HIDE DEF e
  <2>6. QED
    BY <2>1, <2>2, <2>3, <2>4, <2>5
<1>3. /\ Listed' /\ Cached' = Cached
      /\ \A x \in Cached' : Size[heap'[x].string] <= MaxSize
  <2>1. \A x \in Cached : x \in Block
    BY <1>0, CachedIn, RangeType DEF Types
  <2>2. \A x \in Cached : heap'[x].string = heap[x].string
    BY <1>2, <2>1
  <2>3. QED
    BY <1>0, <1>2, <2>2, SameListed
<1>4. Small'
  BY <1>0, <1>2, <1>3 DEF Small, Types
<1>5. \A v \in Worker : temp'[v] # NULL =>
        temp'[v] = temp[v] /\ temp[v] \in Block /\ heap'[temp[v]] # NULL
  BY <1>0, <1>2 DEF Types, UsingCounts
<1>6. Mine'
  BY <1>0, <1>2, <1>5 DEF Mine
<1>7. LoneStaysCached'
  BY <1>0, <1>2, <1>3, <1>5 DEF LoneStaysCached, Lone
<1>8. QED
  BY <1>3, <1>4, <1>6, <1>7 DEF LoneInv

LEMMA PutKeeps ==
  ASSUME IInv, LoneInv, NEW w \in Worker, Put(w), temp[w] = NULL,
         Absent(file_name[w]), Size[file_name[w]] <= MaxSize
  PROVE  LoneInv'
<1> DEFINE f == file_name[w]
           i == Index(f)
<1>0. Types /\ Chains /\ UsingCounts /\ Small /\ Listed /\ Mine /\ LoneStaysCached
  BY DEF IInv, LoneInv
<1>1. PICK b \in Block :
        /\ heap[b] = NULL
        /\ heap' = [heap EXCEPT ![b] = [string |-> f, using |-> 1]]
        /\ hashtable' = [hashtable EXCEPT ![i] = Append(@, b)]
        /\ FIFO' = <<f>> \o FIFO
        /\ temp' = [temp EXCEPT ![w] = b]
        /\ pc' = [pc EXCEPT ![w] = "send"]
        /\ file_name' = file_name
  BY DEF Put, Goto
<1>2. f \in File /\ i \in Bucket /\ hashtable[i] \in Seq(Block)
  BY <1>0, IndexIsBucket DEF Types
<1>3. /\ heap'[b].string = f
      /\ \A x \in Block : x # b => heap'[x] = heap[x]
  BY <1>0, <1>1 DEF Types
<1>4. /\ Range(hashtable'[i]) = Range(hashtable[i]) \cup {b}
      /\ \A j \in Bucket : j # i => hashtable'[j] = hashtable[j]
  <2>1. hashtable'[i] = Append(hashtable[i], b)
    BY <1>0, <1>1, <1>2 DEF Types
  <2>2. Range(Append(hashtable[i], b)) = Range(hashtable[i]) \cup {b}
    BY <1>2, AppendList
  <2>3. QED
    BY <1>0, <1>1, <2>1, <2>2 DEF Types
<1>5. \A j \in Bucket : \A x \in Range(hashtable[j]) : x \in Block /\ x # b
  BY <1>0, <1>1, RangeType DEF Types, Chains, Chain
<1>6. Cached' = Cached \cup {b} /\ \A x \in Cached : heap'[x] = heap[x]
  <2>1. \A x : x \in Cached' <=> \E j \in Bucket : x \in Range(hashtable'[j])
    BY DEF Cached
  <2>2. \A x : x \in Cached' <=> x \in Cached \/ x = b
    BY <1>2, <1>4, <2>1, CachedIn
  <2>3. QED
    BY <1>3, <1>5, <2>2, CachedIn
<1>7. Small'
  BY <1>0, <1>1, <1>3, <1>6 DEF Small, Types
<1>8. Listed'
  <2>1. SUFFICES ASSUME NEW g \in File, Lone(g)
                 PROVE  (Absent(g)' <=> g \notin Range(FIFO')) /\ Once(FIFO', g)
    BY DEF Listed, Lone
  <2>2. Once(FIFO, g) /\ (Absent(g) <=> g \notin Range(FIFO)) /\ FIFO \in Seq(File)
    BY <1>0, <2>1 DEF Listed, Types
  <2>3. /\ g # f \/ g \notin Range(FIFO) => Once(FIFO', g)
        /\ Range(FIFO') = Range(FIFO) \cup {f}
    BY <1>1, <1>2, <2>2, ListedFirst
  <2>4. CASE g = f
    <3>1. ~Absent(g)'
      BY <1>3, <1>4, <2>4 DEF Absent
    <3>2. QED
      BY <2>2, <2>3, <2>4, <3>1
  <2>5. CASE g # f
    <3>1. Index(g) \in Bucket
      BY IndexIsBucket
    <3>2. Absent(g)' <=> Absent(g)
      BY <1>3, <1>4, <1>5, <2>5, <3>1 DEF Absent
    <3>3. QED
      BY <2>2, <2>3, <2>5, <3>2
  <2>6. QED
    BY <2>4, <2>5
<1>9. \A v \in Worker : temp'[v] # NULL =>
        \/ v = w /\ temp'[v] = b
        \/ temp'[v] = temp[v] /\ temp[v] # b /\ temp[v] \in Block
  BY <1>0, <1>1 DEF Types, UsingCounts
<1>10. Mine'
  BY <1>0, <1>1, <1>3, <1>9 DEF Mine
<1>11. LoneStaysCached'
  BY <1>0, <1>1, <1>6, <1>9 DEF LoneStaysCached, Lone
<1>12. QED
  BY <1>7, <1>8, <1>10, <1>11 DEF LoneInv

LEMMA EvictNodeKeeps ==
  ASSUME IInv, LoneInv, EvictNode, node # 0, InCache(FIFO[node]),
         UNCHANGED <<pc, file_name, temp>>
  PROVE  LoneInv'
<1> DEFINE f == FIFO[node]
           i == Index(f)
           b == Lookup(f)
<1>0. Types /\ Chains /\ UsingCounts /\ Small /\ Listed /\ Mine /\ LoneStaysCached
  BY DEF IInv, LoneInv
<1>1. /\ f \in File /\ node \in 1 .. Len(FIFO) /\ FIFO' = RemoveAt(FIFO, node)
      /\ b \in Block /\ b \in Range(hashtable[i])
      /\ heap[b] \in Data /\ heap[b].string = f /\ heap[b].using = 0
      /\ \A j \in Bucket : j # i => hashtable'[j] = hashtable[j]
      /\ \A j \in Bucket : \A x \in Range(hashtable'[j]) :
           x \in Block /\ x \in Range(hashtable[j]) /\ x # b /\ heap'[x] = heap[x]
  BY <1>0, NodeEvicted
<1>2. \A x \in Block : heap'[x] # NULL => heap'[x] = heap[x]
  BY DEF EvictNode, CacheRemove
<1> HIDE DEF b
<1>3. i \in Bucket /\ FIFO \in Seq(File)
  BY <1>0, <1>1, IndexIsBucket DEF Types
<1>4. \A x \in Cached' : x \in Cached /\ heap'[x] = heap[x]
  <2>1. \A x : x \in Cached' <=> \E j \in Bucket : x \in Range(hashtable'[j])
    BY DEF Cached
  <2>2. QED
    BY <1>1, <2>1, CachedIn
<1>5. Small'
  BY <1>0, <1>4 DEF Small
(* The chain of another file that is alone is not touched.                 *)
<1>6. ASSUME NEW g \in File, Lone(g), g # f
      PROVE  hashtable'[Index(g)] = hashtable[Index(g)]
  <2>1. Index(g) # i
    BY <1>0, <1>1, <1>6, Together
  <2>2. QED
    BY <1>1, <2>1, IndexIsBucket
<1>7. Listed'
  <2>1. SUFFICES ASSUME NEW g \in File, Lone(g)
                 PROVE  (Absent(g)' <=> g \notin Range(FIFO')) /\ Once(FIFO', g)
    BY DEF Listed, Lone
  <2>2. Once(FIFO, g) /\ (Absent(g) <=> g \notin Range(FIFO))
    BY <1>0, <2>1 DEF Listed
  <2>3. /\ Once(FIFO', g)
        /\ g # f => (g \in Range(FIFO') <=> g \in Range(FIFO))
        /\ g = f => g \notin Range(FIFO')
    BY <1>1, <1>3, <2>2, ListedWithout
  <2>4. CASE g = f
    <3>1. Absent(g)'
      <4>1. SUFFICES ASSUME NEW x \in Range(hashtable'[i]) PROVE heap'[x].string # f
        BY <2>4 DEF Absent
      <4>2. x \in Range(hashtable[i]) /\ x # b /\ heap'[x] = heap[x]
        BY <1>1, <1>3, <4>1
      <4>3. QED
        BY <1>0, <1>1, <1>3, <4>2 DEF Chains, Chain
    <3>2. QED
      BY <2>3, <2>4, <3>1
  <2>5. CASE g # f
    <3>1. hashtable'[Index(g)] = hashtable[Index(g)] /\ Index(g) \in Bucket
      BY <1>6, <2>1, <2>5, IndexIsBucket
    <3>2. Absent(g)' <=> Absent(g)
      BY <1>1, <3>1 DEF Absent
    <3>3. QED
      BY <2>2, <2>3, <2>5, <3>2
  <2>6. QED
    BY <2>4, <2>5
<1>8. ASSUME NEW w \in Worker, temp[w] # NULL
      PROVE  temp[w] \in Block /\ temp[w] # b /\ heap'[temp[w]] = heap[temp[w]]
  <2>1. temp[w] \in Block /\ heap[temp[w]] # NULL
    BY <1>0, <1>8 DEF Types, UsingCounts
  <2>2. heap[temp[w]].using # 0
    BY <1>0, <1>8, <2>1, NoUsers
  <2>3. QED
    BY <1>1, <2>1, <2>2 DEF EvictNode, CacheRemove, b
<1>9. Mine'
  BY <1>0, <1>8 DEF Mine
<1>10. LoneStaysCached'
  <2>1. SUFFICES ASSUME NEW w \in Worker, temp[w] # NULL, Lone(file_name[w])
                 PROVE  temp[w] \in Cached'
    BY DEF LoneStaysCached, Lone
  <2> DEFINE g == file_name[w]
  <2>2. temp[w] \in Cached /\ g \in File /\ heap[temp[w]].string = g /\ temp[w] # b
    BY <1>0, <1>8, <2>1 DEF LoneStaysCached, Mine, Types
  <2>3. PICK j \in Bucket : temp[w] \in Range(hashtable[j])
    BY <2>2, CachedIn
  <2>4. j = Index(g)
    BY <1>0, <2>2, <2>3 DEF Chains, Chain
  <2>5. g # f
    BY <1>0, <1>1, <1>3, <2>2, <2>3, <2>4 DEF Chains, Chain
  <2>6. temp[w] \in Range(hashtable'[j])
    BY <1>6, <2>1, <2>2, <2>3, <2>4, <2>5
  <2>7. QED
    BY <2>6 DEF Cached
<1>11. QED
  BY <1>5, <1>7, <1>9, <1>10 DEF LoneInv

LEMMA StepKeeps == IInv /\ IInv' /\ LoneInv /\ [Next]_vars => LoneInv'
<1>1. SUFFICES ASSUME IInv, IInv', LoneInv, [Next]_vars PROVE LoneInv'
  OBVIOUS
<1>2. Types /\ Chains /\ Phases /\ Small
  BY <1>1 DEF IInv, LoneInv
<1>3. \A w \in Worker : file_name[w] \in File /\ (pc[w] # "send" => temp[w] = NULL)
  BY <1>2 DEF Types, Phases
<1>4. \A f \in File : ~InCache(f) <=> Absent(f)
  BY <1>2, PlaceFound
(* A worker that goes to l and leaves the cache alone.                     *)
<1>5. ASSUME NEW w \in Worker, NEW l, pc' = [pc EXCEPT ![w] = l], temp[w] = NULL,
             UNCHANGED <<hashtable, heap, FIFO, temp>>,
             \A v \in Worker : v # w => file_name'[v] = file_name[v],
             l = "evict" => Size[file_name'[w]] <= MaxSize
      PROVE  LoneInv'
  <2>1. \A v \in Worker : temp[v] # NULL => file_name'[v] = file_name[v]
    BY <1>5
  <2>2. \A v \in Worker : pc'[v] = "evict" => Size[file_name'[v]] <= MaxSize
    BY <1>2, <1>5 DEF Small, Types
  <2>3. QED
    BY <1>1, <1>5, <2>1, <2>2, LookKeeps
<1>6. ASSUME NEW w \in Worker, NEW f \in File, Request(w, f) PROVE LoneInv'
  <2>1. /\ UNCHANGED <<hashtable, heap, FIFO, temp>> /\ temp[w] = NULL
        /\ pc' = [pc EXCEPT ![w] = "lookup"]
        /\ \A v \in Worker : v # w => file_name'[v] = file_name[v]
    BY <1>2, <1>3, <1>6 DEF Request, Goto, cache, Types
  <2>2. QED
    BY <1>5, <2>1
<1>7. ASSUME NEW w \in Worker, CacheLookup(w) PROVE LoneInv'
  <2>1. CASE InCache(file_name[w])
    BY <1>1, <1>7, <2>1, HitKeeps
  <2>2. CASE ~InCache(file_name[w])
    <3>1. /\ UNCHANGED <<hashtable, heap, FIFO, temp, file_name>>
          /\ temp[w] = NULL /\ pc' = [pc EXCEPT ![w] = "read"]
      BY <1>3, <1>7, <2>2 DEF CacheLookup, Goto
    <3>2. QED
      BY <1>5, <3>1
  <2>3. QED
    BY <2>1, <2>2
<1>8. ASSUME NEW w \in Worker, ReadFile(w) \/ Sent(w) PROVE LoneInv'
  <2>1. PICK l \in {"idle", "insert"} : pc' = [pc EXCEPT ![w] = l]
    BY <1>8 DEF ReadFile, Sent, Goto
  <2>2. UNCHANGED <<hashtable, heap, FIFO, temp, file_name>> /\ temp[w] = NULL
    BY <1>3, <1>8 DEF ReadFile, Sent, cache
  <2>3. QED
    BY <1>5, <2>1, <2>2
<1>9. ASSUME NEW w \in Worker, temp[w] = NULL, Refuse(w) PROVE LoneInv'
  <2>1. UNCHANGED <<hashtable, heap, FIFO, temp, file_name>> /\ pc' = [pc EXCEPT ![w] = "send"]
    BY <1>9 DEF Refuse, Goto
  <2>2. QED
    BY <1>5, <1>9, <2>1
<1>10. ASSUME NEW w \in Worker, CacheInsert(w) PROVE LoneInv'
  <2>1. temp[w] = NULL /\ file_name[w] \in File
    BY <1>3, <1>10 DEF CacheInsert
  <2>2. CASE Refuse(w)
    BY <1>9, <2>1, <2>2
  <2>3. ASSUME ~Unwanted(file_name[w])
        PROVE  Absent(file_name[w]) /\ Size[file_name[w]] <= MaxSize
    BY <1>4, <2>1, <2>3, FileCacheAssumption DEF Unwanted
  <2>4. CASE Put(w) /\ ~Unwanted(file_name[w])
    BY <1>1, <2>1, <2>3, <2>4, PutKeeps
  <2>5. CASE /\ ~Unwanted(file_name[w]) /\ Goto(w, "evict")
             /\ UNCHANGED <<hashtable, heap, FIFO, memoryLeft, file_name, temp>>
    BY <1>5, <2>1, <2>3, <2>5 DEF Goto
  <2>6. QED
    BY <1>10, <2>2, <2>4, <2>5 DEF CacheInsert
<1>11. ASSUME NEW w \in Worker, Evict(w) PROVE LoneInv'
  <2>1. /\ temp[w] = NULL /\ pc[w] = "evict" /\ Absent(file_name[w])
        /\ Size[file_name[w]] <= MaxSize
    BY <1>2, <1>3, <1>11 DEF Evict, Phases, Small
  <2>2. CASE Refuse(w)
    BY <1>9, <2>1, <2>2
  <2>3. CASE Put(w)
    BY <1>1, <2>1, <2>3, PutKeeps
  <2>4. CASE ~GiveUp /\ (StepOver \/ EvictNode) /\ UNCHANGED <<pc, file_name, temp>>
    <3>1. node # 0 /\ InCache(FIFO[node])
      BY <2>4 DEF GiveUp
    <3>2. CASE EvictNode
      BY <1>1, <2>4, <3>1, <3>2, EvictNodeKeeps
    <3>3. CASE StepOver
      BY <1>1, <1>2, <2>4, <3>3, LookKeeps DEF StepOver, Small
    <3>4. QED
      BY <2>4, <3>2, <3>3
  <2>5. QED
    BY <1>11, <2>2, <2>3, <2>4 DEF Evict
<1>12. CASE UNCHANGED vars
  BY <1>1, <1>2, <1>12, LookKeeps DEF vars, Small
<1>13. QED
  BY <1>1, <1>6, <1>7, <1>8, <1>10, <1>11, <1>12, ReleaseKeeps DEF Next, WorkerStep

THEOREM LoneInvariance == Spec => []LoneInv
<1>1. Init => LoneInv
  <2>1. SUFFICES ASSUME Init PROVE LoneInv
    OBVIOUS
  <2>2. Cached = {} /\ \A f \in File : Absent(f)
    BY <2>1, IndexIsBucket DEF Init, Cached, Range, Absent
  <2>3. FIFO = <<>> /\ Range(FIFO) = {}
    BY <2>1 DEF Init, Range
  <2>4. Listed
    BY <2>2, <2>3 DEF Listed, Once
  <2>5. Small /\ Mine /\ LoneStaysCached
    BY <2>1, <2>2 DEF Init, Small, Mine, LoneStaysCached
  <2>6. QED
    BY <2>4, <2>5 DEF LoneInv
<1>2. QED
  BY <1>1, Invariance, StepKeeps, PTL DEF Spec

(* The table and the list agree on each file that shares its bucket with   *)
(* no other, although cache_remove may drop whole chains of others.        *)
THEOREM LoneListedHolds == Spec => []LoneListed
<1>1. IInv /\ LoneInv => LoneListed
  <2>1. SUFFICES ASSUME IInv, LoneInv, NEW f \in File, Lone(f)
                 PROVE  /\ InCache(f) <=> f \in Range(FIFO)
                        /\ \A j, k \in DOMAIN FIFO : FIFO[j] = f /\ FIFO[k] = f => j = k
    BY DEF LoneListed
  <2>2. ~InCache(f) <=> Absent(f)
    BY <2>1, PlaceFound DEF IInv
  <2>3. QED
    BY <2>1, <2>2 DEF LoneInv, Listed, Once
<1>2. QED
  BY <1>1, Invariance, LoneInvariance, PTL

(* Such a file never leaves the cache while a worker sends it from there.  *)
THEOREM LoneStaysCachedHolds == Spec => []LoneStaysCached
<1>1. LoneInv => LoneStaysCached
  BY DEF LoneInv
<1>2. QED
  BY <1>1, LoneInvariance, PTL
-----------------------------------------------------------------------------
(* What a list takes is the last of its running totals, and these are      *)
(* determined by the list.                                                 *)
Added(s, t) == t[0] = 0 /\ \A n \in 1 .. Len(s) : t[n] = t[n - 1] + Size[s[n]]

Sizes(s) == [n \in 1 .. Len(s) |-> Size[s[n]]]

LEMMA AddedAreTotals ==
  ASSUME NEW s \in Seq(File), NEW t
  PROVE  Added(s, t) <=> Totals(Sizes(s), Len(s), t)
<1>1. \A n \in 1 .. Len(s) : Sizes(s)[n] = Size[s[n]]
  BY DEF Sizes
<1>2. QED
  BY <1>1 DEF Added, Totals

LEMMA AddedExist ==
  ASSUME NEW s \in Seq(File)
  PROVE  \E t \in [0 .. Len(s) -> Nat] : Added(s, t)
<1>1. Len(s) \in Nat /\ \A n \in 1 .. Len(s) : Sizes(s)[n] \in Nat
  BY FileCacheAssumption DEF Sizes
<1>2. \E t \in [0 .. Len(s) -> Nat] : Totals(Sizes(s), Len(s), t)
  BY <1>1, TotalsExist
<1>3. QED
  BY <1>2, AddedAreTotals

LEMMA AddedUnique ==
  ASSUME NEW s \in Seq(File), NEW t, NEW u, Added(s, t), Added(s, u)
  PROVE  \A n \in 0 .. Len(s) : t[n] = u[n]
<1>1. /\ Len(s) \in Nat
      /\ Totals(Sizes(s), Len(s), t) /\ Totals(Sizes(s), Len(s), u)
  BY AddedAreTotals
<1>2. QED
  BY <1>1, TotalsUnique

LEMMA ChargedIs ==
  ASSUME NEW s \in Seq(File), NEW t, Added(s, t)
  PROVE  Charged(s) = t[Len(s)]
<1> DEFINE sum == CHOOSE f : f = [n \in 0 .. Len(s) |->
                                    IF n = 0 THEN 0 ELSE f[n - 1] + Size[s[n]]]
<1>1. PICK u \in [0 .. Len(s) -> Nat] : Added(s, u)
  BY AddedExist
<1>2. u = [n \in 0 .. Len(s) |-> IF n = 0 THEN 0 ELSE u[n - 1] + Size[s[n]]]
  BY <1>1 DEF Added
<1>3. sum = [n \in 0 .. Len(s) |-> IF n = 0 THEN 0 ELSE sum[n - 1] + Size[s[n]]]
  BY <1>2
<1>4. Charged(s) = sum[Len(s)]
  BY DEF Charged
<1> HIDE DEF sum
<1>5. Added(s, sum)
  BY <1>3 DEF Added
<1>6. QED
  BY <1>4, <1>5, AddedUnique

LEMMA ChargedEmpty == Charged(<<>>) = 0
<1> DEFINE s == <<>>
           t == [n \in 0 .. 0 |-> 0]
<1>1. s \in Seq(File) /\ Len(s) = 0
  OBVIOUS
<1>2. t[0] = 0
  OBVIOUS
<1> HIDE DEF s, t
<1>3. Added(s, t)
  BY <1>1, <1>2 DEF Added
<1>4. Charged(s) = 0
  BY <1>1, <1>2, <1>3, ChargedIs
<1>5. QED
  BY <1>4 DEF s

LEMMA ChargedType == ASSUME NEW s \in Seq(File) PROVE Charged(s) \in Nat
<1>1. PICK t \in [0 .. Len(s) -> Nat] : Added(s, t)
  BY AddedExist
<1>2. Charged(s) = t[Len(s)] /\ Len(s) \in 0 .. Len(s)
  BY <1>1, ChargedIs
<1>3. QED
  BY <1>2

(* A name at the head adds its size.                                       *)
LEMMA ChargedFirst ==
  ASSUME NEW s \in Seq(File), NEW f \in File
  PROVE  Charged(<<f>> \o s) = Charged(s) + Size[f]
<1> DEFINE r == <<f>> \o s
<1>1. /\ Len(s) \in Nat /\ r \in Seq(File) /\ Len(r) = 1 + Len(s)
      /\ \A j \in 1 .. 1 + Len(s) : r[j] = IF j <= 1 THEN f ELSE s[j - 1]
  BY ConcatProperties
<1> HIDE DEF r
<1>2. PICK t \in [0 .. Len(s) -> Nat] : Added(s, t)
  BY AddedExist
<1> DEFINE u == [n \in 0 .. 1 + Len(s) |-> IF n = 0 THEN 0 ELSE t[n - 1] + Size[f]]
<1>3. Size[f] \in Nat /\ \A n \in 1 .. Len(s) : Size[s[n]] \in Nat
  BY FileCacheAssumption
<1>4. u[0] = 0 /\ \A n \in 1 .. 1 + Len(s) : u[n] = t[n - 1] + Size[f]
  BY <1>1
<1> HIDE DEF u
<1>5. Added(r, u)
  <2>1. ASSUME NEW n \in 1 .. 1 + Len(s) PROVE u[n] = u[n - 1] + Size[r[n]]
    <3>1. CASE n = 1
      BY <1>1, <1>2, <1>3, <1>4, <3>1 DEF Added
    <3>2. CASE n # 1
      <4>1. n - 1 \in 1 .. Len(s) /\ n - 1 \in 1 .. 1 + Len(s) /\ ~(n <= 1)
        BY <1>1, <3>2
      <4>2. r[n] = s[n - 1] /\ u[n] = t[n - 1] + Size[f] /\ u[n - 1] = t[(n - 1) - 1] + Size[f]
        BY <1>1, <1>4, <4>1
      <4>3. t[n - 1] = t[(n - 1) - 1] + Size[s[n - 1]]
        BY <1>2, <4>1 DEF Added
      <4>4. t[(n - 1) - 1] \in Nat /\ Size[s[n - 1]] \in Nat
        BY <1>2, <1>3, <4>1
      <4>5. QED
        BY <1>3, <4>2, <4>3, <4>4
    <3>3. QED
      BY <3>1, <3>2
  <2>2. QED
    BY <1>1, <1>4, <2>1 DEF Added
<1>6. Charged(r) = u[1 + Len(s)] /\ Charged(s) = t[Len(s)]
  BY <1>1, <1>2, <1>5, ChargedIs
<1>7. u[1 + Len(s)] = t[(1 + Len(s)) - 1] + Size[f] /\ (1 + Len(s)) - 1 = Len(s)
  BY <1>1, <1>4
<1>8. QED
  BY <1>6, <1>7 DEF r

(* And one that is taken out no longer counts.                             *)
LEMMA ChargedWithout ==
  ASSUME NEW s \in Seq(File), NEW k \in 1 .. Len(s)
  PROVE  Charged(RemoveAt(s, k)) + Size[s[k]] = Charged(s)
<1> DEFINE r == RemoveAt(s, k)
<1>1. /\ Len(s) \in Nat /\ r \in Seq(File) /\ Len(r) = Len(s) - 1
      /\ \A j \in 1 .. Len(s) - 1 : r[j] = IF j < k THEN s[j] ELSE s[j + 1]
  BY RemoveList
<1> HIDE DEF r
<1>2. PICK t \in [0 .. Len(s) -> Nat] : Added(s, t)
  BY AddedExist
<1> DEFINE d == Size[s[k]]
           u == [n \in 0 .. Len(s) - 1 |-> IF n < k THEN t[n] ELSE t[n + 1] - d]
<1>3. d \in Nat /\ \A n \in 1 .. Len(s) : Size[s[n]] \in Nat
  BY FileCacheAssumption
<1>4. /\ \A n \in 0 .. Len(s) - 1 : n < k => u[n] = t[n]
      /\ \A n \in 0 .. Len(s) - 1 : n >= k => u[n] = t[n + 1] - d
  BY <1>1
<1>5. t[k] = t[k - 1] + d /\ \A n \in 0 .. Len(s) : t[n] \in Nat
  BY <1>2 DEF Added
<1> HIDE DEF u, d
<1>6. \A n \in 1 .. Len(s) : t[n] = t[n - 1] + Size[s[n]]
  BY <1>2 DEF Added
<1>7. Added(r, u)
  <2>1. u[0] = 0
    BY <1>1, <1>2, <1>4 DEF Added
  <2>2. ASSUME NEW n \in 1 .. Len(s) - 1 PROVE u[n] = u[n - 1] + Size[r[n]]
    <3>1. n \in 0 .. Len(s) /\ n - 1 \in 0 .. Len(s) /\ n + 1 \in 0 .. Len(s)
      BY <1>1
    <3>2. t[n] \in Nat /\ t[n - 1] \in Nat /\ t[n + 1] \in Nat
      BY <1>5, <3>1
    <3>3. Size[s[n + 1]] \in Nat
      BY <1>1, <1>3
    <3>4. /\ n \in 0 .. Len(s) - 1 /\ n - 1 \in 0 .. Len(s) - 1 /\ n \in 1 .. Len(s)
          /\ n + 1 \in 1 .. Len(s) /\ (n + 1) - 1 = n /\ (n - 1) + 1 = n
      BY <1>1
    <3>5. t[n + 1] = t[n] + Size[s[n + 1]]
      BY <1>6, <3>4
    <3>6. CASE n < k
      <4>1. u[n] = t[n] /\ u[n - 1] = t[n - 1] /\ r[n] = s[n]
        BY <1>1, <1>4, <3>4, <3>6
      <4>2. QED
        BY <1>6, <3>4, <4>1
    <3>7. CASE n = k
      <4>1. n >= k /\ n - 1 < k /\ ~(n < k)
        BY <1>1, <3>7
      <4>2. u[n] = t[n + 1] - d
        BY <1>4, <3>4, <4>1
      <4>3. u[n - 1] = t[n - 1]
        BY <1>4, <3>4, <4>1
      <4>4. r[n] = s[n + 1]
        BY <1>1, <4>1
      <4>5. t[n] = t[n - 1] + d
        BY <1>5, <3>7
      <4>6. QED
        <5>1. d \in Nat
          BY <1>3
        <5>2. t[n + 1] - d = t[n - 1] + Size[s[n + 1]]
          BY SMTT(60), <3>2, <3>3, <3>5, <4>5, <5>1
        <5>3. QED
          BY <4>2, <4>3, <4>4, <5>2
    <3>8. CASE n > k
      <4>1. n >= k /\ n - 1 >= k /\ ~(n < k)
        BY <1>1, <3>8
      <4>2. u[n] = t[n + 1] - d
        BY <1>4, <3>4, <4>1
      <4>3. u[n - 1] = t[n] - d
        BY <1>4, <3>4, <4>1
      <4>4. r[n] = s[n + 1]
        BY <1>1, <4>1
      <4>5. QED
        BY <1>3, <3>2, <3>3, <3>5, <4>2, <4>3, <4>4
    <3>9. QED
      BY <3>6, <3>7, <3>8
  <2>3. QED
    BY <1>1, <2>1, <2>2 DEF Added
<1>8. Charged(r) = u[Len(s) - 1] /\ Charged(s) = t[Len(s)]
  BY <1>1, <1>2, <1>7, ChargedIs
<1>9. u[Len(s) - 1] = t[Len(s)] - d
  <2>1. CASE k = Len(s)
    BY <1>1, <1>3, <1>4, <1>5, <2>1
  <2>2. CASE k # Len(s)
    BY <1>1, <1>4, <2>2
  <2>3. QED
    BY <2>1, <2>2
<1>10. t[Len(s)] \in Nat
  BY <1>1, <1>5
<1>11. QED
  BY <1>3, <1>8, <1>9, <1>10 DEF r, d
-----------------------------------------------------------------------------
(* The ledger of the cache, and what an evict under way has passed: names  *)
(* that are not in the cache, or are in use.                               *)
Balance == memoryLeft \in 0 .. MaxSize /\ CacheFits

Passed ==
  \A w \in Worker : pc[w] = "evict" =>
    \A j \in node + 1 .. Len(FIFO) :
      \A b \in Cached : heap[b].string = FIFO[j] => heap[b].using # 0

LedgerInv == Balance /\ Passed

(* A step that leaves the table, the list and the cached names alone.      *)
LEMMA SameBalance ==
  ASSUME Balance, UNCHANGED <<hashtable, FIFO, memoryLeft>>,
         \A b \in Cached : heap'[b].string = heap[b].string
  PROVE  Balance'
<1>1. Cached' = Cached
  BY DEF Cached
<1>2. Charged(FIFO)' = Charged(FIFO)
  BY DEF Charged
<1>3. QED
  BY <1>1, <1>2 DEF Balance, CacheFits

LEMMA CachedBlocks ==
  ASSUME Types, Chains
  PROVE  \A b \in Cached : b \in Block /\ heap[b] \in Data /\ heap[b].string \in File
<1>1. \A b \in Cached : b \in Block /\ heap[b] # NULL
  BY CachedIn, RangeType DEF Types, Chains, Chain
<1>2. \A b \in Cached : heap[b] \in Data
  BY <1>1 DEF Types
<1>3. QED
  BY <1>1, <1>2 DEF Data

LEMMA HitNames ==
  ASSUME Types, Chains, NEW w \in Worker, Hit(w), InCache(file_name[w])
  PROVE  \A x \in Cached : heap'[x].string = heap[x].string
<1> DEFINE b == Lookup(file_name[w])
<1>1. b \in Block /\ heap[b] \in Data
  BY PlaceFound DEF Types
<1> HIDE DEF b
<1>2. heap' = [heap EXCEPT ![b] = [heap[b] EXCEPT !.using = heap[b].using + 1]]
  BY <1>1 DEF Hit, b
<1>3. SUFFICES ASSUME NEW x \in Cached PROVE heap'[x].string = heap[x].string
  OBVIOUS
<1>4. x \in Block
  BY CachedBlocks
<1>5. CASE x = b
  BY <1>1, <1>2, <1>5 DEF Types, Data
<1>6. CASE x # b
  BY <1>2, <1>4, <1>6 DEF Types
<1>7. QED
  BY <1>5, <1>6

LEMMA ReleaseNames ==
  ASSUME IInv, IInv', NEW w \in Worker, Release(w)
  PROVE  \A x \in Cached : heap'[x].string = heap[x].string
<1>1. PICK b \in Block : b = temp[w]
  BY DEF Release, IInv, Types
<1> DEFINE e == [string |-> heap[b].string, using |-> heap[b].using - 1]
<1>2. /\ heap'[b] = IF heap[b].using = 1 /\ b \notin Cached THEN NULL ELSE e
      /\ \A x \in Block : x # b => heap'[x] = heap[x]
  BY <1>1 DEF Release, IInv, Types
<1>3. e.string = heap[b].string
  OBVIOUS
<1> HIDE DEF e
<1>4. \A x \in Cached : x \in Block
  BY CachedBlocks DEF IInv
<1>5. QED
  BY <1>2, <1>3, <1>4

(* A file that fits is charged once.                                       *)
LEMMA PutBalance ==
  ASSUME IInv, LedgerInv, NEW w \in Worker, Put(w), Fits(file_name[w])
  PROVE  Balance'
<1> DEFINE f == file_name[w]
<1>0. Types /\ Chains /\ Balance /\ f \in File
  BY DEF IInv, LedgerInv, Types
<1>1. PICK b \in Block :
        /\ heap' = [heap EXCEPT ![b] = [string |-> f, using |-> 1]]
        /\ hashtable' = [hashtable EXCEPT ![Index(f)] = Append(@, b)]
        /\ FIFO' = <<f>> \o FIFO
        /\ memoryLeft' = memoryLeft - Size[f]
  BY DEF Put, Charge
<1>2. Size[f] \in Nat /\ MaxSize \in Nat /\ FIFO \in Seq(File)
  BY <1>0, FileCacheAssumption DEF Types
<1>3. Charged(FIFO)' = Charged(FIFO) + Size[f]
  <2>1. Charged(<<f>> \o FIFO) = Charged(FIFO) + Size[f]
    BY <1>0, <1>2, ChargedFirst
  <2>2. Charged(FIFO)' = Charged(FIFO')
    BY DEF Charged
  <2>3. QED
    BY <1>1, <2>1, <2>2
<1>4. Charged(FIFO) \in Nat
  BY <1>2, ChargedType
<1>5. /\ memoryLeft \in Nat /\ memoryLeft + Charged(FIFO) = MaxSize
      /\ memoryLeft >= Size[f]
  BY <1>0, <1>2 DEF Balance, CacheFits, Fits
<1>6. /\ memoryLeft' \in 0 .. MaxSize
      /\ memoryLeft' + Charged(FIFO)' = MaxSize
  BY SMTT(60), <1>1, <1>2, <1>3, <1>4, <1>5
<1>7. Cached' \subseteq Cached \cup {b}
  <2>1. \A x : x \in Cached' <=> \E j \in Bucket : x \in Range(hashtable'[j])
    BY DEF Cached
  <2>2. \A j \in Bucket : hashtable'[j] = hashtable[j]
                          \/ (hashtable'[j] = Append(hashtable[j], b) /\ hashtable[j] \in Seq(Block))
    BY <1>0, <1>1 DEF Types
  <2>3. \A j \in Bucket : \A x \in Range(hashtable'[j]) : x \in Range(hashtable[j]) \/ x = b
    <3>1. SUFFICES ASSUME NEW j \in Bucket, hashtable'[j] = Append(hashtable[j], b),
                          hashtable[j] \in Seq(Block)
                   PROVE  Range(Append(hashtable[j], b)) = Range(hashtable[j]) \cup {b}
      BY <2>2
    <3>2. QED
      BY <3>1, AppendList
  <2>4. QED
    BY <2>1, <2>3, CachedIn
<1>8. Range(FIFO') = Range(FIFO) \cup {f}
  <2> DEFINE h == <<f>>
  <2>1. h \in Seq(File) /\ Range(h) = {f}
    BY <1>0 DEF Range
  <2> HIDE DEF h, f
  <2>2. Range(h \o FIFO) = Range(h) \cup Range(FIFO)
    BY <1>2, <2>1, SpliceList
  <2>3. QED
    BY <1>1, <2>1, <2>2 DEF h
<1>9. \A x \in Cached' : heap'[x].string \in Range(FIFO')
  <2>1. SUFFICES ASSUME NEW x \in Cached' PROVE heap'[x].string \in Range(FIFO')
    OBVIOUS
  <2>2. CASE x = b
    <3>1. heap'[b] = [string |-> f, using |-> 1]
      BY <1>0, <1>1 DEF Types
    <3>2. QED
      BY <1>8, <2>2, <3>1
  <2>3. CASE x # b
    <3>1. x \in Cached /\ x \in Block
      BY <1>0, <1>7, <2>1, <2>3, CachedBlocks
    <3>2. heap'[x] = heap[x]
      BY <1>0, <1>1, <2>3, <3>1 DEF Types
    <3>3. QED
      BY <1>0, <1>8, <3>1, <3>2 DEF Balance, CacheFits
  <2>4. QED
    BY <2>2, <2>3
<1>10. QED
  BY <1>6, <1>9 DEF Balance, CacheFits

(* What is in the list besides the name that goes.                         *)
LEMMA RangeWithout ==
  ASSUME NEW S, NEW s \in Seq(S), NEW k \in 1 .. Len(s)
  PROVE  \A f \in Range(s) : f # s[k] => f \in Range(RemoveAt(s, k))
<1> DEFINE r == RemoveAt(s, k)
<1>1. /\ Len(s) \in Nat /\ r \in Seq(S) /\ Len(r) = Len(s) - 1
      /\ \A j \in 1 .. Len(s) - 1 : r[j] = IF j < k THEN s[j] ELSE s[j + 1]
  BY RemoveList
<1> HIDE DEF r
<1>2. SUFFICES ASSUME NEW f \in Range(s), f # s[k] PROVE f \in Range(r)
  BY DEF r
<1>3. PICK m \in 1 .. Len(s) : s[m] = f
  BY <1>2, RangeMember
<1>4. PICK j \in 1 .. Len(s) - 1 : r[j] = f
  <2>1. CASE m < k
    <3>1. m \in 1 .. Len(s) - 1
      BY <1>1, <2>1
    <3>2. QED
      BY <1>1, <1>3, <2>1, <3>1
  <2>2. CASE m > k
    <3>1. m - 1 \in 1 .. Len(s) - 1 /\ ~(m - 1 < k) /\ (m - 1) + 1 = m
      BY <1>1, <2>2
    <3>2. QED
      BY <1>1, <1>3, <3>1
  <2>3. QED
    BY <1>1, <1>2, <1>3, <2>1, <2>2
<1>5. QED
  BY <1>1, <1>4, RangeMember

LEMMA EvictNodeLedger ==
  ASSUME IInv, LedgerInv, EvictNode, node # 0, InCache(FIFO[node]),
         node' = node - 1, UNCHANGED <<pc, file_name, temp>>
  PROVE  LedgerInv'
<1> DEFINE f == FIFO[node]
           i == Index(f)
           b == Lookup(f)
<1>0. Types /\ Chains /\ Balance /\ Passed
  BY DEF IInv, LedgerInv
<1>1. /\ f \in File /\ node \in 1 .. Len(FIFO) /\ FIFO' = RemoveAt(FIFO, node)
      /\ b \in Block /\ b \in Range(hashtable[i])
      /\ heap[b].string = f /\ heap[b].using = 0
      /\ \A j \in Bucket : \A x \in Range(hashtable'[j]) :
           x \in Block /\ x \in Range(hashtable[j]) /\ x # b /\ heap'[x] = heap[x]
  BY <1>0, NodeEvicted
<1>2. memoryLeft' = memoryLeft + Size[f]
  BY DEF EvictNode, CacheRemove
<1> HIDE DEF b
<1>3. /\ i \in Bucket /\ FIFO \in Seq(File) /\ Size[f] \in Nat /\ MaxSize \in Nat
      /\ Len(FIFO) \in Nat
  BY <1>0, <1>1, IndexIsBucket, FileCacheAssumption DEF Types
<1>4. \A x \in Cached' : x \in Cached /\ x # b /\ heap'[x] = heap[x]
  <2>1. \A x : x \in Cached' <=> \E j \in Bucket : x \in Range(hashtable'[j])
    BY DEF Cached
  <2>2. QED
    BY <1>1, <2>1, CachedIn
<1>5. \A x \in Cached : x # b => heap[x].string # f
  <2>1. SUFFICES ASSUME NEW x \in Cached, heap[x].string = f PROVE x = b
    OBVIOUS
  <2>2. PICK j \in Bucket : x \in Range(hashtable[j])
    BY CachedIn
  <2>3. j = i
    BY <1>0, <2>1, <2>2 DEF Chains, Chain
  <2>4. QED
    BY <1>0, <1>1, <1>3, <2>1, <2>2, <2>3 DEF Chains, Chain
<1>6. Charged(FIFO)' + Size[f] = Charged(FIFO)
  <2>1. Charged(RemoveAt(FIFO, node)) + Size[f] = Charged(FIFO)
    BY <1>1, <1>3, ChargedWithout
  <2>2. Charged(FIFO)' = Charged(FIFO')
    BY DEF Charged
  <2>3. QED
    BY <1>1, <2>1, <2>2
<1>7. Charged(FIFO)' \in Nat
  <2>1. FIFO' \in Seq(File)
    BY <1>1, <1>3, RemoveList
  <2>2. Charged(FIFO') \in Nat
    BY <2>1, ChargedType
  <2>3. QED
    BY <2>2 DEF Charged
<1> HIDE DEF f, i
<1>8. Balance'
  <2>1. memoryLeft \in Nat /\ memoryLeft + Charged(FIFO) = MaxSize
    BY <1>0, <1>3 DEF Balance, CacheFits
  <2>2. memoryLeft' \in 0 .. MaxSize /\ memoryLeft' + Charged(FIFO)' = MaxSize
    BY <1>2, <1>3, <1>6, <1>7, <2>1
  <2>3. \A g \in Range(FIFO) : g # f => g \in Range(FIFO')
    BY <1>1, <1>3, RangeWithout DEF f
  <2>4. \A x \in Cached' : heap'[x].string \in Range(FIFO')
    <3>1. \A x \in Cached : heap[x].string \in Range(FIFO)
      BY <1>0 DEF Balance, CacheFits
    <3>2. SUFFICES ASSUME NEW x \in Cached' PROVE heap'[x].string \in Range(FIFO')
      OBVIOUS
    <3>3. x \in Cached /\ heap'[x] = heap[x] /\ heap[x].string # f
      BY <1>4, <1>5
    <3>4. QED
      BY <2>3, <3>1, <3>3
  <2>5. QED
    BY <2>2, <2>4 DEF Balance, CacheFits
<1>9. Passed'
  <2>1. /\ Len(FIFO') = Len(FIFO) - 1
        /\ \A j \in 1 .. Len(FIFO) - 1 : FIFO'[j] = IF j < node THEN FIFO[j] ELSE FIFO[j + 1]
    <3> DEFINE r == RemoveAt(FIFO, node)
    <3>1. node \in 1 .. Len(FIFO) /\ FIFO \in Seq(File) /\ FIFO' = r
      BY <1>1, <1>3
    <3>2. /\ Len(r) = Len(FIFO) - 1
          /\ \A j \in 1 .. Len(FIFO) - 1 : r[j] = IF j < node THEN FIFO[j] ELSE FIFO[j + 1]
      BY <3>1, RemoveList
    <3> HIDE DEF r
    <3>3. QED
      BY <3>1, <3>2
  <2>2. ASSUME NEW w \in Worker, pc'[w] = "evict", NEW j \in node' + 1 .. Len(FIFO'),
               NEW x \in Cached', heap'[x].string = FIFO'[j]
        PROVE  heap'[x].using # 0
    <3>1. j \in 1 .. Len(FIFO) - 1 /\ ~(j < node) /\ j + 1 \in node + 1 .. Len(FIFO)
      BY <1>1, <1>3, <2>1, <2>2
    <3>2. FIFO'[j] = FIFO[j + 1]
      BY <2>1, <3>1
    <3>3. x \in Cached /\ heap'[x] = heap[x] /\ pc[w] = "evict"
      BY <1>4, <2>2
    <3>4. QED
      BY <1>0, <2>2, <3>1, <3>2, <3>3 DEF Passed
  <2>3. QED
    BY <2>2 DEF Passed
<1>10. QED
  BY <1>8, <1>9 DEF LedgerInv

LEMMA LedgerStep == IInv /\ IInv' /\ LedgerInv /\ [Next]_vars => LedgerInv'
<1>1. SUFFICES ASSUME IInv, IInv', LedgerInv, [Next]_vars PROVE LedgerInv'
  OBVIOUS
<1>2. Types /\ Chains /\ Phases /\ Balance /\ Passed
  BY <1>1 DEF IInv, LedgerInv
<1>3. /\ \A w \in Worker : file_name[w] \in File
      /\ FIFO \in Seq(File) /\ Len(FIFO) \in Nat /\ node \in 0 .. Len(FIFO)
  BY <1>2 DEF Types
(* A worker that leaves the cache alone.                                   *)
<1>4. ASSUME UNCHANGED <<hashtable, heap, FIFO, memoryLeft>> PROVE Balance'
  BY <1>2, <1>4, SameBalance
<1>5. ASSUME NEW w \in Worker, NEW l, pc' = [pc EXCEPT ![w] = l], l # "evict",
             UNCHANGED <<hashtable, heap, FIFO, node>>
      PROVE  Passed'
  <2>1. Cached' = Cached
    BY <1>5 DEF Cached
  <2>2. \A v \in Worker : pc'[v] = "evict" => pc[v] = "evict"
    BY <1>2, <1>5 DEF Types
  <2>3. QED
    BY <1>2, <1>5, <2>1, <2>2 DEF Passed
(* One after which no worker is in evict.                                  *)
<1>6. ASSUME NEW w \in Worker, NEW l, pc' = [pc EXCEPT ![w] = l], l # "evict",
             LockFree \/ pc[w] = "evict"
      PROVE  Passed'
  <2>1. \A v \in Worker : pc'[v] # "evict"
    BY <1>2, <1>6 DEF Types, Phases, LockFree
  <2>2. QED
    BY <2>1 DEF Passed
<1>7. ASSUME NEW w \in Worker, NEW f \in File, Request(w, f) PROVE LedgerInv'
  BY <1>4, <1>5, <1>7 DEF Request, Goto, cache, LedgerInv
<1>8. ASSUME NEW w \in Worker, ReadFile(w) \/ Sent(w) PROVE LedgerInv'
  <2>1. PICK l \in {"idle", "insert"} : pc' = [pc EXCEPT ![w] = l]
    BY <1>8 DEF ReadFile, Sent, Goto
  <2>2. UNCHANGED cache
    BY <1>8 DEF ReadFile, Sent
  <2>3. QED
    BY <1>4, <1>5, <2>1, <2>2 DEF cache, LedgerInv
<1>9. ASSUME NEW w \in Worker, CacheLookup(w) PROVE LedgerInv'
  <2>1. PICK l \in {"send", "read"} : pc' = [pc EXCEPT ![w] = l]
    BY <1>9 DEF CacheLookup, Goto
  <2>2. Passed'
    BY <1>6, <1>9, <2>1 DEF CacheLookup
  <2>3. UNCHANGED <<hashtable, FIFO, memoryLeft>>
    BY <1>9 DEF CacheLookup
  <2>4. Balance'
    <3>1. CASE InCache(file_name[w]) /\ Hit(w)
      BY <1>2, <2>3, <3>1, HitNames, SameBalance
    <3>2. CASE heap' = heap
      BY <1>4, <2>3, <3>2
    <3>3. QED
      BY <1>9, <3>1, <3>2 DEF CacheLookup
  <2>5. QED
    BY <2>2, <2>4 DEF LedgerInv
<1>10. ASSUME NEW w \in Worker, Release(w) PROVE LedgerInv'
  <2>1. Passed'
    BY <1>6, <1>10 DEF Release, Goto
  <2>2. Balance'
    BY <1>1, <1>2, <1>10, ReleaseNames, SameBalance DEF Release
  <2>3. QED
    BY <2>1, <2>2 DEF LedgerInv
<1>11. ASSUME NEW w \in Worker, LockFree \/ pc[w] = "evict",
              Refuse(w) \/ (Put(w) /\ Fits(file_name[w]))
       PROVE  LedgerInv'
  <2>1. Passed'
    BY <1>6, <1>11 DEF Refuse, Put, Goto
  <2>2. Balance'
    BY <1>1, <1>4, <1>11, PutBalance DEF Refuse
  <2>3. QED
    BY <2>1, <2>2 DEF LedgerInv
<1>12. ASSUME NEW w \in Worker, CacheInsert(w) PROVE LedgerInv'
  <2>1. LockFree
    BY <1>12 DEF CacheInsert
  <2>2. CASE Refuse(w) \/ (Put(w) /\ Fits(file_name[w]))
    BY <1>11, <2>1, <2>2
  <2>3. CASE node' = Oldest /\ UNCHANGED <<hashtable, heap, FIFO, memoryLeft, file_name, temp>>
    <3>1. node' = Len(FIFO') /\ Balance'
      BY <1>4, <2>3 DEF Oldest
    <3>2. node' + 1 .. Len(FIFO') = {}
      BY <1>3, <2>3 DEF Oldest
    <3>3. QED
      BY <3>1, <3>2 DEF Passed, LedgerInv
  <2>4. QED
    BY <1>12, <2>2, <2>3 DEF CacheInsert
<1>13. ASSUME NEW w \in Worker, Evict(w) PROVE LedgerInv'
  <2>1. pc[w] = "evict"
    BY <1>13 DEF Evict
  <2>2. CASE Refuse(w) \/ (Put(w) /\ Fits(file_name[w]))
    BY <1>11, <2>1, <2>2
  <2>3. CASE ~GiveUp /\ (StepOver \/ EvictNode) /\ node' = node - 1
             /\ UNCHANGED <<pc, file_name, temp>>
    <3>1. node # 0 /\ InCache(FIFO[node]) /\ FIFO[node] \in File
      BY <1>3, <2>3 DEF GiveUp
    <3>2. CASE EvictNode
      BY <1>1, <2>3, <3>1, <3>2, EvictNodeLedger
    <3>3. CASE StepOver
      <4>1. UNCHANGED <<hashtable, heap, FIFO, memoryLeft, pc>> /\ Balance'
        BY <1>4, <2>3, <3>3 DEF StepOver
      <4>2. heap[Lookup(FIFO[node])].using # 0
        BY <3>3 DEF StepOver, InUse
      <4>3. Cached' = Cached
        BY <4>1 DEF Cached
      <4>4. ASSUME NEW v \in Worker, pc[v] = "evict", NEW j \in node .. Len(FIFO),
                   NEW x \in Cached, heap[x].string = FIFO[j]
            PROVE  heap[x].using # 0
        <5>1. CASE j = node
          <6>1. PICK i \in Bucket : x \in Range(hashtable[i])
            BY CachedIn
          <6>2. i = Index(FIFO[node])
            BY <1>2, <4>4, <5>1, <6>1 DEF Chains, Chain
          <6>3. Lookup(FIFO[node]) \in Range(hashtable[i]) /\ heap[Lookup(FIFO[node])].string = FIFO[node]
            BY <1>2, <3>1, <6>2, PlaceFound
          <6>4. x = Lookup(FIFO[node])
            BY <1>2, <4>4, <5>1, <6>1, <6>3 DEF Chains, Chain
          <6>5. QED
            BY <4>2, <6>4
        <5>2. CASE j # node
          <6>1. j \in node + 1 .. Len(FIFO)
            BY <1>3, <5>2
          <6>2. QED
            BY <1>2, <4>4, <6>1 DEF Passed
        <5>3. QED
          BY <5>1, <5>2
      <4>5. node' + 1 .. Len(FIFO') = node .. Len(FIFO)
        BY <1>3, <2>3, <4>1
      <4>6. Passed'
        BY <4>1, <4>3, <4>4, <4>5 DEF Passed
      <4>7. QED
        BY <4>1, <4>6 DEF LedgerInv
    <3>4. QED
      BY <2>3, <3>2, <3>3
  <2>4. QED
    BY <1>13, <2>2, <2>3 DEF Evict
<1>14. CASE UNCHANGED vars
  <2>1. Cached' = Cached /\ Balance'
    BY <1>4, <1>14 DEF Cached, vars
  <2>2. Passed'
    BY <1>2, <1>14, <2>1 DEF Passed, vars
  <2>3. QED
    BY <2>1, <2>2 DEF LedgerInv
<1>15. QED
  BY <1>1, <1>7, <1>8, <1>9, <1>10, <1>12, <1>13, <1>14 DEF Next, WorkerStep

THEOREM LedgerInvariance == Spec => []LedgerInv
<1>1. Init => LedgerInv
  <2>1. SUFFICES ASSUME Init PROVE LedgerInv
    OBVIOUS
  <2>2. Cached = {} /\ FIFO = <<>> /\ memoryLeft = MaxSize /\ MaxSize \in Nat
    BY <2>1, FileCacheAssumption DEF Init, Cached, Range
  <2>3. Balance
    BY <2>2, ChargedEmpty DEF Balance, CacheFits
  <2>4. Passed
    BY <2>1 DEF Init, Passed
  <2>5. QED
    BY <2>3, <2>4 DEF LedgerInv
<1>2. QED
  BY <1>1, Invariance, LedgerStep, PTL DEF Spec

(* memoryLeft never goes below nothing nor beyond what the cache has, and  *)
(* every variable keeps its type.                                          *)
THEOREM TypesHold == Spec => []TypeOK
<1>1. IInv /\ LedgerInv => TypeOK
  BY DEF IInv, Types, LedgerInv, Balance, TypeOK
<1>2. QED
  BY <1>1, Invariance, LedgerInvariance, PTL

(* The sizes of the names in the list and what is left make up the cache,  *)
(* though chains are lost; and no cached file is missing from the list.    *)
THEOREM CacheFitsHolds == Spec => []CacheFits
<1>1. LedgerInv => CacheFits
  BY DEF LedgerInv, Balance
<1>2. QED
  BY <1>1, LedgerInvariance, PTL

(* No step removes a file while an older one that is cached is not in use. *)
THEOREM EvictsOldestHolds == Spec => EvictsOldest
<1> DEFINE A == Len(FIFO') < Len(FIFO) =>
                  /\ node # 0
                  /\ Users(Lookup(FIFO[node])) = {}
                  /\ \A j \in node + 1 .. Len(FIFO) :
                       InCache(FIFO[j]) => Users(Lookup(FIFO[j])) # {}
<1>1. IInv /\ LedgerInv /\ [Next]_vars => [A]_vars
  <2>1. SUFFICES ASSUME IInv, LedgerInv, Next, Len(FIFO') < Len(FIFO)
                 PROVE  A
    BY DEF vars
  <2>2. Types /\ Chains /\ UsingCounts /\ Passed
    BY <2>1 DEF IInv, LedgerInv
  <2>3. FIFO \in Seq(File) /\ Len(FIFO) \in Nat /\ node \in 0 .. Len(FIFO)
    BY <2>2 DEF Types
  <2>4. PICK w \in Worker : WorkerStep(w)
    BY <2>1 DEF Next
  <2>5. FIFO' # FIFO
    BY <2>1, <2>3
  <2>6. ~Put(w)
    <3>1. SUFFICES ASSUME Put(w) PROVE FALSE
      OBVIOUS
    <3>2. FIFO' = <<file_name[w]>> \o FIFO /\ file_name[w] \in File
      BY <2>2, <3>1 DEF Put, Types
    <3>3. Len(FIFO') = 1 + Len(FIFO)
      BY <2>3, <3>2, ConcatProperties
    <3>4. QED
      BY <2>1, <2>3, <3>3
  <2>7. Evict(w)
    BY <2>4, <2>5, <2>6 DEF WorkerStep, Request, CacheLookup, ReadFile, CacheInsert,
                            Refuse, Sent, Release, cache
  <2>8. pc[w] = "evict" /\ ~GiveUp /\ EvictNode
    BY <2>5, <2>6, <2>7 DEF Evict, Refuse, StepOver
  <2>9. node # 0 /\ InCache(FIFO[node]) /\ FIFO[node] \in File
    BY <2>3, <2>8 DEF GiveUp
  <2>10. ASSUME NEW f \in File, InCache(f)
         PROVE  /\ Lookup(f) \in Block /\ Lookup(f) \in Cached
                /\ heap[Lookup(f)] # NULL /\ heap[Lookup(f)].string = f
                /\ heap[Lookup(f)].using = 0 <=> Users(Lookup(f)) = {}
    <3>1. /\ Lookup(f) \in Range(hashtable[Index(f)]) /\ Lookup(f) \in Block
          /\ heap[Lookup(f)] \in Data /\ heap[Lookup(f)].string = f
      BY <2>2, <2>10, PlaceFound
    <3>2. Lookup(f) \in Cached
      BY <3>1, CachedIn, IndexIsBucket
    <3>3. heap[Lookup(f)] # NULL
      BY <3>1, FileCacheAssumption
    <3>4. heap[Lookup(f)].using = 0 <=> Users(Lookup(f)) = {}
      BY <2>2, <3>1, <3>3, NoUsers DEF Users
    <3>5. QED
      BY <3>1, <3>2, <3>3, <3>4
  <2>11. Users(Lookup(FIFO[node])) = {}
    BY <2>8, <2>9, <2>10 DEF EvictNode, InUse
  <2>12. ASSUME NEW j \in node + 1 .. Len(FIFO), InCache(FIFO[j])
         PROVE  Users(Lookup(FIFO[j])) # {}
    <3>1. FIFO[j] \in File
      BY <2>3, <2>12
    <3>2. QED
      BY <2>2, <2>8, <2>10, <2>12, <3>1 DEF Passed
  <2>13. QED
    BY <2>9, <2>11, <2>12
<1>2. QED
  BY <1>1, Invariance, LedgerInvariance, PTL DEF Spec, EvictsOldest
=============================================================================
