------------------------ MODULE RequestBufferProofs ------------------------
(***************************************************************************)
(* The request buffer is a FIFO queue that loses no wake-up and serves no  *)
(* connection twice, for any number of workers and any ring size.          *)
(***************************************************************************)
EXTENDS RequestBuffer, ListLemmas, FiniteSetTheorems

-----------------------------------------------------------------------------
(* The arithmetic of the ring.                                             *)
LEMMA BuffSizePositive == BuffSize \in Nat /\ BuffSize > 1
BY RequestBufferAssumption DEF BuffSize

LEMMA OneWrap ==
  \A a \in 0 .. 2 * BuffSize - 1 :
    a % BuffSize = IF a < BuffSize THEN a ELSE a - BuffSize
BY BuffSizePositive, SMT

LEMMA SuccIsSlot ==
  \A i \in Slot : /\ Succ(i) \in Slot
                  /\ Succ(i) = IF i = BuffSize - 1 THEN 0 ELSE i + 1
BY BuffSizePositive, OneWrap DEF Slot, Succ

LEMMA CountIsDistance ==
  ASSUME NEW i \in Slot, NEW o \in Slot
  PROVE  /\ RingCount(i, o) = IF i >= o THEN i - o ELSE i - o + BuffSize
         /\ RingCount(i, o) \in Slot
         /\ RingCount(i, o) = 0 <=> i = o
<1> DEFINE a == i - o + BuffSize
<1>1. a \in 0 .. 2 * BuffSize - 1
  BY BuffSizePositive DEF Slot
<1>2. a % BuffSize = IF a < BuffSize THEN a ELSE a - BuffSize
  <2> HIDE DEF a
  <2>1. QED
    BY <1>1, OneWrap
<1>3. RingCount(i, o) = a % BuffSize
  BY DEF RingCount
<1>4. RingCount(i, o) = IF i >= o THEN i - o ELSE i - o + BuffSize
  <2> DEFINE c == RingCount(i, o)
  <2>1. c = IF a < BuffSize THEN a ELSE a - BuffSize
    BY <1>2, <1>3
  <2> HIDE DEF c
  <2>2. c = IF i >= o THEN i - o ELSE i - o + BuffSize
    BY <2>1, BuffSizePositive DEF Slot
  <2>3. QED
    BY <2>2 DEF c
<1>5. QED
  BY <1>4, BuffSizePositive DEF Slot

(* The slot of the k-th request.                                           *)
At(o, k) == IF o + k - 1 < BuffSize THEN o + k - 1 ELSE o + k - 1 - BuffSize

LEMMA AtIsSlot ==
  ASSUME NEW i \in Slot, NEW o \in Slot, NEW k \in 1 .. RingCount(i, o)
  PROVE  (o + k - 1) % BuffSize = At(o, k) /\ At(o, k) \in Slot
<1> DEFINE a == o + k - 1
<1>1. RingCount(i, o) \in Slot
  BY CountIsDistance
<1>2. a \in 0 .. 2 * BuffSize - 1
  BY <1>1, BuffSizePositive DEF Slot
<1>3. a % BuffSize = IF a < BuffSize THEN a ELSE a - BuffSize
  <2> HIDE DEF a
  <2>1. QED
    BY <1>2, OneWrap
<1>4. a % BuffSize = At(o, k)
  <2>1. At(o, k) = IF a < BuffSize THEN a ELSE a - BuffSize
    BY <1>1, <1>2, BuffSizePositive DEF At, Slot
  <2> HIDE DEF a
  <2>2. QED
    BY <1>3, <2>1
<1>5. At(o, k) \in Slot
  BY <1>2, BuffSizePositive DEF At, Slot
<1>6. QED
  BY <1>4, <1>5

Entry == Conn \cup {NULL}
Rings == [Slot -> Entry]

LEMMA RingIsList ==
  ASSUME NEW b \in Rings, NEW i \in Slot, NEW o \in Slot
  PROVE  /\ Ring(b, i, o) \in Seq(Entry)
         /\ Len(Ring(b, i, o)) = RingCount(i, o)
         /\ \A k \in 1 .. RingCount(i, o) : /\ Ring(b, i, o)[k] = b[At(o, k)]
                                            /\ At(o, k) \in Slot
<1>1. RingCount(i, o) \in Nat
  <2>1. RingCount(i, o) \in Slot
    BY CountIsDistance
  <2>2. QED
    BY <2>1, BuffSizePositive DEF Slot
<1>2. \A k \in 1 .. RingCount(i, o) :
        (o + k - 1) % BuffSize = At(o, k) /\ At(o, k) \in Slot
  BY AtIsSlot
<1>3. \A k \in 1 .. RingCount(i, o) : b[At(o, k)] \in Entry
  BY <1>2 DEF Rings
<1>4. Ring(b, i, o) = [k \in 1 .. RingCount(i, o) |-> b[At(o, k)]]
  BY <1>2 DEF Ring
<1>5. [k \in 1 .. RingCount(i, o) |-> b[At(o, k)]] \in Seq(Entry)
  BY <1>1, <1>3, IsASeq
<1>6. QED
  BY <1>1, <1>2, <1>4, <1>5, LenProperties
-----------------------------------------------------------------------------
(* Putting a request into the ring.                                        *)
LEMMA PutRequest ==
  ASSUME NEW b \in Rings, NEW i \in Slot, NEW o \in Slot, NEW c \in Entry,
         RingCount(i, o) # BuffSize - 1
  PROVE  /\ RingCount(Succ(i), o) = RingCount(i, o) + 1
         /\ Ring([b EXCEPT ![i] = c], Succ(i), o) = Append(Ring(b, i, o), c)
<1> DEFINE n == RingCount(i, o)
           q == Ring(b, i, o)
           r == Ring([b EXCEPT ![i] = c], Succ(i), o)
           d == [b EXCEPT ![i] = c]
<1>1. Succ(i) \in Slot /\ d \in Rings
  BY SuccIsSlot DEF Rings
<1>2. /\ n = IF i >= o THEN i - o ELSE i - o + BuffSize
      /\ n \in Slot
      /\ RingCount(Succ(i), o) = IF Succ(i) >= o THEN Succ(i) - o
                                 ELSE Succ(i) - o + BuffSize
  BY <1>1, CountIsDistance
<1>3. RingCount(Succ(i), o) = n + 1
  <2>1. Succ(i) = IF i = BuffSize - 1 THEN 0 ELSE i + 1
    BY SuccIsSlot
  <2> DEFINE m == RingCount(Succ(i), o)
  <2> HIDE DEF n, m
  <2>2. n # BuffSize - 1 /\ m = n + 1
    BY <1>2, <2>1, BuffSizePositive DEF Slot, m, n
  <2>3. QED
    BY <2>2 DEF m
<1>4. q \in Seq(Entry) /\ Len(q) = n /\ \A k \in 1 .. n : q[k] = b[At(o, k)] /\ At(o, k) \in Slot
  BY RingIsList
<1>5. /\ r \in Seq(Entry) /\ Len(r) = n + 1
      /\ \A k \in 1 .. n + 1 : r[k] = d[At(o, k)] /\ At(o, k) \in Slot
  <2>1. /\ r \in Seq(Entry) /\ Len(r) = RingCount(Succ(i), o)
        /\ \A k \in 1 .. RingCount(Succ(i), o) : r[k] = d[At(o, k)] /\ At(o, k) \in Slot
    <3> HIDE DEF d
    <3>1. r = Ring(d, Succ(i), o)
      BY DEF d
    <3> HIDE DEF r
    <3>2. QED
      BY <1>1, <3>1, RingIsList
  <2>2. QED
    BY <1>3, <2>1
<1>6. At(o, n + 1) = i /\ \A k \in 1 .. n : At(o, k) # i
  BY <1>2, BuffSizePositive DEF Slot, At
<1>7. n \in Nat
  BY <1>2, BuffSizePositive DEF Slot
<1>8. /\ Append(q, c) \in Seq(Entry) /\ Len(Append(q, c)) = n + 1
      /\ \A k \in 1 .. n : Append(q, c)[k] = q[k]
      /\ Append(q, c)[n + 1] = c
  BY <1>4, AppendProperties
<1>9. \A k \in 1 .. n + 1 : r[k] = Append(q, c)[k]
  <2> HIDE DEF n, q, r
  <2>1. SUFFICES ASSUME NEW k \in 1 .. n + 1
                 PROVE  r[k] = Append(q, c)[k]
    OBVIOUS
  <2>2. CASE k = n + 1
    <3>1. r[k] = d[i] /\ d[i] = c
      BY <1>5, <1>6, <1>7, <2>2 DEF Rings
    <3>2. QED
      BY <1>8, <2>2, <3>1
  <2>3. CASE k # n + 1
    <3>1. k \in 1 .. n
      BY <1>7, <2>3
    <3>2. QED
      BY <1>4, <1>5, <1>6, <1>8, <3>1
  <2>4. QED
    BY <2>2, <2>3
<1>10. r = Append(q, c)
  <2> HIDE DEF n, q, r
  <2>1. QED
    BY <1>5, <1>8, <1>9, SeqEqual
<1>11. QED
  BY <1>3, <1>10

(* Taking the oldest request out.                                          *)
LEMMA TakeOldest ==
  ASSUME NEW b \in Rings, NEW i \in Slot, NEW o \in Slot, i # o
  PROVE  /\ RingCount(i, Succ(o)) = RingCount(i, o) - 1
         /\ Ring(b, i, o) # <<>>
         /\ b[o] = Head(Ring(b, i, o))
         /\ Ring(b, i, Succ(o)) = Tail(Ring(b, i, o))
<1> DEFINE n == RingCount(i, o)
           q == Ring(b, i, o)
           r == Ring(b, i, Succ(o))
<1>1. Succ(o) \in Slot
  BY SuccIsSlot
<1>2. /\ n = IF i >= o THEN i - o ELSE i - o + BuffSize
      /\ n \in Slot /\ n # 0
      /\ RingCount(i, Succ(o)) = IF i >= Succ(o) THEN i - Succ(o)
                                 ELSE i - Succ(o) + BuffSize
  BY <1>1, CountIsDistance
<1>3. RingCount(i, Succ(o)) = n - 1
  <2>1. Succ(o) = IF o = BuffSize - 1 THEN 0 ELSE o + 1
    BY SuccIsSlot
  <2> DEFINE m == RingCount(i, Succ(o))
  <2> HIDE DEF n, m
  <2>2. m = n - 1
    BY <1>2, <2>1, BuffSizePositive DEF Slot, m, n
  <2>3. QED
    BY <2>2 DEF m
<1>4. q \in Seq(Entry) /\ Len(q) = n /\ \A k \in 1 .. n : q[k] = b[At(o, k)]
  <2> HIDE DEF n, q
  <2>1. QED
    BY RingIsList DEF n, q
<1>5. /\ r \in Seq(Entry) /\ Len(r) = n - 1
      /\ \A k \in 1 .. n - 1 : r[k] = b[At(Succ(o), k)]
  <2>1. /\ r \in Seq(Entry) /\ Len(r) = RingCount(i, Succ(o))
        /\ \A k \in 1 .. RingCount(i, Succ(o)) : r[k] = b[At(Succ(o), k)]
    BY <1>1, RingIsList, Zenon
  <2>2. QED
    BY <1>3, <2>1
<1>6. At(o, 1) = o /\ \A k \in 1 .. n - 1 : At(Succ(o), k) = At(o, k + 1)
  <2>1. Succ(o) = IF o = BuffSize - 1 THEN 0 ELSE o + 1
    BY SuccIsSlot
  <2> HIDE DEF n
  <2>2. QED
    BY <1>2, <2>1, BuffSizePositive DEF Slot, At
<1>7. n \in Nat \ {0}
  BY <1>2, BuffSizePositive DEF Slot
<1>8. q # <<>> /\ Head(q) = b[o]
  <2> HIDE DEF n, q, r
  <2>1. q # <<>>
    BY <1>4, <1>7, EmptySeq
  <2>2. QED
    BY <1>4, <1>6, <1>7, <2>1, HeadTailProperties
<1>9. /\ Tail(q) \in Seq(Entry) /\ Len(Tail(q)) = n - 1
      /\ \A k \in 1 .. n - 1 : Tail(q)[k] = q[k + 1]
  <2> HIDE DEF n, q, r
  <2>1. QED
    BY <1>4, <1>8, HeadTailProperties
<1>10. \A k \in 1 .. n - 1 : r[k] = Tail(q)[k]
  <2> HIDE DEF n, q, r
  <2>1. QED
    BY <1>4, <1>5, <1>6, <1>7, <1>9
<1>11. r = Tail(q)
  <2> HIDE DEF n, q, r
  <2>1. QED
    BY <1>5, <1>9, <1>10, SeqEqual
<1>12. QED
  BY <1>3, <1>8, <1>11
-----------------------------------------------------------------------------
(* The inductive invariant.  Phases says what the program counters stand   *)
(* for; the other parts are the invariants of RequestBuffer.               *)
Phases ==
  /\ \A w \in Worker : job[w] # NULL <=> wpc[w] = "serve"
  /\ connfd # NULL <=> mpc \in {"request", "full", "woken"}
  /\ exiting <=> mpc \in {"exiting", "join", "gone"}
  /\ mpc = "gone" => \A w \in Worker : wpc[w] = "done"

IInv == TypeOK /\ Phases /\ OneOwner /\ NoLostWakeup

(* The ring, in terms of the three variables.                              *)
LEMMA QueueType ==
  ASSUME TypeOK
  PROVE  /\ buffer \in Rings
         /\ Queued \in Seq(Entry)
         /\ Len(Queued) = Count
         /\ Count \in Slot
         /\ Count \in Nat
         /\ Count = 0 <=> in = out
<1>1. buffer \in Rings /\ in \in Slot /\ out \in Slot
  BY DEF TypeOK, Rings, Entry
<1>2. Count \in Slot /\ (Count = 0 <=> in = out)
  BY <1>1, CountIsDistance DEF Count
<1>3. Count \in Nat
  BY <1>2, BuffSizePositive DEF Slot
<1>4. QED
  BY <1>1, <1>2, <1>3, RingIsList DEF Queued, Count

LEMMA RingIdle ==
  ASSUME UNCHANGED <<buffer, in, out>>
  PROVE  Queued' = Queued /\ Count' = Count
BY DEF Queued, Count

LEMMA RingPut ==
  ASSUME TypeOK, ~IsFull, buffer' = [buffer EXCEPT ![in] = connfd],
         in' = Succ(in), out' = out
  PROVE  Queued' = Append(Queued, connfd) /\ Count' = Count + 1
<1>1. buffer \in Rings /\ in \in Slot /\ out \in Slot /\ connfd \in Entry
  BY DEF TypeOK, Rings, Entry
<1>2. RingCount(in, out) # BuffSize - 1
  BY DEF IsFull, Count
<1>3. /\ RingCount(Succ(in), out) = RingCount(in, out) + 1
      /\ Ring([buffer EXCEPT ![in] = connfd], Succ(in), out)
           = Append(Ring(buffer, in, out), connfd)
  BY <1>1, <1>2, PutRequest
<1>4. QED
  BY <1>3 DEF Queued, Count

LEMMA RingTake ==
  ASSUME TypeOK, in # out, buffer' = buffer, in' = in, out' = Succ(out)
  PROVE  /\ Queued # <<>> /\ buffer[out] = Head(Queued)
         /\ Queued' = Tail(Queued) /\ Count' = Count - 1
<1>1. buffer \in Rings /\ in \in Slot /\ out \in Slot
  BY DEF TypeOK, Rings, Entry
<1>2. QED
  BY <1>1, TakeOldest DEF Queued, Count
-----------------------------------------------------------------------------
LEMMA TypeInit == Init => TypeOK
<1>1. 0 \in Slot
  BY BuffSizePositive DEF Slot
<1>2. QED
  BY <1>1 DEF Init, TypeOK

LEMMA TypeStep == TypeOK /\ [Next]_vars => TypeOK'
<1>1. SUFFICES ASSUME TypeOK, [Next]_vars PROVE TypeOK'
  OBVIOUS
<1>2. CASE UNCHANGED vars
  BY <1>1, <1>2 DEF TypeOK, vars
<1>3. ASSUME NEW c \in Conn, Accept(c) PROVE TypeOK'
  BY <1>1, <1>3 DEF TypeOK, Accept
<1>4. CASE ServerRequest
  BY <1>1, <1>4, SuccIsSlot DEF TypeOK, ServerRequest, SignalEmpty
<1>5. CASE SetExiting \/ Broadcast \/ Join \/ SpuriousMain
  BY <1>1, <1>5 DEF TypeOK, SetExiting, Broadcast, Join, SpuriousMain
<1>6. ASSUME NEW w \in Worker, TestBuffer(w) PROVE TypeOK'
  BY <1>1, <1>6, SuccIsSlot DEF TypeOK, TestBuffer, TakeRequest, SignalFull
<1>7. ASSUME NEW w \in Worker,
             WokenExit(w) \/ BeginWait(w) \/ Serve(w) \/ SpuriousWorker(w)
      PROVE  TypeOK'
  BY <1>1, <1>7 DEF TypeOK, WokenExit, BeginWait, Serve, SpuriousWorker
<1>8. QED
  BY <1>1, <1>2, <1>3, <1>4, <1>5, <1>6, <1>7
     DEF Next, WorkerStep, Top, Woken, Gone

LEMMA PhasesStep == IInv /\ [Next]_vars => Phases'
<1>1. SUFFICES ASSUME TypeOK, Phases, OneOwner, [Next]_vars PROVE Phases'
  BY DEF IInv
<1> USE <1>1
<1>2. CASE UNCHANGED vars
  BY <1>2 DEF Phases, vars
<1>3. ASSUME NEW c \in Conn, Accept(c) PROVE Phases'
  BY <1>3, RequestBufferAssumption DEF Phases, Accept
<1>4. CASE ServerRequest
  BY <1>4 DEF Phases, ServerRequest, SignalEmpty, TypeOK
<1>5. CASE SetExiting
  BY <1>5 DEF Phases, SetExiting
<1>6. CASE Broadcast
  BY <1>6 DEF Phases, Broadcast, TypeOK
<1>7. CASE Join \/ SpuriousMain
  BY <1>7 DEF Phases, Join, SpuriousMain
<1>8. ASSUME NEW w \in Worker, Top(w) \/ Woken(w) PROVE Phases'
  <2>1. wpc[w] \in {"top", "woken"} /\ TestBuffer(w)
    BY <1>8 DEF Top, Woken
  <2>2. CASE in = out
    BY <2>1, <2>2 DEF Phases, TestBuffer, TypeOK
  <2>3. CASE in # out
    <3>1. TakeRequest(w) /\ UNCHANGED <<buffer, in, exiting, connfd>>
      BY <2>1, <2>3 DEF TestBuffer
    <3>2. buffer[out] # NULL
      <4>1. Queued # <<>> /\ buffer[out] = Head(Queued)
        BY <2>3, <3>1, RingTake DEF TakeRequest
      <4>2. Head(Queued) \in Range(Queued)
        BY <4>1, QueueType, RangeType
      <4>3. QED
        BY <4>1, <4>2 DEF OneOwner
    <3>3. QED
      BY <2>1, <3>1, <3>2 DEF Phases, TakeRequest, SignalFull, TypeOK
  <2>4. QED
    BY <2>2, <2>3
<1>9. ASSUME NEW w \in Worker, WokenExit(w) \/ BeginWait(w) \/ SpuriousWorker(w)
      PROVE  Phases'
  BY <1>9 DEF Phases, WokenExit, BeginWait, SpuriousWorker, TypeOK
<1>10. ASSUME NEW w \in Worker, Serve(w) PROVE Phases'
  BY <1>10 DEF Phases, Serve, TypeOK
<1>11. QED
  BY <1>2, <1>3, <1>4, <1>5, <1>6, <1>7, <1>8, <1>9, <1>10
     DEF Next, WorkerStep, Gone
-----------------------------------------------------------------------------
(* The connections that the ring, the workers and main hold are distinct;  *)
(* OneOwner, on any queue q, jobs j and connection c.                      *)
Distinct(q, j, c) ==
  /\ IsInjective(q)
  /\ \A v, w \in Worker : j[v] = j[w] /\ j[v] # NULL => v = w
  /\ Range(q) \cap Range(j) = {}
  /\ c # NULL => c \notin Range(q) \cup Range(j)
  /\ NULL \notin Range(q)

LEMMA OwnerStep == IInv /\ [Next]_vars => OneOwner'
<1>1. SUFFICES ASSUME TypeOK, Phases, OneOwner, [Next]_vars PROVE OneOwner'
  BY DEF IInv
<1> USE <1>1
<1>2. /\ OneOwner <=> Distinct(Queued, job, connfd)
      /\ OneOwner' <=> Distinct(Queued', job', connfd')
  BY DEF OneOwner, Distinct
<1>3. /\ Range(job) = {job[w] : w \in Worker}
      /\ Queued \in Seq(Entry) /\ IsInjective(Queued)
      /\ NULL \notin Range(Queued) /\ NULL \notin Conn
      /\ job \in [Worker -> Conn \cup {NULL}]
  BY QueueType, RequestBufferAssumption DEF TypeOK, OneOwner, Range
<1>4. CASE UNCHANGED <<buffer, in, out, job, connfd>>
  BY <1>2, <1>4, RingIdle
<1>5. ASSUME NEW c \in Conn, Accept(c) PROVE OneOwner'
  <2>1. Queued' = Queued /\ job' = job /\ connfd' = c /\ c \notin Open
    BY <1>5, RingIdle DEF Accept
  <2>2. c \notin Range(Queued) \cup Range(job)
    BY <2>1, <1>3 DEF Open
  <2>3. QED
    BY <1>2, <2>1, <2>2 DEF Distinct
<1>6. CASE ServerRequest /\ ~IsFull
  <2>1. /\ Queued' = Append(Queued, connfd)
        /\ job' = job /\ connfd' = NULL /\ connfd # NULL
    BY <1>6, RingPut DEF ServerRequest, Phases
  <2>2. connfd \in Entry /\ connfd \notin Range(Queued) \cup Range(job)
    BY <1>2, <2>1 DEF TypeOK, Distinct, Entry
  <2>3. Range(Queued') = Range(Queued) \cup {connfd} /\ IsInjective(Queued')
    BY <1>3, <2>1, <2>2, AppendList
  <2>4. QED
    BY <1>2, <2>1, <2>2, <2>3 DEF Distinct
<1>7. ASSUME NEW w \in Worker, Top(w) \/ Woken(w), in # out PROVE OneOwner'
  <2>1. /\ Queued # <<>> /\ buffer[out] = Head(Queued)
        /\ Queued' = Tail(Queued)
        /\ job' = [job EXCEPT ![w] = Head(Queued)]
        /\ connfd' = connfd
    BY <1>7, RingTake DEF Top, Woken, TestBuffer, TakeRequest
  <2>2. /\ Range(Queued') = Range(Queued) \ {Head(Queued)}
        /\ IsInjective(Queued') /\ Head(Queued) \in Range(Queued)
    BY <1>3, <2>1, TailList
  <2>3. Range(job') \subseteq Range(job) \cup {Head(Queued)}
    BY <1>3, <2>1 DEF Range
  <2>4. \A v \in Worker : job[v] # Head(Queued)
    BY <1>2, <1>3, <2>2 DEF Distinct
  <2>5. Distinct(Queued', job', connfd')
    BY <1>2, <1>3, <2>1, <2>2, <2>3, <2>4 DEF Distinct
  <2>6. QED
    BY <1>2, <2>5
<1>8. ASSUME NEW w \in Worker, Serve(w) PROVE OneOwner'
  <2>1. /\ Queued' = Queued /\ connfd' = connfd
        /\ job' = [job EXCEPT ![w] = NULL]
    BY <1>8, RingIdle DEF Serve
  <2>2. Range(job') \subseteq Range(job) \cup {NULL}
    BY <1>3, <2>1 DEF Range
  <2>3. Distinct(Queued', job', connfd')
    BY ZenonT(60), <1>2, <1>3, <2>1, <2>2 DEF Distinct
  <2>4. QED
    BY <1>2, <2>3
<1>9. QED
  <2>1. CASE ServerRequest /\ IsFull
    BY <1>4, <2>1 DEF ServerRequest
  <2>2. CASE SetExiting \/ Broadcast \/ Join \/ SpuriousMain \/ UNCHANGED vars
    BY <1>4, <2>2 DEF SetExiting, Broadcast, Join, SpuriousMain, vars
  <2>3. ASSUME NEW w \in Worker,
               \/ WokenExit(w) \/ BeginWait(w) \/ SpuriousWorker(w)
               \/ (Top(w) \/ Woken(w)) /\ in = out
        PROVE  OneOwner'
    BY <1>4, <2>3
       DEF WokenExit, BeginWait, SpuriousWorker, Top, Woken, TestBuffer
  <2>4. QED
    BY <1>5, <1>6, <1>7, <1>8, <2>1, <2>2, <2>3 DEF Next, WorkerStep, Gone
-----------------------------------------------------------------------------
(* Wake-ups.  Idle: some worker waits or is about to.                      *)
Idle == \E w \in Worker : wpc[w] \in {"empty", "wait"}

LEMMA AwakeFinite ==
  /\ IsFiniteSet(AwakeWorkers) /\ Cardinality(AwakeWorkers) \in Nat
  /\ IsFiniteSet(AwakeWorkers') /\ Cardinality(AwakeWorkers') \in Nat
<1>1. AwakeWorkers \in SUBSET Worker /\ AwakeWorkers' \in SUBSET Worker
  BY DEF AwakeWorkers
<1>2. IsFiniteSet(Worker)
  BY RequestBufferAssumption
<1>3. QED
  BY <1>1, <1>2, FS_Subset, FS_CardinalityType

(* Nobody takes a request, and nobody who was awake is asleep.             *)
LEMMA StillAwake ==
  ASSUME NoLostWakeup, Count' = Count,
         AwakeWorkers \subseteq AwakeWorkers',
         Idle' => Idle, ~exiting' => ~exiting,
         mpc' = "full" => mpc = "full" \/ IsFull, Count \in Nat
  PROVE  NoLostWakeup'
<1>1. Cardinality(AwakeWorkers) <= Cardinality(AwakeWorkers')
  BY AwakeFinite, FS_Subset
<1>2. IsFull' <=> IsFull
  BY DEF IsFull
<1>3. QED
  BY <1>1, <1>2, AwakeFinite DEF NoLostWakeup, Idle

LEMMA WakeStep == IInv /\ [Next]_vars => NoLostWakeup'
<1>1. SUFFICES ASSUME TypeOK, Phases, NoLostWakeup, [Next]_vars PROVE NoLostWakeup'
  BY DEF IInv
<1> USE <1>1
<1>2. /\ Count \in Nat /\ (Count = 0 <=> in = out)
      /\ wpc \in [Worker -> {"top", "empty", "wait", "woken", "serve", "done"}]
  BY QueueType DEF TypeOK
<1>3. CASE UNCHANGED <<buffer, in, out, wpc>> /\ (mpc' = "full" => mpc = "full" \/ IsFull)
           /\ (~exiting' => ~exiting)
  BY <1>2, <1>3, RingIdle, StillAwake DEF AwakeWorkers, Idle
<1>4. CASE ServerRequest /\ ~IsFull
  <2>1. Count' = Count + 1 /\ exiting' = exiting /\ mpc' = "poll"
    BY <1>4, RingPut DEF ServerRequest
  <2>2. CASE \A w \in Worker : wpc[w] # "wait"
    BY <1>2, <1>4, <2>1, <2>2 DEF NoLostWakeup, ServerRequest, SignalEmpty, LockFree
  <2>3. ASSUME NEW w \in Worker, wpc[w] = "wait", wpc' = [wpc EXCEPT ![w] = "woken"]
        PROVE  NoLostWakeup'
    <3>1. AwakeWorkers' = AwakeWorkers \cup {w} /\ w \notin AwakeWorkers
      BY <1>2, <2>3 DEF AwakeWorkers
    <3>2. Cardinality(AwakeWorkers') = Cardinality(AwakeWorkers) + 1
      BY <3>1, AwakeFinite, FS_AddElement
    <3>3. ~exiting => Count <= Cardinality(AwakeWorkers)
      BY <2>3 DEF NoLostWakeup
    <3>4. ~exiting' => Count' <= Cardinality(AwakeWorkers')
      BY <1>2, <2>1, <3>2, <3>3, AwakeFinite
    <3>5. QED
      BY <2>1, <3>4 DEF NoLostWakeup
  <2>4. QED
    BY <1>4, <2>2, <2>3 DEF ServerRequest, SignalEmpty
<1>5. CASE Broadcast
  BY <1>5, RingIdle DEF NoLostWakeup, Broadcast, Phases
<1>6. ASSUME NEW w \in Worker, Top(w) \/ Woken(w), in = out PROVE NoLostWakeup'
  <2>1. /\ UNCHANGED <<buffer, in, out, exiting, mpc>>
        /\ wpc' = [wpc EXCEPT ![w] = "empty"]
    BY <1>6 DEF Top, Woken, TestBuffer
  <2>2. Count' = 0 /\ Count = 0 /\ (IsFull' <=> IsFull)
    BY <1>2, <1>6, <2>1, RingIdle DEF IsFull
  <2>3. QED
    BY <2>1, <2>2, AwakeFinite DEF NoLostWakeup
<1>7. ASSUME NEW w \in Worker, Top(w) \/ Woken(w), in # out PROVE NoLostWakeup'
  <2>1. /\ Count' = Count - 1 /\ exiting' = exiting
        /\ wpc' = [wpc EXCEPT ![w] = "serve"] /\ w \in AwakeWorkers
        /\ mpc' # "full"
    BY <1>7, RingTake
       DEF Top, Woken, TestBuffer, TakeRequest, SignalFull, AwakeWorkers
  <2>2. AwakeWorkers' = AwakeWorkers \ {w}
    BY <1>2, <2>1 DEF AwakeWorkers
  <2>3. Cardinality(AwakeWorkers') = Cardinality(AwakeWorkers) - 1
    BY <2>1, <2>2, AwakeFinite, FS_RemoveElement
  <2>4. Idle' => Idle
    BY <1>2, <2>1 DEF Idle
  <2>5. ~exiting' /\ Idle' => Count' <= Cardinality(AwakeWorkers')
    BY <1>2, <2>1, <2>3, <2>4, AwakeFinite DEF NoLostWakeup, Idle
  <2>6. QED
    BY <2>1, <2>5 DEF NoLostWakeup, Idle
<1>8. ASSUME NEW w \in Worker, BeginWait(w) \/ Serve(w) \/ SpuriousWorker(w)
      PROVE  NoLostWakeup'
  <2>1. /\ UNCHANGED <<buffer, in, out, exiting, mpc>>
        /\ AwakeWorkers \subseteq AwakeWorkers' /\ (Idle' => Idle)
    BY <1>2, <1>8 DEF BeginWait, Serve, SpuriousWorker, AwakeWorkers, Idle
  <2>2. QED
    BY <1>2, <2>1, RingIdle, StillAwake
<1>9. ASSUME NEW w \in Worker, WokenExit(w) PROVE NoLostWakeup'
  <2>1. UNCHANGED <<buffer, in, out, mpc>> /\ exiting'
    BY <1>9 DEF WokenExit
  <2>2. IsFull' <=> IsFull
    BY <2>1, RingIdle DEF IsFull
  <2>3. QED
    BY <2>1, <2>2 DEF NoLostWakeup
<1>10. QED
  <2>1. CASE ServerRequest /\ IsFull
    BY <1>3, <2>1 DEF ServerRequest
  <2>2. CASE SetExiting \/ Join \/ SpuriousMain \/ UNCHANGED vars
    BY <1>3, <2>2 DEF SetExiting, Join, SpuriousMain, vars
  <2>3. ASSUME NEW c \in Conn, Accept(c) PROVE NoLostWakeup'
    BY <1>3, <2>3 DEF Accept
  <2>4. QED
    BY <1>4, <1>5, <1>6, <1>7, <1>8, <1>9, <2>1, <2>2, <2>3
       DEF Next, WorkerStep, Gone
-----------------------------------------------------------------------------
LEMMA EmptyRing == Init => Queued = <<>> /\ Count = 0
<1>1. SUFFICES ASSUME Init PROVE Queued = <<>> /\ Count = 0
  OBVIOUS
<1>2. TypeOK /\ in = out
  BY <1>1, TypeInit DEF Init
<1>3. QED
  BY <1>2, QueueType, EmptySeq

LEMMA InitIInv == Init => IInv
<1>1. SUFFICES ASSUME Init PROVE IInv
  OBVIOUS
<1>2. TypeOK
  BY <1>1, TypeInit
<1>3. Phases
  BY <1>1 DEF Init, Phases
<1>4. Queued = <<>> /\ Count = 0 /\ Range(Queued) = {} /\ IsInjective(Queued)
  BY <1>1, EmptyRing DEF Range, IsInjective
<1>5. OneOwner
  BY <1>1, <1>4 DEF Init, OneOwner
<1>6. NoLostWakeup
  BY <1>1, <1>4, AwakeFinite DEF Init, NoLostWakeup
<1>7. QED
  BY <1>2, <1>3, <1>5, <1>6 DEF IInv

LEMMA NextIInv == IInv /\ [Next]_vars => IInv'
BY TypeStep, PhasesStep, OwnerStep, WakeStep DEF IInv

(* The inductive invariant holds in every reachable state.                 *)
THEOREM Invariance == Spec => []IInv
BY InitIInv, NextIInv, PTL DEF Spec

(* Every variable keeps its type: in and out stay inside the ring.         *)
THEOREM TypeCorrect == Spec => []TypeOK
<1>1. IInv => TypeOK
  BY DEF IInv
<1>2. QED
  BY <1>1, Invariance, PTL

(* server_request and stub never hand one connection to two workers.       *)
THEOREM OneOwnerHolds == Spec => []OneOwner
<1>1. IInv => OneOwner
  BY DEF IInv
<1>2. QED
  BY <1>1, Invariance, PTL

(* The condition variables of the request buffer lose no wake-up.          *)
THEOREM NoLostWakeupHolds == Spec => []NoLostWakeup
<1>1. IInv => NoLostWakeup
  BY DEF IInv
<1>2. QED
  BY <1>1, Invariance, PTL
-----------------------------------------------------------------------------
(* The ring implements BoundedFifo.                                        *)
LEMMA FifoInit == Init => Fifo!Init
<1>1. SUFFICES ASSUME Init PROVE Fifo!Init
  OBVIOUS
<1>2. Queued = <<>>
  BY <1>1, EmptyRing
<1>3. QED
  BY <1>1, <1>2 DEF Init, Fifo!Init

LEMMA FifoStep == IInv /\ [Next]_vars => [Fifo!Next]_(Fifo!vars)
<1>1. SUFFICES ASSUME TypeOK, Phases, OneOwner, [Next]_vars
               PROVE  [Fifo!Next]_(Fifo!vars)
  BY DEF IInv
<1> USE <1>1
<1>2. CASE UNCHANGED <<buffer, in, out, job>> /\ (mpc = "gone" <=> mpc' = "gone")
  BY <1>2, RingIdle DEF Fifo!vars
<1>3. CASE ServerRequest /\ ~IsFull
  <2>1. /\ Queued' = Append(Queued, connfd) /\ job' = job
        /\ mpc # "gone" /\ mpc' # "gone" /\ connfd # NULL
    BY <1>3, RingPut DEF ServerRequest, Phases
  <2>2. connfd \in Conn /\ connfd \notin Range(Queued) \cup Range(job)
    BY <2>1 DEF TypeOK, OneOwner
  <2>3. Len(Queued) < MaxRequests
    BY <1>3, QueueType, RequestBufferAssumption DEF IsFull, Slot, BuffSize
  <2>4. Fifo!Put(connfd)
    <3> DEFINE q == IF mpc = "gone" THEN <<>> ELSE Queued
    <3>1. q = Queued /\ q' = Append(q, connfd)
      BY <2>1
    <3>2. Len(q) < MaxRequests /\ connfd \notin Fifo!Range(q) \cup Fifo!Range(job)
      BY <2>2, <2>3, <3>1 DEF Range, Fifo!Range
    <3> HIDE DEF q
    <3>3. QED
      BY <2>1, <3>1, <3>2 DEF Fifo!Put, q
  <2>5. QED
    BY <2>2, <2>4 DEF Fifo!Next
<1>4. ASSUME NEW w \in Worker, Top(w) \/ Woken(w), in # out
      PROVE  [Fifo!Next]_(Fifo!vars)
  <2>1. /\ Queued # <<>> /\ buffer[out] = Head(Queued)
        /\ Queued' = Tail(Queued)
        /\ job' = [job EXCEPT ![w] = Head(Queued)]
        /\ wpc[w] \in {"top", "woken"}
    BY <1>4, RingTake DEF Top, Woken, TestBuffer, TakeRequest
  <2>2. mpc # "gone" /\ mpc' # "gone" /\ job[w] = NULL
    BY <1>4, <2>1
       DEF Top, Woken, TestBuffer, TakeRequest, SignalFull, Phases
  <2>3. Fifo!Take(w)
    BY <2>1, <2>2 DEF Fifo!Take
  <2>4. QED
    BY <2>3 DEF Fifo!Next
<1>5. ASSUME NEW w \in Worker, Serve(w) PROVE [Fifo!Next]_(Fifo!vars)
  <2>1. Queued' = Queued /\ mpc' = mpc /\ job' = [job EXCEPT ![w] = NULL]
    BY <1>5, RingIdle DEF Serve
  <2>2. job[w] # NULL
    BY <1>5 DEF Serve, Phases
  <2>3. Fifo!Finish(w)
    BY <2>1, <2>2 DEF Fifo!Finish
  <2>4. QED
    BY <2>3 DEF Fifo!Next
<1>6. CASE Join
  <2>1. mpc' = "gone" /\ job' = job /\ \A w \in Worker : wpc[w] = "done"
    BY <1>6 DEF Join
  <2>2. job = [w \in Worker |-> NULL]
    BY <2>1 DEF Phases, TypeOK
  <2>3. Fifo!Close
    BY <2>1, <2>2 DEF Fifo!Close
  <2>4. QED
    BY <2>3 DEF Fifo!Next
<1>7. QED
  <2>1. CASE (ServerRequest /\ IsFull) \/ SetExiting \/ Broadcast \/ SpuriousMain
             \/ UNCHANGED vars
    BY <1>2, <2>1 DEF ServerRequest, SetExiting, Broadcast, SpuriousMain, vars
  <2>2. ASSUME NEW c \in Conn, Accept(c) PROVE [Fifo!Next]_(Fifo!vars)
    BY <1>2, <2>2 DEF Accept
  <2>3. ASSUME NEW w \in Worker,
               \/ WokenExit(w) \/ BeginWait(w) \/ SpuriousWorker(w)
               \/ (Top(w) \/ Woken(w)) /\ in = out
        PROVE  [Fifo!Next]_(Fifo!vars)
    BY <1>2, <2>3
       DEF WokenExit, BeginWait, SpuriousWorker, Top, Woken, TestBuffer
  <2>4. QED
    BY <1>3, <1>4, <1>5, <1>6, <2>1, <2>2, <2>3 DEF Next, WorkerStep, Gone

(* server_request and stub together are a FIFO queue of max_requests.      *)
THEOREM FifoRefined == Spec => ImplementsFifo
BY FifoInit, FifoStep, Invariance, PTL DEF Spec, ImplementsFifo, Fifo!Spec
=============================================================================
