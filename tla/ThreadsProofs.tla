--------------------------- MODULE ThreadsProofs ---------------------------
(***************************************************************************)
(* Proofs about the thread package of Threads, for any number of threads,  *)
(* identifiers and queues.                                                 *)
(*                                                                         *)
(* The lists are seen as sets (the list lemmas say what each operation     *)
(* does to the set, and that nothing comes to be on a list twice), and the *)
(* invariant is proved of the sets.  Two facts about sets carry the proof: *)
(* Rearranged, for what moves threads between lists, and Freed, for what   *)
(* frees threads and destroys queues.  A call that does both is one after  *)
(* the other.                                                              *)
(*                                                                         *)
(* The orders (NoOvertaking, FifoWakeup) are proved from what a step may   *)
(* do to one list.  What holds of careful programs only (the lives of the  *)
(* threads, the identifiers, no undefined step) is proved from the same    *)
(* invariant and from what each call does to the places of the threads.    *)
(***************************************************************************)
EXTENDS Threads, ListLemmas

Sets(w) == [q \in Queue |-> Range(w[q])]

Everyone(run, R, E, W) == run \cup R \cup E \cup UNION {W[q] : q \in Queue}

(* Nobody is in two places.                                                *)
Apart(run, R, E, W) ==
  /\ run \cap R = {} /\ run \cap E = {} /\ R \cap E = {}
  /\ \A q \in Queue : W[q] \cap (run \cup R \cup E) = {}
  /\ \A q, r \in Queue : q # r => W[q] \cap W[r] = {}

(* The threads of K are allocated and have identifiers of their own.       *)
Named(K, h, ta, qs, i) ==
  /\ K \subseteq h
  /\ \A t \in K : ta[i[t]] = 1 /\ qs[i[t]] = "live"
  /\ \A t, u \in K : i[t] = i[u] => t = u

Queued(W, ta, qs) ==
  /\ \A q \in Queue : W[q] # {} => qs[q] = "live"
  /\ \A i \in Tid : qs[i] = "live" => ta[i] = 1

Shape(h, run, R, E, W, ta, qs, i) ==
  /\ Apart(run, R, E, W)
  /\ Named(Everyone(run, R, E, W), h, ta, qs, i)
  /\ Queued(W, ta, qs)

Marked(run, R, E, W, st) ==
  /\ \A t \in run : st[t] \in {"run", "ready"}
  /\ \A t \in R : st[t] = "ready"
  /\ \A q \in Queue : \A t \in W[q] : st[t] = "sleep"
  /\ \A t \in E : st[t] = "exit"

Injective ==
  /\ IsInjective(readyList)
  /\ IsInjective(exitList)
  /\ \A q \in Queue : IsInjective(wait[q])

(* The inductive invariant.                                                *)
IInv ==
  /\ TypeOK
  /\ Injective
  /\ Shape(heap, Running, Range(readyList), Range(exitList), Sets(wait),
           threadArray, queue, id)
  /\ Marked(Running, Range(readyList), Range(exitList), Sets(wait), status)
-----------------------------------------------------------------------------
(* Moving threads between the lists, or dropping them from the lists,      *)
(* keeps the shape as long as nobody is put in two places and only a live  *)
(* queue gets threads.                                                     *)
LEMMA Rearranged ==
  ASSUME NEW h, NEW run, NEW R, NEW E, NEW W, NEW ta, NEW qs, NEW i,
         Shape(h, run, R, E, W, ta, qs, i),
         NEW run2, NEW R2, NEW E2, NEW W2,
         Apart(run2, R2, E2, W2),
         Everyone(run2, R2, E2, W2) \subseteq Everyone(run, R, E, W),
         \A q \in Queue : W2[q] # {} => qs[q] = "live"
  PROVE  Shape(h, run2, R2, E2, W2, ta, qs, i)
BY DEF Shape, Named, Queued

(* The threads D of the ready and exit lists are freed, the queues Q are   *)
(* destroyed and the threads on them are freed, and the identifiers in Q   *)
(* are given back: h2, W2, ta2 and qs2 are what is left.                   *)
Frees(run, R, E, W, h, ta, qs, i, D, Q, h2, W2, ta2, qs2) ==
  /\ D \subseteq R \cup E
  /\ Q \subseteq Queue
  /\ \A t \in h : t \in h2 \/ t \in D \/ \E q \in Q : t \in W[q]
  /\ \A q \in Queue : W2[q] = IF q \in Q THEN {} ELSE W[q]
  /\ \A j \in Tid : ta2[j] = IF j \in Q THEN 0 ELSE ta[j]
  /\ \A q \in Queue : qs2[q] = IF q \in Q THEN "freed" ELSE qs[q]

(* That keeps the shape as long as no thread that stays known has its      *)
(* identifier in Q.                                                        *)
LEMMA Freed ==
  ASSUME NEW h, NEW run, NEW R, NEW E, NEW W, NEW ta, NEW qs, NEW i,
         NEW D, NEW Q, NEW h2, NEW W2, NEW ta2, NEW qs2,
         Frees(run, R, E, W, h, ta, qs, i, D, Q, h2, W2, ta2, qs2),
         Shape(h, run, R, E, W, ta, qs, i),
         \A t \in Everyone(run, R, E, W) : i[t] \in Tid,
         \A t \in Everyone(run, R, E, W) \ D : i[t] \notin Q
  PROVE  Shape(h2, run, R \ D, E \ D, W2, ta2, qs2, i)
<1> USE DEF Frees
<1> DEFINE K == Everyone(run, R, E, W)
           K2 == Everyone(run, R \ D, E \ D, W2)
<1>1. Tid \subseteq Queue
  BY DEF Queue
<1>2. K2 \subseteq K /\ \A t \in K2 : t \notin D /\ \A q \in Q : t \notin W[q]
  <2>1. \A q \in Queue : W2[q] \subseteq W[q]
    BY <1>1
  <2>2. K2 \subseteq K
    BY <2>1 DEF Everyone
  <2>3. \A t \in K2 : t \notin D
    BY <1>1 DEF Shape, Apart, Everyone
  <2>4. \A t \in K2 : \A q \in Q : t \notin W[q]
    BY <1>1 DEF Shape, Apart, Everyone
  <2>5. QED
    BY <2>2, <2>3, <2>4
<1>3. Apart(run, R \ D, E \ D, W2)
  BY <1>1 DEF Shape, Apart
<1>4. Named(K2, h2, ta2, qs2, i)
  <2>1. \A t \in K2 : i[t] \in Tid /\ i[t] \notin Q
    BY <1>2
  <2>2. QED
    BY <1>1, <1>2, <2>1 DEF Shape, Named
<1>5. Queued(W2, ta2, qs2)
  BY <1>1 DEF Shape, Queued
<1>6. QED
  BY <1>3, <1>4, <1>5 DEF Shape
-----------------------------------------------------------------------------
LEMMA SetsType ==
  ASSUME NEW w \in [Queue -> Seq(TCB)]
  PROVE  /\ \A q \in Queue : Sets(w)[q] = Range(w[q])
         /\ Sets(w) \in [Queue -> SUBSET TCB]
<1>1. \A q \in Queue : Range(w[q]) \subseteq TCB
  BY RangeType
<1>2. QED
  BY <1>1 DEF Sets

LEMMA EmptiedSets ==
  ASSUME NEW w \in [Queue -> Seq(TCB)], NEW Q \in SUBSET Queue
  PROVE  /\ \A t : t \in Waiters(w, Q) <=> \E q \in Q : t \in Sets(w)[q]
         /\ Emptied(w, Q) \in [Queue -> Seq(TCB)]
         /\ \A q \in Queue :
              Sets(Emptied(w, Q))[q] = IF q \in Q THEN {} ELSE Sets(w)[q]
         /\ (\A q \in Queue : IsInjective(w[q]))
              => \A q \in Queue : IsInjective(Emptied(w, Q)[q])
<1>1. Range(<<>>) = {} /\ IsInjective(<<>>) /\ <<>> \in Seq(TCB)
  BY DEF Range, IsInjective
<1>2. \A q \in Queue : Emptied(w, Q)[q] = IF q \in Q THEN <<>> ELSE w[q]
  BY DEF Emptied
<1>3. Emptied(w, Q) \in [Queue -> Seq(TCB)]
  BY <1>1 DEF Emptied
<1>4. \A q \in Queue : Sets(Emptied(w, Q))[q] = IF q \in Q THEN {} ELSE Sets(w)[q]
  BY <1>1, <1>2, <1>3, SetsType
<1>5. \A t : t \in Waiters(w, Q) <=> \E q \in Q : t \in Sets(w)[q]
  BY SetsType DEF Waiters
<1>6. QED
  BY <1>1, <1>2, <1>3, <1>4, <1>5

(* Reaping a list of exited threads.                                       *)
LEMMA Reaped ==
  ASSUME NEW el \in Seq(TCB), NEW w \in [Queue -> Seq(TCB)],
         NEW run \in SUBSET TCB, NEW R \in SUBSET TCB,
         TypeOK,
         Shape(heap, run, R, Range(el), Sets(w), threadArray, queue, id)
  PROVE  /\ Shape(ReapedHeap(el, w), run, R, {}, Sets(Emptied(w, IdsOf(el))),
                  Released(IdsOf(el)), Destroyed(IdsOf(el)), id)
         /\ ReapedHeap(el, w) \in SUBSET TCB
         /\ Released(IdsOf(el)) \in [Tid -> {0, 1}]
         /\ Destroyed(IdsOf(el)) \in [Queue -> {"null", "live", "freed"}]
         /\ IdsOf(el) \in SUBSET Queue
<1>1. Range(el) \in SUBSET TCB
  BY RangeType
<1>2. IdsOf(el) \in SUBSET Tid
  BY <1>1 DEF IdsOf, TypeOK
<1>3. IdsOf(el) \in SUBSET Queue
  BY <1>2 DEF Queue
<1>4. \A t \in Everyone(run, R, Range(el), Sets(w)) : id[t] \in Tid
  <2>1. Everyone(run, R, Range(el), Sets(w)) \subseteq TCB
    BY <1>1, SetsType DEF Everyone
  <2>2. QED
    BY <2>1 DEF TypeOK
<1>5. \A t \in Everyone(run, R, Range(el), Sets(w)) \ Range(el) : id[t] \notin IdsOf(el)
  <2>1. \A t, u \in Everyone(run, R, Range(el), Sets(w)) : id[t] = id[u] => t = u
    BY DEF Shape, Named
  <2>2. Range(el) \subseteq Everyone(run, R, Range(el), Sets(w))
    BY DEF Everyone
  <2>3. QED
    BY <2>1, <2>2 DEF IdsOf
<1>6. Frees(run, R, Range(el), Sets(w), heap, threadArray, queue, id,
            Range(el), IdsOf(el), ReapedHeap(el, w), Sets(Emptied(w, IdsOf(el))),
            Released(IdsOf(el)), Destroyed(IdsOf(el)))
  BY SMTT(60), <1>3, EmptiedSets DEF Frees, ReapedHeap, Released, Destroyed
<1>7. Shape(ReapedHeap(el, w), run, R, {}, Sets(Emptied(w, IdsOf(el))),
            Released(IdsOf(el)), Destroyed(IdsOf(el)), id)
  <2>1. R \ Range(el) = R /\ Range(el) \ Range(el) = {}
    BY DEF Shape, Apart
  <2>2. Shape(ReapedHeap(el, w), run, R \ Range(el), Range(el) \ Range(el),
              Sets(Emptied(w, IdsOf(el))), Released(IdsOf(el)),
              Destroyed(IdsOf(el)), id)
    BY <1>4, <1>5, <1>6, Freed
  <2>3. QED
    BY <2>1, <2>2
<1>10. QED
  BY <1>2, <1>3, <1>7 DEF TypeOK, ReapedHeap, Released, Destroyed

(* The loop over exitList that begins or ends most calls, while current    *)
(* runs.                                                                   *)
LEMMA ReapedExitList ==
  ASSUME IInv, halt = "none"
  PROVE  /\ Shape(ReapedHeap(exitList, wait), {current}, Range(readyList), {},
                  Sets(Emptied(wait, IdsOf(exitList))),
                  Released(IdsOf(exitList)), Destroyed(IdsOf(exitList)), id)
         /\ Marked({current}, Range(readyList), {},
                   Sets(Emptied(wait, IdsOf(exitList))), status)
         /\ ReapedHeap(exitList, wait) \in SUBSET TCB
         /\ Released(IdsOf(exitList)) \in [Tid -> {0, 1}]
         /\ Destroyed(IdsOf(exitList)) \in [Queue -> {"null", "live", "freed"}]
         /\ Emptied(wait, IdsOf(exitList)) \in [Queue -> Seq(TCB)]
         /\ \A q \in Queue : IsInjective(Emptied(wait, IdsOf(exitList))[q])
<1>1. /\ TypeOK
      /\ Injective
      /\ Shape(heap, {current}, Range(readyList), Range(exitList), Sets(wait),
               threadArray, queue, id)
      /\ Marked({current}, Range(readyList), Range(exitList), Sets(wait), status)
  BY DEF IInv, Running
<1>2. /\ {current} \in SUBSET TCB
      /\ Range(readyList) \in SUBSET TCB
      /\ exitList \in Seq(TCB)
      /\ wait \in [Queue -> Seq(TCB)]
  BY <1>1, RangeType DEF TypeOK
<1>3. /\ Shape(ReapedHeap(exitList, wait), {current}, Range(readyList), {},
               Sets(Emptied(wait, IdsOf(exitList))),
               Released(IdsOf(exitList)), Destroyed(IdsOf(exitList)), id)
      /\ ReapedHeap(exitList, wait) \in SUBSET TCB
      /\ Released(IdsOf(exitList)) \in [Tid -> {0, 1}]
      /\ Destroyed(IdsOf(exitList)) \in [Queue -> {"null", "live", "freed"}]
      /\ IdsOf(exitList) \in SUBSET Queue
  BY <1>1, <1>2, Reaped
<1>4. /\ Emptied(wait, IdsOf(exitList)) \in [Queue -> Seq(TCB)]
      /\ \A q \in Queue : Sets(Emptied(wait, IdsOf(exitList)))[q]
           = IF q \in IdsOf(exitList) THEN {} ELSE Sets(wait)[q]
      /\ \A q \in Queue : IsInjective(Emptied(wait, IdsOf(exitList))[q])
  BY <1>1, <1>2, <1>3, EmptiedSets DEF Injective
<1>5. Marked({current}, Range(readyList), {},
             Sets(Emptied(wait, IdsOf(exitList))), status)
  BY <1>1, <1>4 DEF Marked
<1>6. QED
  BY <1>3, <1>4, <1>5

(* changeCurrentToTarget.                                                  *)
LEMMA ChangeCurrentToStep ==
  ASSUME IInv, halt = "none", NEW w \in Tid, NEW saved \in {"on", "off"},
         ChangeCurrentTo(w, saved)
  PROVE  IInv'
<1> USE DEF TypeOK
<1>1. PICK i \in DOMAIN readyList :
        /\ readyList' = Requeued(Unlinked(i))
        /\ status' = [status EXCEPT ![current] = "ready",
                                    ![readyList[i]] = "run"]
        /\ ctx' = [ctx EXCEPT ![current] = saved]
        /\ Reap(exitList, wait)
        /\ Resume(readyList[i])
        /\ UNCHANGED <<id, pending, halt>>
  BY DEF ChangeCurrentTo
<1> DEFINE u == readyList[i]
           R == Range(readyList)
<1>2. /\ TypeOK
      /\ Injective
      /\ Running' = {u}
  BY <1>1 DEF IInv, Running, Resume
<1>3. /\ u \in R /\ u \in TCB /\ u # current
      /\ R \in SUBSET TCB
      /\ readyList' \in Seq(TCB)
      /\ Range(readyList') = (R \ {u}) \cup {current}
      /\ IsInjective(readyList')
  <2>1. /\ u \in TCB /\ u \in R
        /\ Unlinked(i) \in Seq(TCB)
        /\ Range(Unlinked(i)) = R \ {u}
        /\ IsInjective(Unlinked(i))
    BY <1>2, UnlinkList DEF Unlinked, Injective
  <2>2. current \notin R
    BY ReapedExitList DEF Shape, Apart
  <2>3. QED
    BY <1>1, <1>2, <2>1, <2>2, AppendList, RangeType DEF Requeued
<1>4. /\ Shape(heap', {current}, R, {}, Sets(wait'), threadArray', queue', id')
      /\ Marked({current}, R, {}, Sets(wait'), status)
      /\ heap' \in SUBSET TCB
      /\ threadArray' \in [Tid -> {0, 1}]
      /\ queue' \in [Queue -> {"null", "live", "freed"}]
      /\ wait' \in [Queue -> Seq(TCB)]
      /\ \A q \in Queue : IsInjective(wait'[q])
      /\ exitList' = <<>>
  <2> HIDE DEF TypeOK
  <2>1. QED
    BY <1>1, ReapedExitList DEF Reap
<1>5. Range(exitList') = {} /\ IsInjective(exitList') /\ exitList' \in Seq(TCB)
  BY <1>4 DEF Range, IsInjective
<1>6. Shape(heap', Running', Range(readyList'), Range(exitList'), Sets(wait'),
            threadArray', queue', id')
  <2>1. Apart({u}, Range(readyList'), {}, Sets(wait'))
    BY <1>3, <1>4 DEF Shape, Apart
  <2>2. Everyone({u}, Range(readyList'), {}, Sets(wait'))
          \subseteq Everyone({current}, R, {}, Sets(wait'))
    BY <1>3 DEF Everyone
  <2>3. \A q \in Queue : Sets(wait')[q] # {} => queue'[q] = "live"
    BY <1>4 DEF Shape, Queued
  <2>4. QED
    BY ZenonT(60), <1>2, <1>4, <1>5, <2>1, <2>2, <2>3, Rearranged
<1>7. Marked(Running', Range(readyList'), Range(exitList'), Sets(wait'), status')
  <2>1. status'[u] = "run" /\ status'[current] = "ready"
    BY <1>1, <1>2, <1>3
  <2>2. \A t \in TCB \ {u, current} : status'[t] = status[t]
    BY <1>1, <1>2, <1>3
  <2>3. \A q \in Queue : Sets(wait')[q] \subseteq TCB \ {u, current}
    <3>1. \A q \in Queue : Sets(wait')[q] \cap ({current} \cup R) = {}
      BY <1>4 DEF Shape, Apart
    <3>2. \A q \in Queue : Sets(wait')[q] \subseteq TCB
      BY <1>4, SetsType
    <3>3. QED
      BY <1>3, <3>1, <3>2
  <2>4. QED
    BY <1>2, <1>3, <1>4, <1>5, <2>1, <2>2, <2>3 DEF Marked
<1>8. TypeOK'
  BY <1>1, <1>2, <1>3, <1>4, <1>5 DEF Resume
<1>9. Injective'
  BY <1>3, <1>4, <1>5 DEF Injective
<1>10. QED
  BY <1>6, <1>7, <1>8, <1>9 DEF IInv, Sets
-----------------------------------------------------------------------------
(* thread_create.                                                          *)

(* A chunk n outside the heap becomes a ready thread with the free         *)
(* identifier j and an empty queue.                                        *)
Allocates(run, R, E, W, h, ta, qs, i, n, j, R2, W2, h2, ta2, qs2, i2) ==
  /\ n \notin h /\ j \in Tid /\ ta[j] = 0
  /\ R2 = R \cup {n}
  /\ h2 = h \cup {n}
  /\ i2[n] = j /\ \A t \in h : i2[t] = i[t] /\ i[t] \in Tid
  /\ ta2[j] = 1 /\ \A k \in Tid \ {j} : ta2[k] = ta[k]
  /\ qs2[j] = "live" /\ \A q \in Queue \ {j} : qs2[q] = qs[q]
  /\ W2[j] = {} /\ \A q \in Queue \ {j} : W2[q] = W[q]

LEMMA Allocated ==
  ASSUME NEW h, NEW run, NEW R, NEW E, NEW W, NEW ta, NEW qs, NEW i,
         NEW n, NEW j, NEW R2, NEW h2, NEW ta2, NEW qs2, NEW i2, NEW W2,
         Shape(h, run, R, E, W, ta, qs, i),
         Allocates(run, R, E, W, h, ta, qs, i, n, j, R2, W2, h2, ta2, qs2, i2)
  PROVE  Shape(h2, run, R2, E, W2, ta2, qs2, i2)
<1> DEFINE K == Everyone(run, R, E, W)
<1> USE DEF Allocates
<1>1. Tid \subseteq Queue
  BY DEF Queue
<1>2. /\ K \subseteq h
      /\ \A t \in K : ta[i[t]] = 1 /\ qs[i[t]] = "live" /\ i[t] # j
      /\ \A t, u \in K : i[t] = i[u] => t = u
  BY DEF Shape, Named
<1>3. n \notin K
  BY <1>2
<1>4. \A q \in Queue : W2[q] = W[q]
  <2>1. W[j] = {}
    BY <1>1 DEF Shape, Queued
  <2>2. QED
    BY <1>1, <2>1
<1>5. Everyone(run, R2, E, W2) = K \cup {n}
  BY <1>4 DEF Everyone
<1>6. Apart(run, R2, E, W2)
  BY <1>3, <1>4 DEF Shape, Apart, Everyone
<1>7. Named(K \cup {n}, h2, ta2, qs2, i2)
  <2>1. \A t \in K : i2[t] = i[t] /\ i[t] \in Tid \ {j}
    BY <1>2
  <2>2. QED
    BY <1>1, <1>2, <2>1 DEF Named
<1>8. Queued(W2, ta2, qs2)
  BY <1>1, <1>4 DEF Shape, Queued
<1>9. QED
  BY <1>5, <1>6, <1>7, <1>8 DEF Shape

LEMMA CreateStep ==
  ASSUME IInv, Create
  PROVE  IInv'
<1> DEFINE h == ReapedHeap(exitList, wait)
           ta == Released(IdsOf(exitList))
           qs == Destroyed(IdsOf(exitList))
           w == Emptied(wait, IdsOf(exitList))
           R == Range(readyList)
<1>1. /\ TypeOK /\ Injective
      /\ halt = "none" /\ halt' = halt /\ current' = current
      /\ interrupts' = interrupts /\ exitList' = <<>>
  BY DEF IInv, Create, AtUser
<1>2. PICK n \in TCB \ h, i \in Tid :
        /\ IsLeastFree(i, ta)
        /\ heap' = h \cup {n}
        /\ threadArray' = [ta EXCEPT ![i] = 1]
        /\ queue' = [qs EXCEPT ![i] = "live"]
        /\ wait' = [w EXCEPT ![i] = <<>>]
        /\ readyList' = Append(readyList, n)
        /\ id' = [id EXCEPT ![n] = i]
        /\ status' = [status EXCEPT ![n] = "ready"]
        /\ ctx' = [ctx EXCEPT ![n] = "stub"]
        /\ pending' = [pending EXCEPT ![n] = Idle,
                         ![current] = [op |-> "create", arg |-> n]]
  BY DEF Create
<1>3. /\ Shape(h, {current}, R, {}, Sets(w), ta, qs, id)
      /\ Marked({current}, R, {}, Sets(w), status)
      /\ h \in SUBSET TCB
      /\ ta \in [Tid -> {0, 1}]
      /\ qs \in [Queue -> {"null", "live", "freed"}]
      /\ w \in [Queue -> Seq(TCB)]
      /\ \A q \in Queue : IsInjective(w[q])
  BY <1>1, ReapedExitList
<1> HIDE DEF h, ta, qs, w
<1>4. i \in Queue /\ Range(<<>>) = {} /\ IsInjective(<<>>) /\ <<>> \in Seq(TCB)
  BY DEF Queue, Range, IsInjective
<1>5. /\ readyList' \in Seq(TCB)
      /\ Range(readyList') = R \cup {n}
      /\ IsInjective(readyList')
  <2>1. n \notin R
    BY <1>3 DEF Shape, Named, Everyone
  <2>2. QED
    BY <1>1, <1>2, <2>1, AppendList DEF TypeOK, Injective
<1>6. /\ wait' \in [Queue -> Seq(TCB)]
      /\ \A q \in Queue : IsInjective(wait'[q])
      /\ Sets(wait')[i] = {}
      /\ \A q \in Queue \ {i} : Sets(wait')[q] = Sets(w)[q]
  <2>1. wait' \in [Queue -> Seq(TCB)]
    BY <1>2, <1>3, <1>4
  <2>2. QED
    BY <1>2, <1>3, <1>4, <2>1, SetsType
<1>7. Shape(heap', {current}, R \cup {n}, {}, Sets(wait'), threadArray', queue', id')
  <2>1. Allocates({current}, R, {}, Sets(w), h, ta, qs, id, n, i, R \cup {n},
                  Sets(wait'), heap', threadArray', queue', id')
    <3>1. id'[n] = i /\ \A t \in h : id'[t] = id[t] /\ id[t] \in Tid
      BY <1>1, <1>2, <1>3 DEF TypeOK
    <3>2. threadArray'[i] = 1 /\ \A k \in Tid \ {i} : threadArray'[k] = ta[k]
      BY <1>2, <1>3
    <3>3. queue'[i] = "live" /\ \A q \in Queue \ {i} : queue'[q] = qs[q]
      BY <1>2, <1>3, <1>4
    <3>4. n \notin h /\ i \in Tid /\ ta[i] = 0 /\ heap' = h \cup {n}
      BY <1>2 DEF IsLeastFree
    <3>5. QED
      BY <1>6, <3>1, <3>2, <3>3, <3>4 DEF Allocates
  <2>2. QED
    BY <1>3, <2>1, Allocated
<1>8. Marked({current}, R \cup {n}, {}, Sets(wait'), status')
  <2>1. Everyone({current}, R, {}, Sets(w)) \subseteq TCB \ {n}
    BY <1>2, <1>3 DEF Shape, Named
  <2>2. status'[n] = "ready" /\ \A t \in TCB \ {n} : status'[t] = status[t]
    BY <1>1, <1>2 DEF TypeOK
  <2>3. /\ current \in TCB \ {n} /\ R \subseteq TCB \ {n}
        /\ \A q \in Queue : Sets(w)[q] \subseteq TCB \ {n}
    BY <2>1 DEF Everyone
  <2>4. \A q \in Queue : Sets(wait')[q] \subseteq Sets(w)[q]
    BY <1>6
  <2>5. QED
    BY <1>3, <2>2, <2>3, <2>4 DEF Marked
<1>9. Running' = {current} /\ Range(exitList') = {}
  BY <1>1, <1>4 DEF Running
<1>10. TypeOK'
  BY <1>1, <1>2, <1>3, <1>4, <1>5, <1>6 DEF TypeOK
<1>11. Injective'
  BY <1>1, <1>4, <1>5, <1>6 DEF Injective
<1>12. QED
  BY <1>5, <1>7, <1>8, <1>9, <1>10, <1>11 DEF IInv, Sets

(* The two failures of thread_create that come after the reaping.          *)
LEMMA CreateFailsStep ==
  ASSUME IInv, CreateNoMore \/ CreateNoStack
  PROVE  IInv'
<1> DEFINE h == ReapedHeap(exitList, wait)
           ta == Released(IdsOf(exitList))
           R == Range(readyList)
<1>1. /\ TypeOK /\ Injective
      /\ halt = "none" /\ halt' = halt /\ current' = current
      /\ interrupts' = interrupts /\ exitList' = <<>> /\ readyList' = readyList
      /\ queue' = Destroyed(IdsOf(exitList))
      /\ wait' = Emptied(wait, IdsOf(exitList))
  BY DEF IInv, CreateNoMore, CreateNoStack, AtUser
<1>2. PICK n \in TCB \ h :
        /\ heap' = h \cup {n}
        /\ threadArray' = ta \/ \E i \in Tid : threadArray' = [ta EXCEPT ![i] = 1]
        /\ id' = [id EXCEPT ![n] = 0]
        /\ status' = [status EXCEPT ![n] = "ready"]
        /\ ctx' = [ctx EXCEPT ![n] = "stub"]
        /\ pending' = [pending EXCEPT ![n] = Idle]
  <2>1. CASE CreateNoMore
    BY <2>1 DEF CreateNoMore
  <2>2. CASE CreateNoStack
    BY <2>2 DEF CreateNoStack
  <2>3. QED
    BY <2>1, <2>2
<1>3. /\ Shape(h, {current}, R, {}, Sets(wait'), ta, queue', id)
      /\ Marked({current}, R, {}, Sets(wait'), status)
      /\ h \in SUBSET TCB
      /\ ta \in [Tid -> {0, 1}]
      /\ queue' \in [Queue -> {"null", "live", "freed"}]
      /\ wait' \in [Queue -> Seq(TCB)]
      /\ \A q \in Queue : IsInjective(wait'[q])
  BY <1>1, ReapedExitList
<1> HIDE DEF h, ta
<1>4. 0 \in Tid /\ Range(<<>>) = {} /\ IsInjective(<<>>) /\ <<>> \in Seq(TCB)
  BY ThreadsAssumption DEF Tid, Range, IsInjective
<1>5. Shape(heap', {current}, R, {}, Sets(wait'), threadArray', queue', id')
  <2>1. \A t \in h : id'[t] = id[t] /\ id[t] \in Tid
    BY <1>1, <1>2, <1>3 DEF TypeOK
  <2>2. \A k \in Tid : ta[k] = 1 => threadArray'[k] = 1
    BY <1>2, <1>3
  <2>3. h \subseteq heap'
    BY <1>2
  <2>4. Named(Everyone({current}, R, {}, Sets(wait')), heap', threadArray', queue', id')
    BY <1>3, <2>1, <2>2, <2>3 DEF Shape, Named
  <2>5. Queued(Sets(wait'), threadArray', queue')
    BY <1>3, <2>2 DEF Shape, Queued
  <2>6. QED
    BY <1>3, <2>4, <2>5 DEF Shape
<1>6. Marked({current}, R, {}, Sets(wait'), status')
  <2>1. Everyone({current}, R, {}, Sets(wait')) \subseteq TCB \ {n}
    BY <1>2, <1>3 DEF Shape, Named
  <2>2. \A t \in TCB \ {n} : status'[t] = status[t]
    BY <1>1, <1>2 DEF TypeOK
  <2>3. QED
    BY <1>3, <2>1, <2>2 DEF Marked, Everyone
<1>7. Running' = {current} /\ Range(exitList') = {}
  BY <1>1, <1>4 DEF Running
<1>8. TypeOK'
  BY <1>1, <1>2, <1>3, <1>4 DEF TypeOK
<1>9. Injective'
  BY <1>1, <1>3, <1>4 DEF Injective
<1>10. QED
  BY <1>1, <1>5, <1>6, <1>7, <1>8, <1>9 DEF IInv, Sets
-----------------------------------------------------------------------------
(* A step that leaves the lists and what describes them alone.             *)
LEMMA SameListsStep ==
  ASSUME IInv, TypeOK',
         UNCHANGED <<heap, current, readyList, exitList, threadArray, queue,
                     wait, id, status>>,
         halt' = "exit" <=> halt = "exit"
  PROVE  IInv'
<1>1. Running' = Running
  BY DEF Running
<1>2. QED
  BY <1>1 DEF IInv, Injective, Sets

LEMMA HaltStep ==
  ASSUME IInv, halt = "none", NEW how \in Undefined, Halt(how)
  PROVE  IInv'
<1>1. how # "exit"
  BY DEF Undefined
<1>2. TypeOK'
  BY DEF IInv, TypeOK, Halt
<1>3. QED
  BY <1>1, <1>2, SameListsStep DEF Halt

(* The head of the ready list takes over from the caller, which is put on  *)
(* the exit list.                                                          *)
LEMMA ExitMove ==
  ASSUME IInv, ExitBegin
  PROVE  /\ TypeOK /\ Injective
         /\ Running' = {Head(readyList)}
         /\ readyList' \in Seq(TCB) /\ IsInjective(readyList')
         /\ {Head(readyList)} \in SUBSET TCB /\ Range(readyList') \in SUBSET TCB
         /\ Append(exitList, current) \in Seq(TCB)
         /\ IsInjective(Append(exitList, current))
         /\ Shape(heap, {Head(readyList)}, Range(readyList'),
                  Range(Append(exitList, current)), Sets(wait), threadArray, queue, id)
         /\ Marked({Head(readyList)}, Range(readyList'),
                   Range(Append(exitList, current)), Sets(wait), status')
         /\ current' \in TCB /\ interrupts' \in BOOLEAN
         /\ status' \in [TCB -> {"run", "ready", "exit", "sleep"}]
         /\ halt' = "none" /\ UNCHANGED <<id, ctx, pending>>
<1> DEFINE u == Head(readyList)
           R == Range(readyList)
           E == Range(exitList)
           R2 == Range(readyList')
           E2 == Range(Append(exitList, current))
<1>1. /\ TypeOK /\ Injective
      /\ halt = "none" /\ halt' = "none" /\ readyList # <<>>
      /\ status' = [status EXCEPT ![current] = "exit", ![u] = "run"]
      /\ readyList' = Tail(readyList)
      /\ current' = u /\ interrupts' \in BOOLEAN
      /\ UNCHANGED <<id, ctx, pending>>
  BY DEF IInv, ExitBegin, AtUser, Resume
<1>2. /\ Shape(heap, {current}, R, E, Sets(wait), threadArray, queue, id)
      /\ Marked({current}, R, E, Sets(wait), status)
  BY <1>1 DEF IInv, Running
<1>3. /\ current \in TCB /\ R \subseteq TCB /\ E \subseteq TCB
      /\ Sets(wait) \in [Queue -> SUBSET TCB]
  BY <1>1, RangeType, SetsType DEF TypeOK
<1>4. /\ current \notin R /\ current \notin E /\ R \cap E = {}
      /\ \A q \in Queue : Sets(wait)[q] \cap ({current} \cup R \cup E) = {}
  BY <1>2 DEF Shape, Apart
<1>5. /\ u \in R /\ readyList' \in Seq(TCB) /\ R2 = R \ {u} /\ IsInjective(readyList')
  BY <1>1, TailList DEF TypeOK, Injective
<1>6. /\ Append(exitList, current) \in Seq(TCB)
      /\ E2 = E \cup {current}
      /\ IsInjective(Append(exitList, current))
  BY <1>1, <1>3, <1>4, AppendList DEF TypeOK, Injective
<1>7. Shape(heap, {u}, R2, E2, Sets(wait), threadArray, queue, id)
  <2>1. Apart({u}, R2, E2, Sets(wait))
    BY <1>2, <1>4, <1>5, <1>6 DEF Shape, Apart
  <2>2. Everyone({u}, R2, E2, Sets(wait)) \subseteq Everyone({current}, R, E, Sets(wait))
    BY <1>5, <1>6 DEF Everyone
  <2>3. \A q \in Queue : Sets(wait)[q] # {} => queue[q] = "live"
    BY <1>2 DEF Shape, Queued
  <2>4. QED
    BY <1>2, <2>1, <2>2, <2>3, Rearranged
<1>8. Marked({u}, R2, E2, Sets(wait), status')
  <2>1. status'[u] = "run" /\ status'[current] = "exit"
    BY <1>1, <1>3, <1>4, <1>5 DEF TypeOK
  <2>2. \A t \in TCB \ {u, current} : status'[t] = status[t]
    BY <1>1, <1>3, <1>5 DEF TypeOK
  <2>3. \A q \in Queue : Sets(wait)[q] \subseteq TCB \ {u, current}
    BY <1>3, <1>4, <1>5
  <2>4. /\ R2 \subseteq TCB \ {u, current} /\ R2 \subseteq R
        /\ E2 \subseteq (TCB \ {u}) /\ E2 \ {current} \subseteq E
    BY <1>3, <1>4, <1>5, <1>6
  <2>5. QED
    BY <1>2, <2>1, <2>2, <2>3, <2>4 DEF Marked
<1>9. Running' = {u}
  BY <1>1 DEF Running
<1>10. status' \in [TCB -> {"run", "ready", "exit", "sleep"}]
  BY <1>1 DEF TypeOK
<1>11. {u} \in SUBSET TCB /\ R2 \in SUBSET TCB /\ current' \in TCB
  BY <1>1, <1>3, <1>5
<1>12. QED
  BY <1>1, <1>5, <1>6, <1>7, <1>8, <1>9, <1>10, <1>11

LEMMA ExitToNewStep ==
  ASSUME IInv, ExitToNew
  PROVE  IInv'
<1>1. /\ ExitBegin
      /\ exitList' = Append(exitList, current)
      /\ UNCHANGED <<heap, threadArray, queue, wait>>
  BY DEF ExitToNew
<1>2. TypeOK'
  BY <1>1, ExitMove DEF TypeOK
<1>3. Injective'
  BY <1>1, ExitMove DEF Injective
<1>4. /\ Shape(heap', Running', Range(readyList'), Range(exitList'), Sets(wait'),
               threadArray', queue', id')
      /\ Marked(Running', Range(readyList'), Range(exitList'), Sets(wait'), status')
  BY <1>1, ExitMove
<1>5. QED
  BY <1>2, <1>3, <1>4 DEF IInv, Sets

LEMMA ExitToOldStep ==
  ASSUME IInv, ExitToOld
  PROVE  IInv'
<1> DEFINE el == Append(exitList, current)
           u == Head(readyList)
<1>1. /\ ExitBegin
      /\ heap' = ReapedHeap(el, wait)
      /\ threadArray' = Released(IdsOf(el))
      /\ queue' = Destroyed(IdsOf(el))
      /\ wait' = Emptied(wait, IdsOf(el))
      /\ exitList' = <<>>
  BY DEF ExitToOld, Reap
<1>2. /\ TypeOK /\ Injective
      /\ Running' = {u}
      /\ readyList' \in Seq(TCB) /\ IsInjective(readyList')
      /\ {u} \in SUBSET TCB /\ Range(readyList') \in SUBSET TCB
      /\ el \in Seq(TCB)
      /\ Shape(heap, {u}, Range(readyList'), Range(el), Sets(wait), threadArray, queue, id)
      /\ Marked({u}, Range(readyList'), Range(el), Sets(wait), status')
      /\ current' \in TCB /\ interrupts' \in BOOLEAN
      /\ status' \in [TCB -> {"run", "ready", "exit", "sleep"}]
      /\ halt' = "none" /\ UNCHANGED <<id, ctx, pending>>
  BY <1>1, ExitMove
<1>3. wait \in [Queue -> Seq(TCB)] /\ \A q \in Queue : IsInjective(wait[q])
  BY <1>2 DEF TypeOK, Injective
<1>4. Range(<<>>) = {} /\ IsInjective(<<>>) /\ <<>> \in Seq(TCB)
  BY DEF Range, IsInjective
<1> HIDE DEF el, u
<1>5. /\ Shape(heap', {u}, Range(readyList'), {}, Sets(wait'), threadArray', queue', id)
      /\ heap' \in SUBSET TCB
      /\ threadArray' \in [Tid -> {0, 1}]
      /\ queue' \in [Queue -> {"null", "live", "freed"}]
      /\ IdsOf(el) \in SUBSET Queue
  BY <1>1, <1>2, <1>3, Reaped
<1>6. /\ wait' \in [Queue -> Seq(TCB)]
      /\ \A q \in Queue : Sets(wait')[q] \subseteq Sets(wait)[q]
      /\ \A q \in Queue : IsInjective(wait'[q])
  <2>1. /\ Emptied(wait, IdsOf(el)) \in [Queue -> Seq(TCB)]
        /\ \A q \in Queue : Sets(Emptied(wait, IdsOf(el)))[q]
             = IF q \in IdsOf(el) THEN {} ELSE Sets(wait)[q]
        /\ \A q \in Queue : IsInjective(Emptied(wait, IdsOf(el))[q])
    BY ZenonT(60), <1>3, <1>5, EmptiedSets
  <2>2. QED
    BY <1>1, <2>1
<1>7. Marked({u}, Range(readyList'), {}, Sets(wait'), status')
  BY <1>2, <1>6 DEF Marked
<1>8. TypeOK'
  BY <1>1, <1>2, <1>4, <1>5, <1>6 DEF TypeOK
<1>9. Injective'
  BY <1>1, <1>2, <1>4, <1>6 DEF Injective
<1>10. QED
  BY <1>1, <1>2, <1>4, <1>5, <1>7, <1>8, <1>9 DEF IInv, Sets

LEMMA ExitProgramStep ==
  ASSUME IInv, ExitProgram
  PROVE  IInv'
<1> DEFINE R == Range(readyList)
           E == Range(exitList)
<1>1. /\ TypeOK /\ Injective
      /\ exitList' = Append(exitList, current)
      /\ status' = [status EXCEPT ![current] = "exit"]
      /\ halt = "none" /\ halt' = "exit"
      /\ UNCHANGED <<heap, current, readyList, threadArray, queue, wait, id, ctx,
                     pending, interrupts>>
  BY DEF IInv, ExitProgram, AtUser
<1>2. /\ Shape(heap, {current}, R, E, Sets(wait), threadArray, queue, id)
      /\ Marked({current}, R, E, Sets(wait), status)
  BY <1>1 DEF IInv, Running
<1>3. /\ current \in TCB /\ current \notin R /\ current \notin E
      /\ \A q \in Queue : current \notin Sets(wait)[q]
  BY <1>1, <1>2 DEF TypeOK, Shape, Apart
<1>4. /\ exitList' \in Seq(TCB)
      /\ Range(exitList') = E \cup {current}
      /\ IsInjective(exitList')
  BY <1>1, <1>3, AppendList DEF TypeOK, Injective
<1>5. Shape(heap, {}, R, E \cup {current}, Sets(wait), threadArray, queue, id)
  <2>1. Apart({}, R, E \cup {current}, Sets(wait))
    BY <1>2 DEF Shape, Apart
  <2>2. Everyone({}, R, E \cup {current}, Sets(wait))
          \subseteq Everyone({current}, R, E, Sets(wait))
    BY DEF Everyone
  <2>3. \A q \in Queue : Sets(wait)[q] # {} => queue[q] = "live"
    BY <1>2 DEF Shape, Queued
  <2>4. QED
    BY <1>2, <2>1, <2>2, <2>3, Rearranged
<1>6. Marked({}, R, E \cup {current}, Sets(wait), status')
  <2>1. status'[current] = "exit" /\ \A t : t # current /\ t \in TCB => status'[t] = status[t]
    BY <1>1 DEF TypeOK
  <2>2. R \subseteq TCB /\ E \subseteq TCB /\ Sets(wait) \in [Queue -> SUBSET TCB]
    BY <1>1, RangeType, SetsType DEF TypeOK
  <2>3. \A q \in Queue : \A t \in Sets(wait)[q] : t \in TCB /\ t # current
    BY <1>3, <2>2
  <2>4. QED
    BY <1>2, <1>3, <2>1, <2>2, <2>3 DEF Marked
<1>7. Running' = {}
  BY <1>1 DEF Running
<1>8. TypeOK'
  BY <1>1, <1>4 DEF TypeOK
<1>9. Injective'
  BY <1>1, <1>4 DEF Injective
<1>10. QED
  BY <1>1, <1>4, <1>5, <1>6, <1>7, <1>8, <1>9 DEF IInv, Sets
-----------------------------------------------------------------------------
(* thread_kill.                                                            *)
LEMMA KillStep ==
  ASSUME IInv, NEW w \in Tid, Kill(w)
  PROVE  IInv'
<1> DEFINE R == Range(readyList)
           E == Range(exitList)
<1>1. /\ TypeOK /\ Injective
      /\ halt = "none"
      /\ threadArray' = Released({w})
      /\ queue' = Destroyed({w})
      /\ wait' = Emptied(wait, {w})
      /\ UNCHANGED <<current, exitList, id, status, ctx, pending, interrupts, halt>>
  BY DEF IInv, Kill, AtUser
<1>2. PICK i \in DOMAIN readyList :
        /\ FirstReady(w, i)
        /\ readyList' = Unlinked(i)
        /\ heap' = heap \ ({readyList[i]} \cup Waiters(wait, {w}))
  BY DEF Kill
<1> DEFINE t == readyList[i]
<1>3. /\ t \in TCB /\ t \in R /\ id[t] = w
      /\ readyList' \in Seq(TCB)
      /\ Range(readyList') = R \ {t}
      /\ IsInjective(readyList')
  BY <1>1, <1>2, UnlinkList DEF Unlinked, FirstReady, TypeOK, Injective
<1>4. /\ Shape(heap, {current}, R, E, Sets(wait), threadArray, queue, id)
      /\ Marked({current}, R, E, Sets(wait), status)
  BY <1>1 DEF IInv, Running
<1>5. wait \in [Queue -> Seq(TCB)] /\ {w} \in SUBSET Queue
  BY <1>1 DEF TypeOK, Queue
<1> HIDE DEF t
<1>6. /\ wait' \in [Queue -> Seq(TCB)]
      /\ \A q \in Queue : Sets(wait')[q] = IF q \in {w} THEN {} ELSE Sets(wait)[q]
      /\ \A q \in Queue : IsInjective(wait'[q])
      /\ \A u : u \in Waiters(wait, {w}) <=> \E q \in {w} : u \in Sets(wait)[q]
  <2>1. /\ Emptied(wait, {w}) \in [Queue -> Seq(TCB)]
        /\ \A q \in Queue : Sets(Emptied(wait, {w}))[q]
             = IF q \in {w} THEN {} ELSE Sets(wait)[q]
        /\ \A q \in Queue : IsInjective(Emptied(wait, {w})[q])
        /\ \A u : u \in Waiters(wait, {w}) <=> \E q \in {w} : u \in Sets(wait)[q]
    BY <1>1, <1>5, EmptiedSets DEF Injective
  <2>2. QED
    BY <1>1, <2>1
<1>7. Shape(heap', {current}, R \ {t}, E, Sets(wait'), threadArray', queue', id)
  <2>1. Frees({current}, R, E, Sets(wait), heap, threadArray, queue, id,
              {t}, {w}, heap', Sets(wait'), threadArray', queue')
    BY <1>1, <1>2, <1>3, <1>5, <1>6 DEF Frees, Released, Destroyed, t
  <2>2. E \ {t} = E
    BY <1>3, <1>4 DEF Shape, Apart
  <2>3. \A u \in Everyone({current}, R, E, Sets(wait)) : id[u] \in Tid
    BY <1>1, <1>4 DEF Shape, Named, TypeOK
  <2>4. \A u \in Everyone({current}, R, E, Sets(wait)) \ {t} : id[u] \notin {w}
    <3>1. t \in Everyone({current}, R, E, Sets(wait))
      BY <1>3 DEF Everyone
    <3>2. QED
      BY <1>3, <1>4, <3>1 DEF Shape, Named
  <2>5. Shape(heap', {current}, R \ {t}, E \ {t}, Sets(wait'), threadArray', queue', id)
    BY <1>4, <2>1, <2>3, <2>4, Freed
  <2>6. QED
    BY <2>2, <2>5
<1>8. Marked({current}, R \ {t}, E, Sets(wait'), status)
  BY <1>4, <1>6 DEF Marked
<1>9. Running' = {current}
  BY <1>1 DEF Running
<1>10. TypeOK'
  BY <1>1, <1>2, <1>3, <1>6 DEF TypeOK, Released, Destroyed
<1>11. Injective'
  BY <1>1, <1>3, <1>6 DEF Injective
<1>12. QED
  BY <1>1, <1>3, <1>7, <1>8, <1>9, <1>10, <1>11 DEF IInv, Sets
-----------------------------------------------------------------------------
(* thread_yield_wait: the caller joins the queue, the exit list is reaped, *)
(* the head of the ready list runs.                                        *)
LEMMA YieldWaitStep ==
  ASSUME IInv, halt = "none", NEW q \in Queue, NEW saved \in {"on", "off"},
         YieldWait(q, saved)
  PROVE  IInv'
<1> DEFINE R == Range(readyList)
           E == Range(exitList)
           u == Head(readyList)
           w == Joined(q)
<1>1. CASE Halt("use_after_free") \/ Halt("free_running") \/ Halt("null")
  BY <1>1, HaltStep DEF Undefined
<1>2. CASE /\ queue[q] = "live"
           /\ readyList # <<>>
           /\ status' = [status EXCEPT ![current] = "sleep"]
           /\ ctx' = [ctx EXCEPT ![current] = saved]
           /\ pending' = [pending EXCEPT ![current] = Idle]
           /\ Reap(exitList, w)
           /\ readyList' = Tail(readyList)
           /\ Resume(u)
           /\ UNCHANGED <<id, halt>>
  <2>1. /\ TypeOK /\ Injective
        /\ Shape(heap, {current}, R, E, Sets(wait), threadArray, queue, id)
        /\ Marked({current}, R, E, Sets(wait), status)
    BY DEF IInv, Running
  <2>2. /\ current \in TCB /\ R \subseteq TCB /\ E \subseteq TCB
        /\ exitList \in Seq(TCB) /\ wait \in [Queue -> Seq(TCB)]
        /\ Sets(wait) \in [Queue -> SUBSET TCB]
        /\ \A r \in Queue : Sets(wait)[r] = Range(wait[r])
    BY <2>1, RangeType, SetsType DEF TypeOK
  <2>3. /\ current \notin R /\ current \notin E /\ R \cap E = {}
        /\ \A r \in Queue : current \notin Sets(wait)[r] /\ Sets(wait)[r] \cap R = {}
    BY <2>1 DEF Shape, Apart
  <2>4. /\ u \in R /\ u \in TCB /\ readyList' \in Seq(TCB)
        /\ Range(readyList') = R \ {u} /\ IsInjective(readyList')
    BY <1>2, <2>1, <2>2, TailList DEF TypeOK, Injective
  <2>5. /\ w \in [Queue -> Seq(TCB)]
        /\ Sets(w)[q] = Sets(wait)[q] \cup {current}
        /\ \A r \in Queue \ {q} : Sets(w)[r] = Sets(wait)[r]
        /\ \A r \in Queue : IsInjective(w[r])
    <3>1. /\ Append(wait[q], current) \in Seq(TCB)
          /\ Range(Append(wait[q], current)) = Range(wait[q]) \cup {current}
          /\ IsInjective(Append(wait[q], current))
      BY <2>1, <2>2, <2>3, AppendList DEF Injective
    <3>2. /\ w \in [Queue -> Seq(TCB)]
          /\ w[q] = Append(wait[q], current)
          /\ \A r \in Queue \ {q} : w[r] = wait[r]
      BY <2>2, <3>1 DEF Joined
    <3>3. \A r \in Queue : Sets(w)[r] = Range(w[r])
      BY <3>2, SetsType
    <3>4. QED
      BY <2>1, <2>2, <3>1, <3>2, <3>3 DEF Injective
  <2> HIDE DEF w, u
  <2>6. Shape(heap, {}, R, E, Sets(w), threadArray, queue, id)
    <3>1. Apart({}, R, E, Sets(w))
      <4>1. /\ R \cap E = {}
            /\ \A r \in Queue : Sets(wait)[r] \cap (R \cup E) = {}
            /\ \A r, v \in Queue : r # v => Sets(wait)[r] \cap Sets(wait)[v] = {}
        BY <2>1 DEF Shape, Apart
      <4>2. \A r \in Queue : Sets(w)[r] \cap (R \cup E) = {}
        BY <2>3, <2>5, <4>1
      <4>3. \A r, v \in Queue : r # v => Sets(w)[r] \cap Sets(w)[v] = {}
        BY SMTT(60), <2>3, <2>5, <4>1
      <4>4. QED
        BY <4>1, <4>2, <4>3 DEF Apart
    <3>2. Everyone({}, R, E, Sets(w)) \subseteq Everyone({current}, R, E, Sets(wait))
      BY <2>5 DEF Everyone
    <3>3. \A r \in Queue : Sets(w)[r] # {} => queue[r] = "live"
      BY <1>2, <2>1, <2>5 DEF Shape, Queued
    <3>4. QED
      BY <2>1, <3>1, <3>2, <3>3, Rearranged
  <2>7. /\ Shape(heap', {}, R, {}, Sets(wait'), threadArray', queue', id)
        /\ heap' \in SUBSET TCB
        /\ threadArray' \in [Tid -> {0, 1}]
        /\ queue' \in [Queue -> {"null", "live", "freed"}]
        /\ IdsOf(exitList) \in SUBSET Queue
    <3>1. {} \in SUBSET TCB /\ R \in SUBSET TCB
      BY <2>2
    <3>2. QED
      BY <1>2, <2>1, <2>2, <2>5, <2>6, <3>1, Reaped DEF Reap
  <2>8. /\ wait' \in [Queue -> Seq(TCB)]
        /\ \A r \in Queue : Sets(wait')[r] \subseteq Sets(w)[r]
        /\ \A r \in Queue : IsInjective(wait'[r])
    <3>1. /\ w \in [Queue -> Seq(TCB)]
          /\ IdsOf(exitList) \in SUBSET Queue
          /\ \A r \in Queue : IsInjective(w[r])
      BY <2>5, <2>7
    <3>2. /\ Emptied(w, IdsOf(exitList)) \in [Queue -> Seq(TCB)]
          /\ \A r \in Queue : Sets(Emptied(w, IdsOf(exitList)))[r]
               = IF r \in IdsOf(exitList) THEN {} ELSE Sets(w)[r]
          /\ \A r \in Queue : IsInjective(Emptied(w, IdsOf(exitList))[r])
      BY <3>1, EmptiedSets
    <3>3. QED
      BY <1>2, <3>2 DEF Reap
  <2>9. Shape(heap', {u}, R \ {u}, {}, Sets(wait'), threadArray', queue', id)
    <3>1. Apart({u}, R \ {u}, {}, Sets(wait'))
      BY <2>4, <2>7 DEF Shape, Apart
    <3>2. Everyone({u}, R \ {u}, {}, Sets(wait')) \subseteq Everyone({}, R, {}, Sets(wait'))
      BY <2>4 DEF Everyone
    <3>3. \A r \in Queue : Sets(wait')[r] # {} => queue'[r] = "live"
      BY <2>7 DEF Shape, Queued
    <3>4. QED
      BY <2>7, <3>1, <3>2, <3>3, Rearranged
  <2>10. Marked({u}, R \ {u}, {}, Sets(wait'), status')
    <3>1. status'[current] = "sleep" /\ \A t \in TCB \ {current} : status'[t] = status[t]
      BY <1>2, <2>1, <2>2 DEF TypeOK
    <3>2. \A r \in Queue : \A t \in Sets(wait')[r] :
            t = current \/ (t \in TCB \ {current} /\ t \in Sets(wait)[r])
      BY <2>2, <2>5, <2>8
    <3>3. QED
      BY ZenonT(60), <2>1, <2>2, <2>3, <2>4, <3>1, <3>2 DEF Marked
  <2>11. /\ exitList' = <<>> /\ Range(exitList') = {} /\ IsInjective(exitList')
         /\ exitList' \in Seq(TCB) /\ Running' = {u}
    BY <1>2 DEF Reap, Running, Resume, Range, IsInjective
  <2>12. TypeOK'
    BY <1>2, <2>1, <2>4, <2>7, <2>8, <2>11 DEF TypeOK, Resume
  <2>13. Injective'
    BY <2>4, <2>8, <2>11 DEF Injective
  <2>14. QED
    BY <1>2, <2>4, <2>9, <2>10, <2>11, <2>12, <2>13 DEF IInv, Sets
<1>3. QED
  BY <1>1, <1>2 DEF YieldWait
-----------------------------------------------------------------------------
(* thread_wakeup moves threads from a queue to the tail of the ready list. *)
LEMMA WakeOneStep ==
  ASSUME IInv, NEW q \in UserQueue, WakeOne(q)
  PROVE  IInv'
<1> DEFINE R == Range(readyList)
           E == Range(exitList)
           t == Head(wait[q])
<1>1. /\ TypeOK /\ Injective
      /\ halt = "none" /\ wait[q] # <<>> /\ q \in Queue
      /\ readyList' = Append(readyList, t)
      /\ wait' = [wait EXCEPT ![q] = Tail(wait[q])]
      /\ status' = Woken({t})
      /\ UNCHANGED <<heap, current, exitList, threadArray, queue, id, ctx,
                     pending, interrupts, halt>>
  BY DEF IInv, WakeOne, AtUser, Rest, Queue
<1>2. /\ Shape(heap, {current}, R, E, Sets(wait), threadArray, queue, id)
      /\ Marked({current}, R, E, Sets(wait), status)
  BY <1>1 DEF IInv, Running
<1>3. /\ R \subseteq TCB /\ E \subseteq TCB
      /\ wait[q] \in Seq(TCB) /\ IsInjective(wait[q])
      /\ wait \in [Queue -> Seq(TCB)]
      /\ Sets(wait) \in [Queue -> SUBSET TCB]
      /\ \A r \in Queue : Sets(wait)[r] = Range(wait[r])
  BY <1>1, RangeType, SetsType DEF TypeOK, Injective
<1>4. /\ t \in TCB /\ t \in Sets(wait)[q]
      /\ Tail(wait[q]) \in Seq(TCB) /\ IsInjective(Tail(wait[q]))
      /\ Range(Tail(wait[q])) = Sets(wait)[q] \ {t}
  BY <1>1, <1>3, TailList
<1> HIDE DEF t
<1>5. /\ wait' \in [Queue -> Seq(TCB)]
      /\ Sets(wait')[q] = Sets(wait)[q] \ {t}
      /\ \A r \in Queue \ {q} : Sets(wait')[r] = Sets(wait)[r]
      /\ \A r \in Queue : IsInjective(wait'[r])
  <2>1. wait' \in [Queue -> Seq(TCB)]
    BY <1>1, <1>3, <1>4
  <2>2. \A r \in Queue : Sets(wait')[r] = Range(wait'[r])
    BY <2>1, SetsType
  <2>3. QED
    BY <1>1, <1>3, <1>4, <2>1, <2>2 DEF Injective
<1>6. /\ R \cap E = {} /\ current \notin R /\ current \notin E
      /\ \A r \in Queue : Sets(wait)[r] \cap ({current} \cup R \cup E) = {}
      /\ \A r, v \in Queue : r # v => Sets(wait)[r] \cap Sets(wait)[v] = {}
  BY <1>2 DEF Shape, Apart
<1>7. /\ readyList' \in Seq(TCB) /\ Range(readyList') = R \cup {t}
      /\ IsInjective(readyList')
  BY <1>1, <1>4, <1>6, AppendList DEF TypeOK, Injective
<1>8. Shape(heap, {current}, R \cup {t}, E, Sets(wait'), threadArray, queue, id)
  <2>1. Apart({current}, R \cup {t}, E, Sets(wait'))
    <3>1. \A r \in Queue : Sets(wait')[r] \subseteq Sets(wait)[r]
      BY <1>5
    <3>2. \A r \in Queue \ {q} : t \notin Sets(wait)[r]
      BY <1>1, <1>4, <1>6
    <3>3. \A r \in Queue : t \notin Sets(wait')[r]
      BY <1>5, <3>2
    <3>4. t # current /\ t \notin E
      BY <1>1, <1>4, <1>6
    <3>5. QED
      BY <1>6, <3>1, <3>3, <3>4 DEF Apart
  <2>2. Everyone({current}, R \cup {t}, E, Sets(wait'))
          \subseteq Everyone({current}, R, E, Sets(wait))
    BY ZenonT(60), <1>1, <1>4, <1>5 DEF Everyone
  <2>3. \A r \in Queue : Sets(wait')[r] # {} => queue[r] = "live"
    BY <1>2, <1>5 DEF Shape, Queued
  <2>4. QED
    BY <1>2, <2>1, <2>2, <2>3, Rearranged
<1>9. Marked({current}, R \cup {t}, E, Sets(wait'), status')
  <2>1. status'[t] = "ready" /\ \A u \in TCB \ {t} : status'[u] = status[u]
    BY <1>1, <1>4 DEF Woken
  <2>2. /\ current \in TCB \ {t} /\ E \subseteq TCB \ {t}
        /\ \A r \in Queue : Sets(wait')[r] \subseteq TCB \ {t}
        /\ \A r \in Queue : Sets(wait')[r] \subseteq Sets(wait)[r]
    BY ZenonT(60), <1>1, <1>3, <1>4, <1>5, <1>6 DEF TypeOK
  <2>3. QED
    BY <1>2, <1>3, <2>1, <2>2 DEF Marked
<1>10. Running' = {current}
  BY <1>1 DEF Running
<1>11. TypeOK'
  BY <1>1, <1>5, <1>7 DEF TypeOK, Woken
<1>12. Injective'
  BY <1>1, <1>5, <1>7 DEF Injective
<1>13. QED
  BY <1>1, <1>7, <1>8, <1>9, <1>10, <1>11, <1>12 DEF IInv, Sets

LEMMA WakeAllStep ==
  ASSUME IInv, NEW q \in UserQueue, WakeAll(q)
  PROVE  IInv'
<1> DEFINE R == Range(readyList)
           E == Range(exitList)
           S == Sets(wait)[q]
<1>1. /\ TypeOK /\ Injective
      /\ halt = "none" /\ q \in Queue
      /\ readyList' = readyList \o wait[q]
      /\ wait' = [wait EXCEPT ![q] = <<>>]
      /\ status' = Woken(Range(wait[q]))
      /\ UNCHANGED <<heap, current, exitList, threadArray, queue, id, ctx,
                     pending, interrupts, halt>>
  BY DEF IInv, WakeAll, AtUser, Queue
<1>2. /\ Shape(heap, {current}, R, E, Sets(wait), threadArray, queue, id)
      /\ Marked({current}, R, E, Sets(wait), status)
  BY <1>1 DEF IInv, Running
<1>3. /\ R \subseteq TCB /\ E \subseteq TCB
      /\ wait[q] \in Seq(TCB) /\ IsInjective(wait[q])
      /\ wait \in [Queue -> Seq(TCB)]
      /\ Sets(wait) \in [Queue -> SUBSET TCB]
      /\ \A r \in Queue : Sets(wait)[r] = Range(wait[r])
  BY <1>1, RangeType, SetsType DEF TypeOK, Injective
<1>4. Range(<<>>) = {} /\ IsInjective(<<>>) /\ <<>> \in Seq(TCB)
  BY DEF Range, IsInjective
<1>5. /\ wait' \in [Queue -> Seq(TCB)]
      /\ Sets(wait')[q] = {}
      /\ \A r \in Queue \ {q} : Sets(wait')[r] = Sets(wait)[r]
      /\ \A r \in Queue : IsInjective(wait'[r])
  <2>1. wait' \in [Queue -> Seq(TCB)]
    BY <1>1, <1>3, <1>4
  <2>2. \A r \in Queue : Sets(wait')[r] = Range(wait'[r])
    BY <2>1, SetsType
  <2>3. QED
    BY <1>1, <1>3, <1>4, <2>1, <2>2 DEF Injective
<1>6. /\ R \cap E = {} /\ current \notin R /\ current \notin E
      /\ \A r \in Queue : Sets(wait)[r] \cap ({current} \cup R \cup E) = {}
      /\ \A r, v \in Queue : r # v => Sets(wait)[r] \cap Sets(wait)[v] = {}
  BY <1>2 DEF Shape, Apart
<1>7. /\ readyList' \in Seq(TCB) /\ Range(readyList') = R \cup S
      /\ IsInjective(readyList')
  <2>1. Range(readyList) \cap Range(wait[q]) = {}
    BY <1>1, <1>3, <1>6
  <2>2. readyList \in Seq(TCB) /\ IsInjective(readyList)
    BY <1>1 DEF TypeOK, Injective
  <2>3. QED
    BY <1>1, <1>3, <2>1, <2>2, SpliceList
<1>8. Shape(heap, {current}, R \cup S, E, Sets(wait'), threadArray, queue, id)
  <2>1. Apart({current}, R \cup S, E, Sets(wait'))
    <3>1. \A r \in Queue : Sets(wait')[r] \cap S = {} /\ Sets(wait')[r] \subseteq Sets(wait)[r]
      BY <1>1, <1>5, <1>6
    <3>2. S \cap ({current} \cup E) = {}
      BY <1>1, <1>6
    <3>3. QED
      BY <1>6, <3>1, <3>2 DEF Apart
  <2>2. Everyone({current}, R \cup S, E, Sets(wait'))
          \subseteq Everyone({current}, R, E, Sets(wait))
    BY ZenonT(60), <1>1, <1>5 DEF Everyone
  <2>3. \A r \in Queue : Sets(wait')[r] # {} => queue[r] = "live"
    BY <1>2, <1>5 DEF Shape, Queued
  <2>4. QED
    BY <1>2, <2>1, <2>2, <2>3, Rearranged
<1>9. Marked({current}, R \cup S, E, Sets(wait'), status')
  <2>1. /\ \A u \in S : status'[u] = "ready"
        /\ \A u \in TCB \ S : status'[u] = status[u]
    BY <1>1, <1>3 DEF Woken
  <2>2. /\ current \in TCB \ S /\ E \subseteq TCB \ S
        /\ \A r \in Queue : Sets(wait')[r] \subseteq TCB \ S
        /\ \A r \in Queue : Sets(wait')[r] \subseteq Sets(wait)[r]
    BY <1>1, <1>3, <1>5, <1>6 DEF TypeOK
  <2>3. QED
    BY <1>2, <1>3, <2>1, <2>2 DEF Marked
<1>10. Running' = {current}
  BY <1>1 DEF Running
<1>11. TypeOK'
  BY <1>1, <1>5, <1>7 DEF TypeOK, Woken
<1>12. Injective'
  BY <1>1, <1>5, <1>7 DEF Injective
<1>13. QED
  BY <1>1, <1>7, <1>8, <1>9, <1>10, <1>11, <1>12 DEF IInv, Sets
-----------------------------------------------------------------------------
(* The wait queues of the program.                                         *)
LEMMA QueueCreateStep ==
  ASSUME IInv, NEW q \in UserQueue, QueueCreate(q)
  PROVE  IInv'
<1> DEFINE R == Range(readyList)
           E == Range(exitList)
<1>1. /\ TypeOK /\ Injective
      /\ halt = "none" /\ q \in Queue /\ q \notin Tid /\ queue[q] # "live"
      /\ queue' = [queue EXCEPT ![q] = "live"]
      /\ wait' = [wait EXCEPT ![q] = <<>>]
      /\ UNCHANGED <<heap, current, readyList, exitList, threadArray, id,
                     status, ctx, pending, interrupts, halt>>
  BY ThreadsAssumption DEF IInv, QueueCreate, AtUser, Queue
<1>2. /\ Shape(heap, {current}, R, E, Sets(wait), threadArray, queue, id)
      /\ Marked({current}, R, E, Sets(wait), status)
  BY <1>1 DEF IInv, Running
<1>3. Range(<<>>) = {} /\ IsInjective(<<>>) /\ <<>> \in Seq(TCB)
  BY DEF Range, IsInjective
<1>4. /\ wait' \in [Queue -> Seq(TCB)]
      /\ \A r \in Queue : IsInjective(wait'[r])
      /\ \A r \in Queue : Sets(wait')[r] = Sets(wait)[r]
  <2>1. wait \in [Queue -> Seq(TCB)] /\ wait' \in [Queue -> Seq(TCB)]
    BY <1>1, <1>3 DEF TypeOK
  <2>2. \A r \in Queue : Sets(wait')[r] = Range(wait'[r]) /\ Sets(wait)[r] = Range(wait[r])
    BY <2>1, SetsType
  <2>3. Sets(wait)[q] = {}
    BY <1>1, <1>2 DEF Shape, Queued
  <2>4. QED
    BY <1>1, <1>3, <2>1, <2>2, <2>3 DEF Injective
<1>5. queue'[q] = "live" /\ \A r \in Queue \ {q} : queue'[r] = queue[r]
  BY <1>1 DEF TypeOK
<1>6. Shape(heap, {current}, R, E, Sets(wait'), threadArray, queue', id)
  <2>1. Apart({current}, R, E, Sets(wait'))
    BY <1>2, <1>4 DEF Shape, Apart
  <2>2. Everyone({current}, R, E, Sets(wait')) = Everyone({current}, R, E, Sets(wait))
    BY <1>4 DEF Everyone
  <2>3. Named(Everyone({current}, R, E, Sets(wait)), heap, threadArray, queue', id)
    <3>1. \A t \in Everyone({current}, R, E, Sets(wait)) : id[t] \in Queue \ {q}
      BY <1>1, <1>2 DEF Shape, Named, TypeOK, Queue
    <3>2. QED
      BY <1>2, <1>5, <3>1 DEF Shape, Named
  <2>4. Queued(Sets(wait'), threadArray, queue')
    BY <1>1, <1>2, <1>4, <1>5 DEF Shape, Queued, Queue
  <2>5. QED
    BY <2>1, <2>2, <2>3, <2>4 DEF Shape
<1>7. Marked({current}, R, E, Sets(wait'), status)
  BY <1>2, <1>4 DEF Marked
<1>8. Running' = {current}
  BY <1>1 DEF Running
<1>9. TypeOK'
  BY <1>1, <1>4 DEF TypeOK
<1>10. Injective'
  BY <1>1, <1>4 DEF Injective
<1>11. QED
  BY <1>1, <1>6, <1>7, <1>8, <1>9, <1>10 DEF IInv, Sets

LEMMA QueueDestroyStep ==
  ASSUME IInv, NEW q \in UserQueue, QueueDestroy(q)
  PROVE  IInv'
<1> DEFINE R == Range(readyList)
           E == Range(exitList)
<1>1. /\ TypeOK /\ Injective
      /\ halt = "none" /\ q \in Queue /\ q \notin Tid
      /\ heap' = heap \ Waiters(wait, {q})
      /\ queue' = Destroyed({q})
      /\ wait' = Emptied(wait, {q})
      /\ UNCHANGED <<current, readyList, exitList, threadArray, id, status, ctx,
                     pending, interrupts, halt>>
  BY ThreadsAssumption DEF IInv, QueueDestroy, AtUser, Queue
<1>2. /\ Shape(heap, {current}, R, E, Sets(wait), threadArray, queue, id)
      /\ Marked({current}, R, E, Sets(wait), status)
  BY <1>1 DEF IInv, Running
<1>3. wait \in [Queue -> Seq(TCB)] /\ {q} \in SUBSET Queue
  BY <1>1 DEF TypeOK
<1>4. /\ wait' \in [Queue -> Seq(TCB)]
      /\ \A r \in Queue : Sets(wait')[r] = IF r \in {q} THEN {} ELSE Sets(wait)[r]
      /\ \A r \in Queue : IsInjective(wait'[r])
      /\ \A u : u \in Waiters(wait, {q}) <=> \E r \in {q} : u \in Sets(wait)[r]
  <2>1. /\ Emptied(wait, {q}) \in [Queue -> Seq(TCB)]
        /\ \A r \in Queue : Sets(Emptied(wait, {q}))[r]
             = IF r \in {q} THEN {} ELSE Sets(wait)[r]
        /\ \A r \in Queue : IsInjective(Emptied(wait, {q})[r])
        /\ \A u : u \in Waiters(wait, {q}) <=> \E r \in {q} : u \in Sets(wait)[r]
    BY <1>1, <1>3, EmptiedSets DEF Injective
  <2>2. QED
    BY <1>1, <2>1
<1>5. Shape(heap', {current}, R, E, Sets(wait'), threadArray', queue', id)
  <2>1. Frees({current}, R, E, Sets(wait), heap, threadArray, queue, id,
              {}, {q}, heap', Sets(wait'), threadArray', queue')
    BY <1>1, <1>3, <1>4 DEF Frees, Destroyed
  <2>2. \A u \in Everyone({current}, R, E, Sets(wait)) : id[u] \in Tid
    BY <1>1, <1>2 DEF Shape, Named, TypeOK
  <2>3. \A u \in Everyone({current}, R, E, Sets(wait)) \ {} : id[u] \notin {q}
    BY <1>1, <2>2
  <2>4. Shape(heap', {current}, R \ {}, E \ {}, Sets(wait'), threadArray', queue', id)
    BY <1>2, <2>1, <2>2, <2>3, Freed
  <2>5. R \ {} = R /\ E \ {} = E
    OBVIOUS
  <2>6. QED
    BY <2>4, <2>5
<1>6. Marked({current}, R, E, Sets(wait'), status)
  BY <1>2, <1>4 DEF Marked
<1>7. Running' = {current}
  BY <1>1 DEF Running
<1>8. TypeOK'
  BY <1>1, <1>4 DEF TypeOK, Destroyed
<1>9. Injective'
  BY <1>1, <1>4 DEF Injective
<1>10. QED
  BY <1>1, <1>5, <1>6, <1>7, <1>8, <1>9 DEF IInv, Sets
-----------------------------------------------------------------------------
LEMMA InitIInv == Init => IInv
<1> SUFFICES ASSUME Init PROVE IInv
  OBVIOUS
<1>1. 0 \in Tid /\ 0 \in Queue
  BY ThreadsAssumption DEF Tid, Queue
<1>2. Range(<<>>) = {} /\ IsInjective(<<>>) /\ <<>> \in Seq(TCB)
  BY DEF Range, IsInjective
<1>3. TypeOK
  BY <1>1, <1>2 DEF Init, TypeOK
<1>4. Injective
  BY <1>2 DEF Init, Injective
<1>5. Running = {current} /\ \A q \in Queue : Sets(wait)[q] = {}
  BY <1>2 DEF Init, Running, Sets
<1>6. Everyone({current}, {}, {}, Sets(wait)) = {current}
  BY <1>5 DEF Everyone
<1>7. Shape(heap, {current}, {}, {}, Sets(wait), threadArray, queue, id)
  <2>1. Apart({current}, {}, {}, Sets(wait))
    BY <1>5 DEF Apart
  <2>2. Named({current}, heap, threadArray, queue, id)
    BY <1>1, <1>3 DEF Init, TypeOK, Named
  <2>3. Queued(Sets(wait), threadArray, queue)
    BY <1>5 DEF Init, Queued, Queue
  <2>4. QED
    BY <1>6, <2>1, <2>2, <2>3 DEF Shape
<1>8. Marked({current}, {}, {}, Sets(wait), status)
  BY <1>3, <1>5 DEF Init, Marked, TypeOK
<1>9. QED
  BY <1>2, <1>3, <1>4, <1>5, <1>7, <1>8 DEF Init, IInv

LEMMA NextIInv == IInv /\ [Next]_vars => IInv'
<1> SUFFICES ASSUME IInv, [Next]_vars PROVE IInv'
  OBVIOUS
<1> USE DEF AtUser
<1>1. CASE YieldAny
  <2>1. readyList \in Seq(TCB) /\ readyList # <<>> /\ id \in [TCB -> Tid]
    BY <1>1 DEF YieldAny, IInv, TypeOK
  <2>2. id[Head(readyList)] \in Tid
    BY <2>1, RangeType
  <2>3. QED
    BY <1>1, <2>2, ChangeCurrentToStep DEF YieldAny, SavedMask
<1>2. ASSUME NEW w \in Tid, YieldTid(w) PROVE IInv'
  BY <1>2, ChangeCurrentToStep DEF YieldTid, SavedMask
<1>3. ASSUME NEW w \in Tid, Kill(w) PROVE IInv'
  BY <1>3, KillStep
<1>4. ASSUME NEW w \in Tid, Wait(w) PROVE IInv'
  BY <1>4, YieldWaitStep DEF Wait, SavedMask, Queue
<1>5. CASE Preempt
  <2>1. readyList \in Seq(TCB) /\ readyList # <<>> /\ id \in [TCB -> Tid]
    BY <1>5 DEF Preempt, IInv, TypeOK
  <2>2. id[Head(readyList)] \in Tid
    BY <2>1, RangeType
  <2>3. QED
    BY <1>5, <2>2, ChangeCurrentToStep DEF Preempt
<1>6. CASE Create
  BY <1>6, CreateStep
<1>7. CASE CreateReturn
  <2>1. CASE Halt("use_after_free")
    BY <1>7, <2>1, HaltStep DEF CreateReturn, Undefined
  <2>2. CASE /\ pending' = [pending EXCEPT ![current] = Idle]
             /\ UNCHANGED <<heap, current, readyList, exitList, threadArray,
                            queue, wait, id, status, ctx, interrupts, halt>>
    <3>1. TypeOK'
      BY <2>2 DEF IInv, TypeOK
    <3>2. QED
      BY <2>2, <3>1, SameListsStep
  <2>3. QED
    BY <1>7, <2>1, <2>2 DEF CreateReturn
<1>8. CASE CreateNoMore \/ CreateNoStack
  BY <1>8, CreateFailsStep
<1>9. CASE CreateNoThread \/ WaitBeyond
  BY <1>9, HaltStep DEF CreateNoThread, WaitBeyond, Undefined
<1>10. CASE ExitToNew
  BY <1>10, ExitToNewStep
<1>11. CASE ExitToOld
  BY <1>11, ExitToOldStep
<1>12. CASE ExitProgram
  BY <1>12, ExitProgramStep
<1>13. CASE SleepCommit
  <2>1. pending[current] \in {Idle} \cup [op : {"create"}, arg : TCB]
                                  \cup [op : {"sleep"}, arg : UserQueue]
    BY DEF IInv, TypeOK
  <2>2. pending[current].arg \in Queue
    BY <1>13, <2>1 DEF SleepCommit, Idle, Queue
  <2>3. QED
    BY <1>13, <2>2, YieldWaitStep DEF SleepCommit
<1>14. ASSUME NEW q \in UserQueue, SleepCheck(q) PROVE IInv'
  <2>1. TypeOK'
    BY <1>14 DEF SleepCheck, IInv, TypeOK
  <2>2. QED
    BY <1>14, <2>1, SameListsStep DEF SleepCheck
<1>15. ASSUME NEW q \in UserQueue, WakeOne(q) PROVE IInv'
  BY <1>15, WakeOneStep
<1>16. ASSUME NEW q \in UserQueue, WakeAll(q) PROVE IInv'
  BY <1>16, WakeAllStep
<1>17. ASSUME NEW q \in UserQueue, QueueCreate(q) PROVE IInv'
  BY <1>17, QueueCreateStep
<1>18. ASSUME NEW q \in UserQueue, QueueDestroy(q) PROVE IInv'
  BY <1>18, QueueDestroyStep
<1>19. ASSUME NEW b \in BOOLEAN, SetInterrupts(b) PROVE IInv'
  <2>1. TypeOK'
    BY <1>19 DEF SetInterrupts, IInv, TypeOK
  <2>2. QED
    BY <1>19, <2>1, SameListsStep DEF SetInterrupts
<1>20. CASE UNCHANGED vars
  <2>1. TypeOK'
    BY <1>20 DEF vars, IInv, TypeOK
  <2>2. QED
    BY <1>20, <2>1, SameListsStep DEF vars
<1>21. QED
  BY <1>1, <1>2, <1>3, <1>4, <1>5, <1>6, <1>7, <1>8, <1>9, <1>10, <1>11, <1>12,
     <1>13, <1>14, <1>15, <1>16, <1>17, <1>18, <1>19, <1>20 DEF Next, Stopped

(* Every reachable state has the shape that the invariant describes.       *)
THEOREM Invariance == Spec => []IInv
<1>1. QED
  BY InitIInv, NextIInv, PTL DEF Spec
-----------------------------------------------------------------------------
(* What the invariant says in the terms of Threads.                        *)
LEMMA InTerms ==
  ASSUME IInv
  PROVE  /\ \A q \in Queue : Sets(wait)[q] = Range(wait[q])
         /\ Everyone(Running, Range(readyList), Range(exitList), Sets(wait)) = Known
         /\ \A t : t \in Waiters(wait, Queue) <=> \E q \in Queue : t \in Range(wait[q])
<1>1. \A q \in Queue : Sets(wait)[q] = Range(wait[q])
  BY SetsType DEF IInv, TypeOK
<1>2. QED
  BY <1>1 DEF Everyone, Known, Waiters

(* Every variable has the type that the model gives it, whatever the       *)
(* sequence of calls, timer interrupts and failures of malloc.             *)
THEOREM TypeCorrect == Spec => []TypeOK
<1>1. IInv => TypeOK
  BY DEF IInv
<1>2. QED
  BY <1>1, Invariance, PTL

LEMMA InOnePlace == IInv => OnePlace
<1> SUFFICES ASSUME IInv PROVE OnePlace
  OBVIOUS
<1>1. Injective /\ Apart(Running, Range(readyList), Range(exitList), Sets(wait))
  BY DEF IInv, Shape
<1>2. /\ Range(readyList) \cap Range(exitList) = {}
      /\ \A q \in Queue :
           Range(wait[q]) \cap (Range(readyList) \cup Range(exitList)) = {}
      /\ \A q, r \in Queue : q # r => Range(wait[q]) \cap Range(wait[r]) = {}
      /\ Running \cap (Range(readyList) \cup Range(exitList)) = {}
      /\ \A q \in Queue : Range(wait[q]) \cap Running = {}
  BY <1>1, InTerms DEF Apart
<1>3. Running \cap (Range(readyList) \cup Range(exitList) \cup Waiters(wait, Queue)) = {}
  BY <1>2, InTerms
<1>4. QED
  BY <1>1, <1>2, <1>3 DEF OnePlace, Injective

(* A thread is in one place at a time: no interleaving links a struct      *)
(* thread into two lists, although every list uses its field next.         *)
THEOREM OnePlaceHolds == Spec => []OnePlace
<1>1. QED
  BY InOnePlace, Invariance, PTL

(* No list ever holds a freed thread: the reaping loops, thread_kill and   *)
(* wait_queue_destroy leave no dangling pointer in another list.           *)
THEOREM KnownAllocatedHolds == Spec => []KnownAllocated
<1>1. IInv => KnownAllocated
  BY InTerms DEF IInv, Shape, Named, KnownAllocated
<1>2. QED
  BY <1>1, Invariance, PTL

(* An identifier names one thread until that thread is reaped, and the     *)
(* waitArray slot of the identifier holds a live queue all that time.      *)
THEOREM OwnIdsHolds == Spec => []OwnIds
<1>1. IInv => OwnIds
  BY InTerms DEF IInv, Shape, Named, OwnIds
<1>2. QED
  BY <1>1, Invariance, PTL

LEMMA QueuesAreSound == IInv => QueuesSound
<1> SUFFICES ASSUME IInv PROVE QueuesSound
  OBVIOUS
<1>1. Queued(Sets(wait), threadArray, queue)
  BY DEF IInv, Shape
<1>2. \A q \in Queue : wait[q] # <<>> => Sets(wait)[q] # {}
  <2>1. \A q \in Queue : wait[q] \in Seq(TCB)
    BY DEF IInv, TypeOK
  <2>2. \A q \in Queue : wait[q] # <<>> => Head(wait[q]) \in Range(wait[q])
    BY <2>1, RangeType
  <2>3. QED
    BY <2>2, InTerms
<1>3. QED
  BY <1>1, <1>2 DEF Queued, QueuesSound

(* Threads sleep on live queues only, and no live queue of waitArray       *)
(* belongs to a free identifier.                                           *)
THEOREM QueuesSoundHolds == Spec => []QueuesSound
<1>1. QED
  BY QueuesAreSound, Invariance, PTL

(* The status field agrees with the list a thread is on.                   *)
THEOREM StatusTracksPlaceHolds == Spec => []StatusTracksPlace
<1>1. IInv => StatusTracksPlace
  BY InTerms DEF IInv, Marked, StatusTracksPlace, Running
<1>2. QED
  BY <1>1, Invariance, PTL
(* r keeps the order of s: what is on both stays ahead of what was behind  *)
(* it, and of what is new.                                                 *)
Kept(s, r) ==
  \A a \in Range(s) \cap Range(r), b \in Range(r) :
    (a # b /\ ~Precedes(s, b, a)) => Precedes(r, a, b)

(* It does if its first m elements are in s, in this order, and no other   *)
(* is.                                                                     *)
LEMMA KeptBy ==
  ASSUME NEW S, NEW s \in Seq(S), NEW r \in Seq(S), NEW m \in 0 .. Len(r),
         NEW f \in [1 .. m -> 1 .. Len(s)],
         \A k \in 1 .. m : r[k] = s[f[k]],
         \A k, l \in 1 .. m : k < l => f[k] < f[l],
         \A k \in m + 1 .. Len(r) : r[k] \notin Range(s)
  PROVE  Kept(s, r)
<1>1. /\ Len(s) \in Nat /\ Len(r) \in Nat
      /\ DOMAIN s = 1 .. Len(s) /\ DOMAIN r = 1 .. Len(r)
  OBVIOUS
<1>2. SUFFICES ASSUME NEW a \in Range(s), a \in Range(r), NEW b \in Range(r),
                      a # b, ~Precedes(s, b, a)
               PROVE  Precedes(r, a, b)
  BY DEF Kept
<1>3. PICK k \in 1 .. Len(r) : r[k] = a
  BY <1>2, RangeMember
<1>4. PICK l \in 1 .. Len(r) : r[l] = b
  BY <1>2, RangeMember
<1>5. k \in 1 .. m
  BY <1>1, <1>2, <1>3
<1>6. k # l
  BY <1>2, <1>3, <1>4
<1>7. ASSUME l < k PROVE FALSE
  <2>1. l \in 1 .. m
    BY <1>1, <1>5, <1>7
  <2>2. f[l] < f[k] /\ s[f[l]] = b /\ s[f[k]] = a
    BY <1>3, <1>4, <1>5, <1>7, <2>1
  <2>3. f[l] \in DOMAIN s /\ f[k] \in DOMAIN s
    BY <1>1, <1>5, <2>1
  <2>4. Precedes(s, b, a)
    BY <2>2, <2>3 DEF Precedes
  <2>5. QED
    BY <1>2, <2>4
<1>8. k < l
  BY <1>1, <1>6, <1>7
<1>9. QED
  BY <1>1, <1>3, <1>4, <1>8 DEF Precedes

LEMMA KeptExtend ==
  ASSUME NEW S, NEW s \in Seq(S), NEW t \in Seq(S), Range(s) \cap Range(t) = {}
  PROVE  Kept(s, s \o t)
<1> DEFINE r == s \o t
           f == [k \in 1 .. Len(s) |-> k]
<1>1. /\ r \in Seq(S) /\ Len(s) \in Nat /\ Len(t) \in Nat
      /\ Len(r) = Len(s) + Len(t)
      /\ \A i \in 1 .. Len(s) + Len(t) :
           r[i] = IF i <= Len(s) THEN s[i] ELSE t[i - Len(s)]
  BY ConcatProperties, LenProperties
<1>2. /\ f \in [1 .. Len(s) -> 1 .. Len(s)]
      /\ \A k \in 1 .. Len(s) : f[k] = k
  OBVIOUS
<1> HIDE DEF r, f
<1>3. Len(s) \in 0 .. Len(r)
  BY <1>1
<1>4. \A k \in 1 .. Len(s) : r[k] = s[f[k]]
  BY <1>1, <1>2
<1>5. \A k, l \in 1 .. Len(s) : k < l => f[k] < f[l]
  BY <1>2
<1>6. \A k \in Len(s) + 1 .. Len(r) : r[k] \notin Range(s)
  <2>1. SUFFICES ASSUME NEW k \in Len(s) + 1 .. Len(r) PROVE r[k] \in Range(t)
    OBVIOUS
  <2>2. r[k] = t[k - Len(s)] /\ k - Len(s) \in 1 .. Len(t)
    BY <1>1
  <2>3. QED
    BY <2>2, RangeMember
<1>7. Kept(s, r)
  BY ZenonT(60), <1>1, <1>2, <1>3, <1>4, <1>5, <1>6, KeptBy
<1>8. QED
  BY <1>7 DEF r

LEMMA KeptAppend ==
  ASSUME NEW S, NEW s \in Seq(S), NEW x \in S, x \notin Range(s)
  PROVE  Kept(s, Append(s, x))
<1> DEFINE t == <<x>>
<1>1. t \in Seq(S) /\ Range(t) = {x} /\ Append(s, x) = s \o t
  BY AppendIsConcat DEF Range
<1> HIDE DEF t
<1>2. QED
  BY <1>1, KeptExtend

LEMMA KeptSame ==
  ASSUME NEW S, NEW s \in Seq(S)
  PROVE  Kept(s, s)
<1> DEFINE t == <<>>
<1>1. t \in Seq(S) /\ Range(t) = {} /\ s \o t = s
  BY ConcatEmptySeq DEF Range
<1> HIDE DEF t
<1>2. QED
  BY <1>1, KeptExtend

(* The i-th is taken out, and x, which was not there, may come last.       *)
LEMMA KeptShorter ==
  ASSUME NEW S, NEW s \in Seq(S), NEW i \in 1 .. Len(s), NEW r \in Seq(S),
         Len(s) - 1 <= Len(r),
         \A k \in 1 .. Len(s) - 1 : r[k] = IF k < i THEN s[k] ELSE s[k + 1],
         \A k \in Len(s) .. Len(r) : r[k] \notin Range(s)
  PROVE  Kept(s, r)
<1> DEFINE m == Len(s) - 1
           f == [k \in 1 .. m |-> IF k < i THEN k ELSE k + 1]
<1>1. m \in Nat /\ m + 1 = Len(s) /\ m \in 0 .. Len(r)
  BY LenProperties
<1>2. \A k \in 1 .. m : f[k] = IF k < i THEN k ELSE k + 1
  OBVIOUS
<1>3. f \in [1 .. m -> 1 .. Len(s)]
  BY <1>1
<1> HIDE DEF f
<1>4. \A k \in 1 .. m : r[k] = s[f[k]]
  BY <1>1, <1>2
<1>5. \A k, l \in 1 .. m : k < l => f[k] < f[l]
  BY <1>1, <1>2
<1>6. \A k \in m + 1 .. Len(r) : r[k] \notin Range(s)
  BY <1>1
<1> HIDE DEF m
<1>7. QED
  BY <1>1, <1>3, <1>4, <1>5, <1>6, KeptBy

LEMMA KeptTail ==
  ASSUME NEW S, NEW s \in Seq(S), s # <<>>
  PROVE  Kept(s, Tail(s))
<1>1. /\ Tail(s) \in Seq(S) /\ Len(Tail(s)) = Len(s) - 1
      /\ \A k \in 1 .. Len(s) - 1 : Tail(s)[k] = s[k + 1]
      /\ Len(s) \in Nat /\ 1 \in 1 .. Len(s)
  BY HeadTailProperties, LenProperties, EmptySeq
<1> DEFINE r == Tail(s)
<1>2. /\ r \in Seq(S) /\ Len(r) = Len(s) - 1
      /\ \A k \in 1 .. Len(s) - 1 : r[k] = IF k < 1 THEN s[k] ELSE s[k + 1]
  BY <1>1
<1> HIDE DEF r
<1>3. Len(s) - 1 <= Len(r) /\ \A k \in Len(s) .. Len(r) : r[k] \notin Range(s)
  BY <1>1, <1>2
<1>4. Kept(s, r)
  BY <1>1, <1>2, <1>3, KeptShorter
<1>5. QED
  BY <1>4 DEF r

LEMMA KeptRemoved ==
  ASSUME NEW S, NEW s \in Seq(S), NEW i \in 1 .. Len(s)
  PROVE  /\ Kept(s, RemoveAt(s, i))
         /\ \A x \in S : x \notin Range(s) => Kept(s, Append(RemoveAt(s, i), x))
<1> DEFINE r == RemoveAt(s, i)
<1>1. /\ r \in Seq(S) /\ Len(r) = Len(s) - 1 /\ Len(s) \in Nat
      /\ \A k \in 1 .. Len(s) - 1 : r[k] = IF k < i THEN s[k] ELSE s[k + 1]
  BY RemoveList, LenProperties
<1> HIDE DEF r
<1>2. Kept(s, r)
  <2>1. Len(s) - 1 <= Len(r) /\ \A k \in Len(s) .. Len(r) : r[k] \notin Range(s)
    BY <1>1
  <2>2. QED
    BY <1>1, <2>1, KeptShorter
<1>3. ASSUME NEW x \in S, x \notin Range(s) PROVE Kept(s, Append(r, x))
  <2> DEFINE p == Append(r, x)
  <2>1. /\ p \in Seq(S) /\ Len(p) = Len(r) + 1
        /\ \A k \in 1 .. Len(r) : p[k] = r[k]
        /\ p[Len(r) + 1] = x
    BY <1>1, AppendProperties
  <2> HIDE DEF p
  <2>2. Len(p) = Len(s)
    BY <1>1, <2>1
  <2>3. \A k \in 1 .. Len(s) - 1 : p[k] = IF k < i THEN s[k] ELSE s[k + 1]
    BY <1>1, <2>1
  <2>4. \A k \in Len(s) .. Len(p) : p[k] = x
    BY <1>1, <2>1
  <2>5. Len(s) - 1 <= Len(p) /\ \A k \in Len(s) .. Len(p) : p[k] \notin Range(s)
    BY <1>1, <1>3, <2>2, <2>4
  <2>6. Kept(s, p)
    BY <2>1, <2>3, <2>5, KeptShorter
  <2>7. QED
    BY <2>6 DEF p
<1>4. QED
  BY <1>2, <1>3 DEF r
-----------------------------------------------------------------------------
(* changeCurrentToTarget requeues the caller; thread_create appends; an    *)
(* exit or a sleep takes the head, and so on.                              *)
LEMMA Ready ==
  ASSUME IInv
  PROVE  /\ readyList \in Seq(TCB) /\ IsInjective(readyList) /\ current \in TCB
         /\ wait \in [Queue -> Seq(TCB)]
         /\ halt = "none" => current \notin Range(readyList)
BY DEF IInv, TypeOK, Injective, Shape, Apart, Running

(* How a step may change the ready list.                                   *)
LEMMA ReadyListStep ==
  ASSUME IInv, IInv', [Next]_vars
  PROVE  \/ readyList' = readyList
         \/ \E t \in Seq(TCB) : readyList' = readyList \o t
         \/ readyList # <<>> /\ readyList' = Tail(readyList)
         \/ \E i \in 1 .. Len(readyList) :
              \/ readyList' = RemoveAt(readyList, i)
              \/ /\ readyList' = Append(RemoveAt(readyList, i), current)
                 /\ halt = "none"
<1>1. /\ readyList \in Seq(TCB) /\ wait \in [Queue -> Seq(TCB)]
      /\ \A q \in UserQueue : wait[q] \in Seq(TCB)
  BY Ready DEF Queue
<1>2. DOMAIN readyList = 1 .. Len(readyList)
  BY <1>1
<1>3. ASSUME NEW x \in TCB, readyList' = Append(readyList, x)
      PROVE  \E t \in Seq(TCB) : readyList' = readyList \o t
  <2>1. <<x>> \in Seq(TCB) /\ Append(readyList, x) = readyList \o <<x>>
    BY <1>1, AppendIsConcat
  <2>2. QED
    BY <1>3, <2>1
<1>4. ASSUME NEW w, NEW saved, ChangeCurrentTo(w, saved), halt = "none"
      PROVE  \E i \in 1 .. Len(readyList) :
               readyList' = Append(RemoveAt(readyList, i), current) /\ halt = "none"
  BY <1>2, <1>4 DEF ChangeCurrentTo, Requeued, Unlinked
<1>5. ASSUME NEW q, NEW saved, YieldWait(q, saved)
      PROVE  readyList' = readyList \/ (readyList # <<>> /\ readyList' = Tail(readyList))
  BY <1>5 DEF YieldWait, Halt
<1>6. CASE YieldAny
  BY <1>4, <1>6 DEF YieldAny, AtUser
<1>7. CASE \E w \in Tid : YieldTid(w)
  BY <1>4, <1>7 DEF YieldTid, AtUser
<1>8. CASE Preempt
  BY <1>4, <1>8 DEF Preempt
<1>9. CASE \E w \in Tid : Kill(w)
  BY <1>2, <1>9 DEF Kill, Unlinked
<1>10. CASE SleepCommit \/ \E w \in Tid : Wait(w)
  BY <1>5, <1>10 DEF SleepCommit, Wait
<1>11. CASE Create
  BY <1>3, <1>11 DEF Create
<1>12. CASE ExitToNew \/ ExitToOld
  BY <1>12 DEF ExitToNew, ExitToOld, ExitBegin
<1>13. CASE \E q \in UserQueue : WakeOne(q)
  <2>1. PICK q \in UserQueue : WakeOne(q)
    BY <1>13
  <2>2. Head(wait[q]) \in TCB
    BY <1>1, <2>1, RangeType DEF WakeOne
  <2>3. QED
    BY <1>3, <2>1, <2>2 DEF WakeOne
<1>14. CASE \E q \in UserQueue : WakeAll(q)
  BY <1>1, <1>14 DEF WakeAll
<1>15. CASE \/ CreateReturn \/ CreateNoMore \/ CreateNoStack \/ CreateNoThread
            \/ ExitProgram \/ WaitBeyond \/ Stopped \/ UNCHANGED vars
            \/ \E q \in UserQueue : SleepCheck(q) \/ QueueCreate(q) \/ QueueDestroy(q)
            \/ \E b \in BOOLEAN : SetInterrupts(b)
  BY <1>15 DEF CreateReturn, CreateNoMore, CreateNoStack, CreateNoThread, Halt,
     ExitProgram, WaitBeyond, Stopped, SleepCheck, QueueCreate, QueueDestroy,
     SetInterrupts, vars
<1>16. QED
  BY <1>6, <1>7, <1>8, <1>9, <1>10, <1>11, <1>12, <1>13, <1>14, <1>15 DEF Next

(* Nothing comes to be on the list twice, so what is added is new.         *)
LEMMA NewAtEnd ==
  ASSUME NEW S, NEW s \in Seq(S), NEW t \in Seq(S), IsInjective(s \o t)
  PROVE  Range(s) \cap Range(t) = {}
<1> DEFINE r == s \o t
<1>1. /\ r \in Seq(S) /\ Len(s) \in Nat /\ Len(t) \in Nat
      /\ Len(r) = Len(s) + Len(t)
      /\ \A i \in 1 .. Len(s) + Len(t) :
           r[i] = IF i <= Len(s) THEN s[i] ELSE t[i - Len(s)]
  BY ConcatProperties, LenProperties
<1> HIDE DEF r
<1>2. SUFFICES ASSUME NEW x \in Range(s), x \in Range(t) PROVE FALSE
  OBVIOUS
<1>3. PICK i \in 1 .. Len(s) : s[i] = x
  BY RangeMember
<1>4. PICK j \in 1 .. Len(t) : t[j] = x
  BY <1>2, RangeMember
<1>5. /\ i \in 1 .. Len(r) /\ Len(s) + j \in 1 .. Len(r) /\ i # Len(s) + j
      /\ r[i] = x
  BY <1>1, <1>3
<1>6. r[Len(s) + j] = x
  <2>1. ~(Len(s) + j <= Len(s)) /\ (Len(s) + j) - Len(s) = j /\ Len(s) + j \in 1 .. Len(s) + Len(t)
    BY <1>1
  <2>2. QED
    BY <1>1, <1>4, <2>1
<1>7. DOMAIN r = 1 .. Len(r)
  BY <1>1
<1>8. QED
  BY <1>5, <1>6, <1>7 DEF IsInjective, r

(* The ready list is served in order of arrival, whatever is called and    *)
(* whenever the timer fires.                                               *)
THEOREM NoOvertakingHolds == Spec => NoOvertaking
<1>1. IInv /\ IInv' /\ [Next]_vars => Kept(readyList, readyList')
  <2> SUFFICES ASSUME IInv, IInv', [Next]_vars
               PROVE  Kept(readyList, readyList')
    OBVIOUS
  <2>1. readyList \in Seq(TCB) /\ current \in TCB
        /\ (halt = "none" => current \notin Range(readyList))
    BY Ready
  <2>2. IsInjective(readyList')
    BY DEF IInv, Injective
  <2>3. CASE readyList' = readyList
    BY <2>1, <2>3, KeptSame
  <2>4. ASSUME NEW t \in Seq(TCB), readyList' = readyList \o t
        PROVE  Kept(readyList, readyList')
    <3>1. Range(readyList) \cap Range(t) = {}
      BY <2>1, <2>2, <2>4, NewAtEnd
    <3>2. QED
      BY <2>1, <2>4, <3>1, KeptExtend
  <2>5. CASE readyList # <<>> /\ readyList' = Tail(readyList)
    BY <2>1, <2>5, KeptTail
  <2>6. ASSUME NEW i \in 1 .. Len(readyList),
               \/ readyList' = RemoveAt(readyList, i)
               \/ /\ readyList' = Append(RemoveAt(readyList, i), current)
                  /\ halt = "none"
        PROVE  Kept(readyList, readyList')
    BY <2>1, <2>6, KeptRemoved
  <2>7. QED
    BY <2>3, <2>4, <2>5, <2>6, ReadyListStep
<1>2. Kept(readyList, readyList') =>
        (\A a \in Range(readyList) \cap Range(readyList'), b \in Range(readyList') :
           (a # b /\ ~Precedes(readyList, b, a)) => Precedes(readyList', a, b))
  BY DEF Kept
<1>3. QED
  BY <1>1, <1>2, Invariance, PTL DEF Spec, NoOvertaking
-----------------------------------------------------------------------------
(* How a step may change a queue of the program's: one thread joins it,    *)
(* leaves it at its head, or all leave it, for the ready list or freed.    *)
LEMMA QueueStep ==
  ASSUME IInv, [Next]_vars, NEW q \in UserQueue
  PROVE  \/ wait'[q] = wait[q]
         \/ /\ halt = "none" /\ wait'[q] = Append(wait[q], current)
         \/ /\ wait[q] # <<>> /\ wait'[q] = Tail(wait[q])
         \/ /\ wait'[q] = <<>> /\ readyList' = readyList
         \/ /\ wait'[q] = <<>> /\ readyList' = readyList \o wait[q]
<1>1. /\ q \in Queue /\ q \notin Tid
      /\ wait \in [Queue -> Seq(TCB)] /\ id \in [TCB -> Tid]
      /\ exitList \in Seq(TCB) /\ current \in TCB
  BY ThreadsAssumption DEF Queue, IInv, TypeOK
<1>2. IdsOf(exitList) \in SUBSET Tid /\ IdsOf(Append(exitList, current)) \in SUBSET Tid
  <2>1. \A el \in Seq(TCB) : IdsOf(el) \in SUBSET Tid
    BY <1>1, RangeType DEF IdsOf
  <2>2. Append(exitList, current) \in Seq(TCB)
    BY <1>1
  <2>3. QED
    BY <1>1, <2>1, <2>2
<1>3. \A w, S : S \in SUBSET Tid => Emptied(w, S)[q] = w[q]
  BY <1>1 DEF Emptied
<1>4. ASSUME NEW w, NEW saved, ChangeCurrentTo(w, saved) PROVE wait'[q] = wait[q]
  BY <1>2, <1>3, <1>4 DEF ChangeCurrentTo, Reap
<1>5. ASSUME NEW p \in Queue, NEW saved, YieldWait(p, saved), halt = "none"
      PROVE  wait'[q] = wait[q] \/ wait'[q] = Append(wait[q], current)
  <2>1. Joined(p)[q] = wait[q] \/ Joined(p)[q] = Append(wait[q], current)
    BY <1>1 DEF Joined
  <2>2. CASE wait' = wait
    BY <2>2
  <2>3. CASE wait' = Emptied(Joined(p), IdsOf(exitList))
    BY <1>2, <1>3, <2>1, <2>3
  <2>4. QED
    BY <1>5, <2>2, <2>3 DEF YieldWait, Halt, Reap
<1>6. CASE YieldAny \/ Preempt \/ \E w \in Tid : YieldTid(w)
  BY <1>4, <1>6 DEF YieldAny, Preempt, YieldTid
<1>7. CASE \E w \in Tid : Kill(w)
  BY <1>3, <1>7 DEF Kill
<1>8. CASE SleepCommit
  <2>1. pending[current] \in {Idle} \cup [op : {"create"}, arg : TCB]
                                  \cup [op : {"sleep"}, arg : UserQueue]
    BY DEF IInv, TypeOK
  <2>2. pending[current].arg \in Queue
    BY <1>8, <2>1 DEF SleepCommit, Idle, Queue
  <2>3. QED
    BY <1>5, <1>8, <2>2 DEF SleepCommit
<1>9. CASE \E w \in Tid : Wait(w)
  BY <1>5, <1>9 DEF Wait, AtUser, Queue
<1>10. CASE Create
  <2>1. PICK i \in Tid : wait' = [Emptied(wait, IdsOf(exitList)) EXCEPT ![i] = <<>>]
    BY <1>10 DEF Create
  <2>2. wait'[q] = Emptied(wait, IdsOf(exitList))[q]
    BY <1>1, <2>1 DEF Emptied
  <2>3. QED
    BY <1>2, <1>3, <2>2
<1>11. CASE CreateNoMore \/ CreateNoStack
  BY <1>2, <1>3, <1>11 DEF CreateNoMore, CreateNoStack
<1>12. CASE ExitToNew \/ ExitToOld
  BY <1>2, <1>3, <1>12 DEF ExitToNew, ExitToOld, Reap
<1>13. ASSUME NEW p \in UserQueue, WakeOne(p), q = p
       PROVE  wait[q] # <<>> /\ wait'[q] = Tail(wait[q])
  BY <1>1, <1>13 DEF WakeOne, Rest
<1>14. ASSUME NEW p \in UserQueue, WakeAll(p), q = p
       PROVE  wait'[q] = <<>> /\ readyList' = readyList \o wait[q]
  BY <1>1, <1>14 DEF WakeAll
<1>15. ASSUME NEW p \in UserQueue, QueueCreate(p) \/ QueueDestroy(p), q = p
       PROVE  wait'[q] = <<>> /\ readyList' = readyList
  BY <1>1, <1>15 DEF QueueCreate, QueueDestroy, Emptied
<1>16. ASSUME NEW p \in UserQueue, q # p,
              WakeOne(p) \/ WakeAll(p) \/ QueueCreate(p) \/ QueueDestroy(p)
       PROVE  wait'[q] = wait[q]
  BY <1>1, <1>16 DEF WakeOne, WakeAll, QueueCreate, QueueDestroy, Emptied
<1>17. CASE \/ CreateReturn \/ CreateNoThread \/ ExitProgram \/ WaitBeyond
            \/ Stopped \/ UNCHANGED vars
            \/ \E p \in UserQueue : SleepCheck(p)
            \/ \E b \in BOOLEAN : SetInterrupts(b)
  BY <1>17 DEF CreateReturn, CreateNoThread, Halt, ExitProgram, WaitBeyond,
     Stopped, SleepCheck, SetInterrupts, vars
<1>18. QED
  BY <1>6, <1>7, <1>8, <1>9, <1>10, <1>11, <1>12, <1>13, <1>14, <1>15, <1>16, <1>17
     DEF Next

(* thread_wakeup(q, 1) puts the whole queue behind the ready list.         *)
LEMMA BehindInOrder ==
  ASSUME NEW S, NEW s \in Seq(S), NEW t \in Seq(S),
         NEW i \in 1 .. Len(t), NEW j \in 1 .. Len(t), i < j
  PROVE  Precedes(s \o t, t[i], t[j])
<1> DEFINE r == s \o t
<1>1. /\ r \in Seq(S) /\ Len(s) \in Nat /\ Len(t) \in Nat
      /\ Len(r) = Len(s) + Len(t)
      /\ \A k \in 1 .. Len(s) + Len(t) :
           r[k] = IF k <= Len(s) THEN s[k] ELSE t[k - Len(s)]
  BY ConcatProperties, LenProperties
<1> HIDE DEF r
<1>2. \A k \in 1 .. Len(t) : Len(s) + k \in 1 .. Len(r) /\ r[Len(s) + k] = t[k]
  <2>1. SUFFICES ASSUME NEW k \in 1 .. Len(t)
                 PROVE  Len(s) + k \in 1 .. Len(r) /\ r[Len(s) + k] = t[k]
    OBVIOUS
  <2>2. /\ ~(Len(s) + k <= Len(s)) /\ (Len(s) + k) - Len(s) = k
        /\ Len(s) + k \in 1 .. Len(s) + Len(t)
    BY <1>1
  <2>3. QED
    BY <1>1, <2>2
<1>3. Len(s) + i < Len(s) + j /\ DOMAIN r = 1 .. Len(r)
  BY <1>1
<1>4. Precedes(r, t[i], t[j])
  BY <1>2, <1>3 DEF Precedes
<1>5. QED
  BY <1>4 DEF r

(* Threads are woken in the order in which they went to sleep, one by one  *)
(* or all at once, whatever else happens meanwhile.                        *)
THEOREM FifoWakeupHolds == Spec => FifoWakeup
<1> DEFINE Fifo(q) ==
             /\ Kept(wait[q], wait'[q])
             /\ \A i, j \in DOMAIN wait[q] :
                  (i < j /\ wait[q][j] \in Range(readyList'))
                    => Precedes(readyList', wait[q][i], wait[q][j])
<1>1. IInv /\ IInv' /\ [Next]_vars => \A q \in UserQueue : Fifo(q)
  <2> SUFFICES ASSUME IInv, IInv', [Next]_vars, NEW q \in UserQueue
               PROVE  Fifo(q)
    OBVIOUS
  <2>1. /\ q \in Queue /\ wait[q] \in Seq(TCB) /\ wait'[q] \in Seq(TCB)
        /\ readyList \in Seq(TCB) /\ current \in TCB
        /\ wait' \in [Queue -> Seq(TCB)]
    BY DEF IInv, TypeOK, Queue
  <2> DEFINE s == wait[q]
             r == wait'[q]
  <2>2. /\ Len(s) \in Nat /\ DOMAIN s = 1 .. Len(s)
        /\ \A j \in DOMAIN s : s[j] \in Range(s)
    BY <2>1, RangeMember
  <2>3. Range(s) \cap Range(readyList) = {}
        /\ (halt = "none" => current \notin Range(s))
    <3>1. Sets(wait)[q] = Range(s)
      BY <2>1, SetsType DEF IInv, TypeOK
    <3>2. Apart(Running, Range(readyList), Range(exitList), Sets(wait))
      BY DEF IInv, Shape
    <3>3. Range(s) \cap (Running \cup Range(readyList) \cup Range(exitList)) = {}
      BY <2>1, <3>1, <3>2 DEF Apart
    <3>4. halt = "none" => Running = {current}
      BY DEF Running
    <3>5. QED
      BY <3>3, <3>4
  <2>4. Range(r) \cap Range(readyList') = {}
    BY <2>1, SetsType DEF IInv, Shape, Apart, Sets
(* Whoever is still on the queue is not ready.                             *)
  <2>5. ASSUME \A j \in DOMAIN s : j > 1 => s[j] \in Range(r)
        PROVE  \A i, j \in DOMAIN s : i < j => s[j] \notin Range(readyList')
    <3>1. \A i, j \in DOMAIN s : i < j => j > 1
      BY <2>2
    <3>2. QED
      BY <2>4, <2>5, <3>1
  <2>6. CASE r = s
    BY <2>1, <2>2, <2>5, <2>6, KeptSame
  <2>7. CASE halt = "none" /\ r = Append(s, current)
    <3>1. Kept(s, r)
      BY <2>1, <2>3, <2>7, KeptAppend
    <3>2. Range(r) = Range(s) \cup {current}
      BY <2>1, <2>7, AppendList
    <3>3. QED
      BY <2>2, <2>5, <3>1, <3>2
  <2>8. CASE s # <<>> /\ r = Tail(s)
    <3>1. Kept(s, r)
      BY <2>1, <2>8, KeptTail
    <3>2. ASSUME NEW j \in DOMAIN s, j > 1 PROVE s[j] \in Range(r)
      <4>1. /\ Len(r) = Len(s) - 1
            /\ \A k \in 1 .. Len(s) - 1 : r[k] = s[k + 1]
        BY <2>1, <2>8, HeadTailProperties
      <4>2. j - 1 \in 1 .. Len(r) /\ (j - 1) + 1 = j
        BY <2>2, <3>2, <4>1
      <4>3. r[j - 1] = s[j]
        BY <4>1, <4>2
      <4>4. QED
        BY <2>1, <4>2, <4>3, RangeMember
    <3>3. QED
      BY <2>5, <3>1, <3>2
  <2>9. CASE r = <<>>
    <3>1. Range(r) = {}
      BY <2>9 DEF Range
    <3>2. Kept(s, r)
      BY <3>1 DEF Kept
    <3>3. CASE readyList' = readyList
      BY <2>2, <2>3, <3>2, <3>3
    <3>4. CASE readyList' = readyList \o s
      BY <2>1, <2>2, <3>2, <3>4, BehindInOrder
    <3>5. CASE r = s
      BY <2>6, <3>5
    <3>6. QED
      BY <2>6, <2>7, <2>8, <3>3, <3>4, QueueStep
  <2>10. QED
    BY <2>6, <2>7, <2>8, <2>9, QueueStep
<1>2. (\A q \in UserQueue : Fifo(q)) =>
        \A q \in UserQueue :
          /\ \A a \in Range(wait[q]) \cap Range(wait'[q]), b \in Range(wait'[q]) :
               (a # b /\ ~Precedes(wait[q], b, a)) => Precedes(wait'[q], a, b)
          /\ \A i, j \in DOMAIN wait[q] :
               (i < j /\ wait[q][j] \in Range(readyList'))
                 => Precedes(readyList', wait[q][i], wait[q][j])
  BY DEF Kept
<1>3. QED
  BY <1>1, <1>2, Invariance, PTL DEF Spec, FifoWakeup
-----------------------------------------------------------------------------
(* Programs that never call thread_wait: nobody sleeps on the queue of a   *)
(* thread, so that reaping threads frees no other thread.                  *)
NobodyWaits == \A i \in Tid : wait[i] = <<>>

Sleepers == Waiters(wait, Queue)

LEMMA Places ==
  ASSUME IInv
  PROVE  /\ readyList \in Seq(TCB) /\ IsInjective(readyList)
         /\ exitList \in Seq(TCB) /\ wait \in [Queue -> Seq(TCB)]
         /\ current \in TCB /\ id \in [TCB -> Tid]
         /\ Range(readyList) \subseteq TCB /\ Range(exitList) \subseteq TCB
         /\ Sleepers \subseteq TCB
         /\ Range(readyList) \cap Range(exitList) = {}
         /\ Sleepers \cap (Range(readyList) \cup Range(exitList)) = {}
         /\ Running \cap (Range(readyList) \cup Range(exitList) \cup Sleepers) = {}
         /\ IdsOf(exitList) \in SUBSET Tid
         /\ IdsOf(Append(exitList, current)) \in SUBSET Tid
         /\ Range(Append(exitList, current)) = Range(exitList) \cup {current}
<1>1. /\ readyList \in Seq(TCB) /\ IsInjective(readyList)
      /\ exitList \in Seq(TCB) /\ wait \in [Queue -> Seq(TCB)]
      /\ current \in TCB /\ id \in [TCB -> Tid]
  BY DEF IInv, TypeOK, Injective
<1>2. \A q \in Queue : Range(wait[q]) \subseteq TCB
  BY <1>1, RangeType
<1>3. Sleepers \subseteq TCB
  BY <1>2 DEF Sleepers, Waiters
<1>4. /\ Range(readyList) \cap Range(exitList) = {}
      /\ \A q \in Queue :
           Range(wait[q]) \cap (Range(readyList) \cup Range(exitList)) = {}
      /\ Running \cap (Range(readyList) \cup Range(exitList) \cup Sleepers) = {}
  BY InOnePlace DEF OnePlace, Sleepers
<1>5. Sleepers \cap (Range(readyList) \cup Range(exitList)) = {}
  BY <1>4 DEF Sleepers, Waiters
<1>6. /\ Range(readyList) \subseteq TCB /\ Range(exitList) \subseteq TCB
      /\ Range(Append(exitList, current)) = Range(exitList) \cup {current}
  BY <1>1, RangeType, AppendList
<1>7. \A el : Range(el) \subseteq TCB => IdsOf(el) \in SUBSET Tid
  BY <1>1 DEF IdsOf
<1>8. QED
  BY <1>1, <1>3, <1>4, <1>5, <1>6, <1>7

LEMMA NothingEmptied ==
  ASSUME NEW w \in [Queue -> Seq(TCB)], NEW S \in SUBSET Tid,
         \A i \in Tid : w[i] = <<>>
  PROVE  Emptied(w, S) = w /\ Waiters(w, S) = {}
<1>1. Range(<<>>) = {} /\ Tid \subseteq Queue
  BY DEF Range, Queue
<1>2. \A q \in Queue : Emptied(w, S)[q] = w[q]
  BY <1>1 DEF Emptied
<1>3. Emptied(w, S) = w
  BY <1>2 DEF Emptied
<1>4. QED
  BY <1>1, <1>3 DEF Waiters

(* changeCurrentToTarget swaps the caller with a ready thread.             *)
LEMMA YieldPlaces ==
  ASSUME IInv, NobodyWaits, halt = "none", NEW w, NEW saved,
         ChangeCurrentTo(w, saved)
  PROVE  /\ \E t \in Range(readyList) :
              /\ Running' = {t}
              /\ Range(readyList') = (Range(readyList) \ {t}) \cup {current}
         /\ Range(exitList') = {} /\ wait' = wait
         /\ threadArray' = Released(IdsOf(exitList))
         /\ UNCHANGED <<id, halt>>
<1>1. PICK i \in DOMAIN readyList :
        /\ readyList' = Requeued(Unlinked(i))
        /\ Reap(exitList, wait)
        /\ Resume(readyList[i])
        /\ UNCHANGED <<id, halt>>
  BY DEF ChangeCurrentTo
<1> DEFINE t == readyList[i]
<1>2. /\ t \in Range(readyList)
      /\ Unlinked(i) \in Seq(TCB)
      /\ Range(Unlinked(i)) = Range(readyList) \ {t}
  BY Places, UnlinkList DEF Unlinked
<1>3. Range(readyList') = (Range(readyList) \ {t}) \cup {current}
  BY <1>1, <1>2, Places, AppendList DEF Requeued
<1>4. Running' = {t}
  BY <1>1 DEF Resume, Running
<1>5. Range(exitList') = {}
  BY <1>1 DEF Reap, Range
<1>6. wait' = wait
  BY <1>1, Places, NothingEmptied DEF Reap, NobodyWaits
<1>7. QED
  BY <1>1, <1>2, <1>3, <1>4, <1>5, <1>6 DEF Reap

(* The chunk that thread_create gets is no thread's.                       *)
LEMMA NewChunk ==
  ASSUME IInv, NobodyWaits, halt = "none",
         NEW n \in TCB \ ReapedHeap(exitList, wait)
  PROVE  n \notin Running \cup Range(readyList) \cup Sleepers
<1>1. Named(Everyone({current}, Range(readyList), {},
                     Sets(Emptied(wait, IdsOf(exitList)))),
            ReapedHeap(exitList, wait), Released(IdsOf(exitList)),
            Destroyed(IdsOf(exitList)), id)
  BY ReapedExitList DEF Shape
<1>2. Emptied(wait, IdsOf(exitList)) = wait
  BY Places, NothingEmptied DEF NobodyWaits
<1>3. \A t \in Sleepers : \E q \in Queue : t \in Sets(wait)[q]
  BY InTerms DEF Sleepers
<1>4. Running \cup Range(readyList) \cup Sleepers \subseteq ReapedHeap(exitList, wait)
  BY <1>1, <1>2, <1>3 DEF Named, Everyone, Running
<1>5. QED
  BY <1>4

(* thread_create puts one more thread on the ready list.                   *)
LEMMA CreatePlaces ==
  ASSUME IInv, NobodyWaits, Create
  PROVE  /\ \E n \in TCB, i \in Tid :
              /\ n \notin Running \cup Range(readyList) \cup Sleepers
              /\ Range(readyList') = Range(readyList) \cup {n}
              /\ id' = [id EXCEPT ![n] = i]
              /\ threadArray' = [Released(IdsOf(exitList)) EXCEPT ![i] = 1]
         /\ Range(exitList') = {} /\ wait' = wait
         /\ UNCHANGED <<Running, halt>>
<1>1. /\ halt = "none" /\ exitList' = <<>> /\ UNCHANGED <<current, halt>>
  BY DEF Create, AtUser
<1>2. PICK n \in TCB \ ReapedHeap(exitList, wait), i \in Tid :
        /\ threadArray' = [Released(IdsOf(exitList)) EXCEPT ![i] = 1]
        /\ wait' = [Emptied(wait, IdsOf(exitList)) EXCEPT ![i] = <<>>]
        /\ readyList' = Append(readyList, n)
        /\ id' = [id EXCEPT ![n] = i]
  BY DEF Create
<1>3. n \notin Running \cup Range(readyList) \cup Sleepers
  BY <1>1, NewChunk
<1>4. Range(readyList') = Range(readyList) \cup {n}
  BY <1>2, Places, AppendList
<1>5. wait' = wait
  <2>1. Emptied(wait, IdsOf(exitList)) = wait
    BY Places, NothingEmptied DEF NobodyWaits
  <2>2. QED
    BY <1>2, <2>1, Places DEF NobodyWaits
<1>6. Range(exitList') = {} /\ UNCHANGED Running
  BY <1>1 DEF Range, Running
<1>7. QED
  BY <1>1, <1>2, <1>3, <1>4, <1>5, <1>6

LEMMA CreateFailsPlaces ==
  ASSUME IInv, NobodyWaits, CreateNoMore \/ CreateNoStack
  PROVE  /\ \A t \in Running \cup Range(readyList) \cup Sleepers : id'[t] = id[t]
         /\ Range(exitList') = {} /\ wait' = wait
         /\ UNCHANGED <<Running, readyList, halt>>
<1>1. /\ halt = "none" /\ exitList' = <<>> /\ UNCHANGED <<current, readyList, halt>>
      /\ wait' = Emptied(wait, IdsOf(exitList))
  BY DEF CreateNoMore, CreateNoStack, AtUser
<1>2. PICK n \in TCB \ ReapedHeap(exitList, wait) : id' = [id EXCEPT ![n] = 0]
  BY DEF CreateNoMore, CreateNoStack
<1>3. n \notin Running \cup Range(readyList) \cup Sleepers
  BY <1>1, NewChunk
<1>4. Running \subseteq TCB
  BY Places DEF Running
<1>5. \A t \in Running \cup Range(readyList) \cup Sleepers : id'[t] = id[t]
  BY <1>2, <1>3, <1>4, Places
<1>6. Range(exitList') = {} /\ UNCHANGED Running
  BY <1>1 DEF Range, Running
<1>7. wait' = wait
  BY <1>1, Places, NothingEmptied DEF NobodyWaits
<1>8. QED
  BY <1>1, <1>5, <1>6, <1>7

(* thread_exit: a ready thread runs, the caller is on the exit list or     *)
(* reaped from it with the others.                                         *)
LEMMA ExitPlaces ==
  ASSUME IInv, NobodyWaits, ExitToNew \/ ExitToOld
  PROVE  /\ halt = "none"
         /\ \E t \in Range(readyList) :
              Running' = {t} /\ Range(readyList') = Range(readyList) \ {t}
         /\ \/ /\ Range(exitList') = Range(exitList) \cup {current}
               /\ UNCHANGED threadArray
            \/ /\ Range(exitList') = {}
               /\ threadArray' = Released(IdsOf(Append(exitList, current)))
         /\ wait' = wait
         /\ UNCHANGED <<id, halt>>
<1>1. /\ halt = "none" /\ readyList # <<>> /\ readyList' = Tail(readyList)
      /\ current' = Head(readyList) /\ UNCHANGED <<id, halt>>
  BY DEF ExitToNew, ExitToOld, ExitBegin, AtUser, Resume
<1>2. /\ Head(readyList) \in Range(readyList)
      /\ Range(readyList') = Range(readyList) \ {Head(readyList)}
  BY <1>1, Places, TailList
<1>3. Running' = {Head(readyList)}
  BY <1>1 DEF Running
<1>4. CASE ExitToNew
  BY <1>1, <1>2, <1>3, <1>4, Places DEF ExitToNew
<1>5. CASE ExitToOld
  <2>1. wait' = wait
    BY <1>5, Places, NothingEmptied DEF ExitToOld, Reap, NobodyWaits
  <2>2. Range(exitList') = {} /\ threadArray' = Released(IdsOf(Append(exitList, current)))
    BY <1>5 DEF ExitToOld, Reap, Range
  <2>3. QED
    BY <1>1, <1>2, <1>3, <2>1, <2>2
<1>6. QED
  BY <1>4, <1>5

(* thread_kill takes one thread off the ready list.                        *)
LEMMA KillPlaces ==
  ASSUME IInv, NobodyWaits, NEW w \in Tid, Kill(w)
  PROVE  /\ halt = "none"
         /\ \E t \in Range(readyList) :
              id[t] = w /\ Range(readyList') = Range(readyList) \ {t}
         /\ threadArray' = Released({w})
         /\ wait' = wait
         /\ UNCHANGED <<Running, exitList, id, halt>>
<1>1. /\ halt = "none" /\ threadArray' = Released({w})
      /\ wait' = Emptied(wait, {w})
      /\ UNCHANGED <<current, exitList, id, halt>>
  BY DEF Kill, AtUser
<1>2. PICK i \in DOMAIN readyList : FirstReady(w, i) /\ readyList' = Unlinked(i)
  BY DEF Kill
<1>3. /\ readyList[i] \in Range(readyList) /\ id[readyList[i]] = w
      /\ Range(readyList') = Range(readyList) \ {readyList[i]}
  BY <1>2, Places, UnlinkList DEF Unlinked, FirstReady
<1>4. wait' = wait
  BY <1>1, Places, NothingEmptied DEF NobodyWaits
<1>5. UNCHANGED Running
  BY <1>1 DEF Running
<1>6. QED
  BY <1>1, <1>3, <1>4, <1>5

(* thread_sleep: the caller joins a queue of the program's, a ready thread *)
(* runs.                                                                   *)
LEMMA SleepPlaces ==
  ASSUME IInv, NobodyWaits, halt = "none", NEW q \in UserQueue, NEW saved,
         YieldWait(q, saved)
  PROVE  \/ \E how \in Undefined : Halt(how)
         \/ /\ \E t \in Range(readyList) :
                 Running' = {t} /\ Range(readyList') = Range(readyList) \ {t}
            /\ Range(exitList') = {}
            /\ Sleepers' = Sleepers \cup {current}
            /\ NobodyWaits'
            /\ threadArray' = Released(IdsOf(exitList))
            /\ UNCHANGED <<id, halt>>
<1>1. CASE Halt("use_after_free") \/ Halt("free_running") \/ Halt("null")
  BY <1>1 DEF Undefined
<1>2. CASE /\ readyList # <<>>
           /\ Reap(exitList, Joined(q))
           /\ readyList' = Tail(readyList)
           /\ Resume(Head(readyList))
           /\ UNCHANGED <<id, halt>>
  <2>1. q \in Queue /\ q \notin Tid /\ Tid \subseteq Queue
    BY ThreadsAssumption DEF Queue
  <2>2. /\ Joined(q) \in [Queue -> Seq(TCB)]
        /\ Range(Joined(q)[q]) = Range(wait[q]) \cup {current}
        /\ \A r \in Queue \ {q} : Joined(q)[r] = wait[r]
    <3>1. /\ Append(wait[q], current) \in Seq(TCB)
          /\ Range(Append(wait[q], current)) = Range(wait[q]) \cup {current}
      BY <2>1, Places, AppendList
    <3>2. QED
      BY <2>1, <3>1, Places DEF Joined
  <2>3. \A i \in Tid : Joined(q)[i] = <<>>
    BY <2>1, <2>2 DEF NobodyWaits
  <2>4. wait' = Joined(q)
    BY <1>2, <2>2, <2>3, Places, NothingEmptied DEF Reap
  <2>5. Sleepers' = Waiters(Joined(q), Queue)
    BY <2>4 DEF Sleepers, Waiters, Queue
  <2>6. Waiters(Joined(q), Queue) = Sleepers \cup {current}
    BY <2>1, <2>2 DEF Sleepers, Waiters
  <2>7. NobodyWaits'
    BY <2>3, <2>4 DEF NobodyWaits, Tid
  <2>8. /\ Head(readyList) \in Range(readyList)
        /\ Range(readyList') = Range(readyList) \ {Head(readyList)}
    BY <1>2, Places, TailList
  <2>9. Running' = {Head(readyList)} /\ Range(exitList') = {}
    BY <1>2 DEF Running, Resume, Reap, Range
  <2>10. QED
    BY <1>2, <2>5, <2>6, <2>7, <2>8, <2>9 DEF Reap
<1>3. QED
  BY <1>1, <1>2 DEF YieldWait

(* thread_wakeup moves threads from a queue to the ready list.             *)
LEMMA WakeupPlaces ==
  ASSUME IInv, NobodyWaits, NEW q \in UserQueue, WakeOne(q) \/ WakeAll(q)
  PROVE  /\ halt = "none"
         /\ \E S \in SUBSET Sleepers :
              /\ S # {}
              /\ Range(readyList') = Range(readyList) \cup S
              /\ Sleepers' = Sleepers \ S
         /\ NobodyWaits'
         /\ UNCHANGED <<Running, exitList, threadArray, id, halt>>
<1>1. /\ halt = "none" /\ wait[q] # <<>>
      /\ UNCHANGED <<current, exitList, threadArray, id, halt>>
  BY DEF WakeOne, WakeAll, AtUser
<1>2. q \in Queue /\ q \notin Tid /\ Tid \subseteq Queue
  BY ThreadsAssumption DEF Queue
<1>3. /\ wait[q] \in Seq(TCB) /\ IsInjective(wait[q])
      /\ \A r \in Queue \ {q} : Range(wait[r]) \cap Range(wait[q]) = {}
  BY <1>2, Places, InOnePlace DEF OnePlace
<1>4. Range(wait[q]) \subseteq Sleepers
  BY <1>2 DEF Sleepers, Waiters
(* The threads of S leave the queue q, which becomes s.                    *)
<1>5. ASSUME NEW S \in SUBSET Range(wait[q]), NEW s \in Seq(TCB),
             wait' = [wait EXCEPT ![q] = s], Range(s) = Range(wait[q]) \ S
      PROVE  Sleepers' = Sleepers \ S /\ NobodyWaits'
  <2>1. wait'[q] = s /\ \A r \in Queue \ {q} : wait'[r] = wait[r]
    BY <1>2, <1>5, Places
  <2>2. Sleepers' = Waiters(wait', Queue)
    BY DEF Sleepers, Waiters, Queue
  <2>3. Waiters(wait', Queue) = Sleepers \ S
    BY <1>2, <1>3, <1>5, <2>1 DEF Sleepers, Waiters
  <2>4. NobodyWaits'
    BY <1>2, <2>1 DEF NobodyWaits, Tid
  <2>5. QED
    BY <2>2, <2>3, <2>4
<1>6. CASE WakeOne(q)
  <2> DEFINE h == Head(wait[q])
  <2>1. /\ h \in TCB /\ h \in Range(wait[q])
        /\ Tail(wait[q]) \in Seq(TCB)
        /\ Range(Tail(wait[q])) = Range(wait[q]) \ {h}
    BY <1>1, <1>3, TailList
  <2>2. /\ readyList' = Append(readyList, h)
        /\ wait' = [wait EXCEPT ![q] = Tail(wait[q])]
    BY <1>6 DEF WakeOne, Rest
  <2>3. Range(readyList') = Range(readyList) \cup {h}
    BY <2>1, <2>2, Places, AppendList
  <2>4. {h} \in SUBSET Range(wait[q])
    BY <2>1
  <2> HIDE DEF h
  <2>5. Sleepers' = Sleepers \ {h} /\ NobodyWaits'
    BY <1>5, <2>1, <2>2, <2>4
  <2>6. {h} \in SUBSET Sleepers /\ {h} # {}
    BY <1>4, <2>4
  <2>7. QED
    BY <1>1, <2>3, <2>5, <2>6 DEF Running
<1>7. CASE WakeAll(q)
  <2> DEFINE S == Range(wait[q])
  <2>1. readyList' = readyList \o wait[q] /\ wait' = [wait EXCEPT ![q] = <<>>]
    BY <1>7 DEF WakeAll
  <2>2. Range(readyList') = Range(readyList) \cup S
    BY <1>3, <2>1, Places, SpliceList
  <2>3. /\ <<>> \in Seq(TCB) /\ S \in SUBSET Range(wait[q])
        /\ Range(<<>>) = Range(wait[q]) \ S
    BY DEF Range
  <2>4. S # {}
    BY <1>1, <1>3, RangeType
  <2>5. S \in SUBSET Sleepers
    BY <1>4
  <2> HIDE DEF S
  <2>6. Sleepers' = Sleepers \ S /\ NobodyWaits'
    BY <1>5, <2>1, <2>3
  <2>7. QED
    BY <1>1, <2>2, <2>4, <2>5, <2>6 DEF Running
<1>8. QED
  BY <1>6, <1>7

(* A queue that is made afresh has nobody on it already.                   *)
LEMMA QueueCreatePlaces ==
  ASSUME IInv, NEW q \in UserQueue, QueueCreate(q)
  PROVE  wait' = wait
<1>1. q \in Queue /\ wait[q] \in Seq(TCB) /\ wait \in [Queue -> Seq(TCB)]
  BY Places DEF Queue
<1>2. wait[q] = <<>>
  BY <1>1, QueuesAreSound DEF QueueCreate, QueuesSound
<1>3. QED
  BY <1>1, <1>2 DEF QueueCreate

(* The last thread of the program exits.                                   *)
LEMMA ExitProgramPlaces ==
  ASSUME IInv, ExitProgram
  PROVE  /\ halt = "none" /\ halt' = "exit"
         /\ Range(readyList) = {}
         /\ Running' = {} /\ Range(exitList') = Range(exitList) \cup {current}
         /\ UNCHANGED <<readyList, wait, threadArray, id>>
<1>1. /\ halt = "none" /\ halt' = "exit" /\ readyList = <<>>
      /\ exitList' = Append(exitList, current)
      /\ UNCHANGED <<readyList, wait, threadArray, id>>
  BY DEF ExitProgram, AtUser
<1>2. Range(readyList) = {} /\ Running' = {}
  BY <1>1 DEF Range, Running
<1>3. Range(exitList') = Range(exitList) \cup {current}
  BY <1>1, Places
<1>4. QED
  BY <1>1, <1>2, <1>3
-----------------------------------------------------------------------------
(* The phase of each thread, from the places as sets.                      *)
PhasesIn(run, R, E, W) ==
  [t \in TCB |-> IF t \in run THEN "running"
                 ELSE IF t \in R THEN "ready"
                 ELSE IF t \in E THEN "exited"
                 ELSE IF t \in W THEN "asleep" ELSE "none"]

LEMMA PhasesAre ==
  IInv => /\ Running \cap (Range(readyList) \cup Range(exitList) \cup Sleepers) = {}
          /\ Range(readyList) \cap (Range(exitList) \cup Sleepers) = {}
          /\ Range(exitList) \cap Sleepers = {}
          /\ Running \cup Range(readyList) \cup Range(exitList) \cup Sleepers \subseteq TCB
          /\ [t \in TCB |-> Phase(t)]
               = PhasesIn(Running, Range(readyList), Range(exitList), Sleepers)
<1> SUFFICES ASSUME IInv
             PROVE  /\ Running \cap (Range(readyList) \cup Range(exitList) \cup Sleepers) = {}
                    /\ Range(readyList) \cap (Range(exitList) \cup Sleepers) = {}
                    /\ Range(exitList) \cap Sleepers = {}
                    /\ Running \cup Range(readyList) \cup Range(exitList) \cup Sleepers \subseteq TCB
                    /\ [t \in TCB |-> Phase(t)]
                         = PhasesIn(Running, Range(readyList), Range(exitList), Sleepers)
  OBVIOUS
<1>1. /\ Running \cap (Range(readyList) \cup Range(exitList) \cup Sleepers) = {}
      /\ Range(readyList) \cap (Range(exitList) \cup Sleepers) = {}
      /\ Range(exitList) \cap Sleepers = {}
  BY Places
<1>2. Running \cup Range(readyList) \cup Range(exitList) \cup Sleepers \subseteq TCB
  BY Places DEF Running
<1>3. ASSUME NEW t \in TCB
      PROVE  Phase(t) = PhasesIn(Running, Range(readyList), Range(exitList), Sleepers)[t]
  BY <1>1 DEF Phase, PhasesIn, Sleepers
<1>4. QED
  BY <1>1, <1>2, <1>3 DEF PhasesIn

(* What ThreadLife sees of a state.                                        *)
LEMMA LifeSees ==
  ASSUME IInv
  PROVE  /\ Life!In("ready") = Range(readyList)
         /\ Life!In("exited") = Range(exitList)
         /\ Life!In("asleep") = Sleepers
         /\ \A t \in Running : [x \in TCB |-> Phase(x)][t] = "running"
         /\ \A t \in Range(readyList) : [x \in TCB |-> Phase(x)][t] = "ready"
BY PhasesAre DEF Life!In, PhasesIn

LEMMA InitLife == Init => Life!Init
<1> SUFFICES ASSUME Init PROVE Life!Init
  OBVIOUS
<1>1. /\ IInv /\ current \in TCB /\ halt = "none"
      /\ readyList = <<>> /\ exitList = <<>> /\ wait = [q \in Queue |-> <<>>]
  BY InitIInv DEF Init
<1>2. Range(<<>>) = {}
  BY DEF Range
<1>3. Range(readyList) = {} /\ Range(exitList) = {} /\ Running = {current}
  BY <1>1, <1>2 DEF Running
<1>4. Sleepers = {}
  BY <1>1, <1>2 DEF Sleepers, Waiters
<1>5. [t \in TCB |-> Phase(t)] = [u \in TCB |-> IF u = current THEN "running" ELSE "none"]
  BY <1>1, <1>3, <1>4, PhasesAre DEF PhasesIn
<1>6. QED
  BY <1>1, <1>5 DEF Life!Init

(* Every step of the package is a step of ThreadLife, or changes nothing   *)
(* that ThreadLife sees.                                                   *)
LEMMA NextLife ==
  ASSUME IInv, IInv', NobodyWaits, [Next]_vars, Calls \cap {"wait", "destroy"} = {}
  PROVE  NobodyWaits' /\ [Life!Next]_(Life!vars)
<1> DEFINE R == Range(readyList)
           E == Range(exitList)
           p == [t \in TCB |-> Phase(t)]
           over == halt = "exit"
<1>1. /\ Running \cap (R \cup E \cup Sleepers) = {}
      /\ R \cap (E \cup Sleepers) = {} /\ E \cap Sleepers = {}
      /\ Running \in SUBSET TCB /\ R \in SUBSET TCB
      /\ E \in SUBSET TCB /\ Sleepers \in SUBSET TCB
      /\ p = PhasesIn(Running, R, E, Sleepers)
  BY PhasesAre
<1>2. IInv' => p' = PhasesIn(Running', R', E', Sleepers')
  <2>1. IInv => p = PhasesIn(Running, R, E, Sleepers)
    BY PhasesAre
  <2>2. (IInv => p = PhasesIn(Running, R, E, Sleepers))'
    BY PhasesAre, PTL
  <2>3. QED
    BY <2>2 DEF PhasesIn
<1>3. /\ Life!In("ready") = R /\ Life!In("exited") = E /\ Life!In("asleep") = Sleepers
      /\ \A t \in Running : p[t] = "running"
      /\ \A t \in R : p[t] = "ready"
  BY LifeSees
<1>4. p' = PhasesIn(Running', R', E', Sleepers')
  BY <1>2
<1>5. wait' = wait => NobodyWaits' /\ Sleepers' = Sleepers
  BY DEF NobodyWaits, Tid, Sleepers, Waiters, Queue
<1>6. halt = "none" => Running = {current} /\ current \in TCB /\ ~over
  BY Places DEF Running
<1> HIDE DEF R, E, p
(* Steps that ThreadLife does not see.                                     *)
<1>7. ASSUME Running' = Running, R' = R, E' = E, wait' = wait, over' = over
      PROVE  NobodyWaits' /\ UNCHANGED Life!vars
  <2>1. p' = p
    BY <1>1, <1>4, <1>5, <1>7
  <2>2. QED
    BY <1>5, <1>7, <2>1 DEF Life!vars, p
<1>8. ASSUME NEW how \in Undefined, Halt(how), halt = "none"
      PROVE  NobodyWaits' /\ UNCHANGED Life!vars
  <2>1. how # "exit" /\ how # "none" /\ halt' = how
    BY <1>8 DEF Undefined, Halt
  <2>2. Running' = Running /\ R' = R /\ E' = E /\ wait' = wait
    BY <1>8, <2>1 DEF Halt, Running, R, E
  <2>3. QED
    BY <1>7, <1>8, <2>1, <2>2
<1>9. CASE \/ CreateReturn \/ CreateNoThread \/ WaitBeyond \/ Stopped \/ UNCHANGED vars
           \/ \E q \in UserQueue : SleepCheck(q)
           \/ \E q \in UserQueue : QueueCreate(q)
           \/ \E b \in BOOLEAN : SetInterrupts(b)
  <2>1. ASSUME NEW how \in Undefined, Halt(how) PROVE halt = "none" \/ UNCHANGED vars
    BY <1>9 DEF CreateReturn, CreateNoThread, WaitBeyond, AtUser, Stopped,
       SleepCheck, QueueCreate, SetInterrupts
  <2>2. CASE \E how \in Undefined : Halt(how) /\ halt = "none"
    BY <1>8, <2>2
  <2>3. CASE \E q \in UserQueue : QueueCreate(q)
    <3>1. wait' = wait
      BY <2>3, QueueCreatePlaces
    <3>2. Running' = Running /\ R' = R /\ E' = E /\ over' = over
      BY <2>3 DEF QueueCreate, Running, R, E
    <3>3. QED
      BY <1>7, <3>1, <3>2
  <2>4. CASE UNCHANGED <<current, readyList, exitList, wait, halt>>
    <3>1. Running' = Running /\ R' = R /\ E' = E
      BY <2>4 DEF Running, R, E
    <3>2. QED
      BY <1>7, <2>4, <3>1
  <2>5. CASE CreateReturn
    BY <2>2, <2>4, <2>5 DEF CreateReturn, Undefined
  <2>6. CASE CreateNoThread \/ WaitBeyond
    BY <2>2, <2>6 DEF CreateNoThread, WaitBeyond, AtUser, Undefined
  <2>7. CASE \/ Stopped \/ UNCHANGED vars
             \/ \E q \in UserQueue : SleepCheck(q)
             \/ \E b \in BOOLEAN : SetInterrupts(b)
    BY <2>4, <2>7 DEF Stopped, SleepCheck, SetInterrupts, vars
  <2>8. QED
    BY <1>9, <2>3, <2>5, <2>6, <2>7
(* The switches.                                                           *)
<1>10. ASSUME NEW t \in R, halt = "none"
       PROVE  /\ p[current] = "running" /\ p[t] = "ready" /\ t \in TCB /\ current \in TCB
              /\ PhasesIn({t}, (R \ {t}) \cup {current}, {}, Sleepers)
                   = [Life!Reclaimed(E) EXCEPT ![current] = "ready", ![t] = "running"]
              /\ PhasesIn({t}, R \ {t}, {}, Sleepers \cup {current})
                   = [Life!Reclaimed(E) EXCEPT ![current] = "asleep", ![t] = "running"]
              /\ PhasesIn({t}, R \ {t}, {}, Sleepers)
                   = [Life!Reclaimed(E) EXCEPT ![current] = "none", ![t] = "running"]
              /\ PhasesIn({t}, R \ {t}, E \cup {current}, Sleepers)
                   = [Life!Reclaimed({}) EXCEPT ![current] = "exited", ![t] = "running"]
  <2>1. Life!Reclaimed(E) = [x \in TCB |-> IF x \in E THEN "none" ELSE p[x]]
    BY DEF Life!Reclaimed, p
  <2>2. Life!Reclaimed({}) = p
    BY DEF Life!Reclaimed, p
  <2>3. p = PhasesIn({current}, R, E, Sleepers)
    BY <1>1, <1>6, <1>10
  <2>4. /\ {current} \cap (R \cup E \cup Sleepers) = {}
        /\ R \cap (E \cup Sleepers) = {} /\ E \cap Sleepers = {}
        /\ current \in TCB /\ t \in TCB
    BY <1>1, <1>6, <1>10
  <2>5. PhasesIn({t}, (R \ {t}) \cup {current}, {}, Sleepers)
          = [Life!Reclaimed(E) EXCEPT ![current] = "ready", ![t] = "running"]
    BY <2>1, <2>3, <2>4 DEF PhasesIn
  <2>6. PhasesIn({t}, R \ {t}, {}, Sleepers \cup {current})
          = [Life!Reclaimed(E) EXCEPT ![current] = "asleep", ![t] = "running"]
    BY <2>1, <2>3, <2>4 DEF PhasesIn
  <2>7. PhasesIn({t}, R \ {t}, {}, Sleepers)
          = [Life!Reclaimed(E) EXCEPT ![current] = "none", ![t] = "running"]
    BY <2>1, <2>3, <2>4 DEF PhasesIn
  <2>8. PhasesIn({t}, R \ {t}, E \cup {current}, Sleepers)
          = [Life!Reclaimed({}) EXCEPT ![current] = "exited", ![t] = "running"]
    BY <2>2, <2>3, <2>4 DEF PhasesIn
  <2>9. QED
    BY <1>3, <1>6, <1>10, <2>4, <2>5, <2>6, <2>7, <2>8
<1>11. ASSUME NEW t \in R, halt = "none", over' = over,
              NEW how \in {"ready", "asleep", "exited", "none"},
              NEW S \in SUBSET E,
              p' = [Life!Reclaimed(S) EXCEPT ![current] = how, ![t] = "running"]
       PROVE  Life!Next
  <2>1. Life!Switch(current, t, how)
    BY <1>3, <1>10, <1>11 DEF Life!Switch, p
  <2>2. Life!Yield(current, t) \/ Life!Sleep(current, t) \/ Life!Exit(current, t)
    BY <1>11, <2>1 DEF Life!Yield, Life!Sleep, Life!Exit
  <2>3. t \in TCB /\ current \in TCB
    BY <1>10, <1>11
  <2>4. QED
    BY <1>6, <1>11, <2>2, <2>3 DEF Life!Next
<1>12. CASE YieldAny \/ Preempt \/ \E w \in Tid : YieldTid(w)
  <2>1. PICK w, saved : ChangeCurrentTo(w, saved) /\ halt = "none"
    BY <1>12 DEF YieldAny, Preempt, YieldTid, AtUser
  <2>2. PICK t \in R : Running' = {t} /\ R' = (R \ {t}) \cup {current}
    BY <2>1, YieldPlaces DEF R
  <2>3. E' = {} /\ wait' = wait /\ over' = over
    BY <2>1, YieldPlaces DEF E
  <2>4. p' = [Life!Reclaimed(E) EXCEPT ![current] = "ready", ![t] = "running"]
    BY <1>4, <1>5, <1>10, <2>1, <2>2, <2>3
  <2>5. QED
    BY <1>5, <1>11, <2>1, <2>3, <2>4
<1>13. CASE ExitToNew \/ ExitToOld
  <2>1. halt = "none" /\ wait' = wait /\ over' = over
    BY <1>13, ExitPlaces
  <2>2. PICK t \in R : Running' = {t} /\ R' = R \ {t}
    BY <1>13, ExitPlaces DEF R
  <2>3. CASE E' = E \cup {current}
    <3>1. p' = [Life!Reclaimed({}) EXCEPT ![current] = "exited", ![t] = "running"]
      BY <1>4, <1>5, <1>10, <2>1, <2>2, <2>3
    <3>2. QED
      BY <1>5, <1>11, <2>1, <3>1
  <2>4. CASE E' = {}
    <3>1. p' = [Life!Reclaimed(E) EXCEPT ![current] = "none", ![t] = "running"]
      BY <1>4, <1>5, <1>10, <2>1, <2>2, <2>4
    <3>2. QED
      BY <1>5, <1>11, <2>1, <3>1
  <2>5. QED
    BY <1>13, <2>3, <2>4, ExitPlaces DEF E
<1>14. CASE SleepCommit
  <2>1. pending[current] \in {Idle} \cup [op : {"create"}, arg : TCB]
                                  \cup [op : {"sleep"}, arg : UserQueue]
    BY DEF IInv, TypeOK
  <2>2. /\ pending[current].arg \in UserQueue /\ halt = "none"
        /\ YieldWait(pending[current].arg, "on")
    BY <1>14, <2>1 DEF SleepCommit, Idle
  <2>3. CASE \E how \in Undefined : Halt(how)
    BY <1>8, <2>2, <2>3
  <2>4. CASE /\ \E t \in Range(readyList) :
                  Running' = {t} /\ Range(readyList') = Range(readyList) \ {t}
             /\ Range(exitList') = {}
             /\ Sleepers' = Sleepers \cup {current}
             /\ NobodyWaits'
             /\ UNCHANGED <<id, halt>>
    <3>1. PICK t \in R : Running' = {t} /\ R' = R \ {t}
      BY <2>4 DEF R
    <3>2. E' = {} /\ over' = over
      BY <2>4 DEF E
    <3>3. p' = [Life!Reclaimed(E) EXCEPT ![current] = "asleep", ![t] = "running"]
      BY <1>4, <1>10, <2>2, <2>4, <3>1, <3>2
    <3>4. QED
      BY <1>11, <2>2, <2>4, <3>2, <3>3
  <2>5. QED
    BY <2>2, <2>3, <2>4, SleepPlaces
(* Starting, killing, waking and finishing.                                *)
<1>15. CASE Create
  <2>1. /\ halt = "none" /\ Running' = Running /\ E' = {}
        /\ wait' = wait /\ over' = over
    BY <1>15, CreatePlaces DEF E, Create, AtUser
  <2>2. PICK n \in TCB : n \notin Running \cup R \cup Sleepers /\ R' = R \cup {n}
    BY <1>15, CreatePlaces DEF R
  <2>3. /\ Life!Reclaimed(E) = [x \in TCB |-> IF x \in E THEN "none" ELSE p[x]]
        /\ p' = PhasesIn(Running, R \cup {n}, {}, Sleepers)
    BY <1>4, <1>5, <2>1, <2>2 DEF Life!Reclaimed, p
  <2>4. /\ Life!Reclaimed(E)[n] = "none"
        /\ p' = [Life!Reclaimed(E) EXCEPT ![n] = "ready"]
    BY <1>1, <2>2, <2>3 DEF PhasesIn
  <2>5. Life!Start(n)
    BY <1>3, <2>1, <2>4 DEF Life!Start, p
  <2>6. QED
    BY <1>5, <1>6, <2>1, <2>5 DEF Life!Next
<1>16. CASE CreateNoMore \/ CreateNoStack
  <2>1. /\ halt = "none" /\ Running' = Running /\ R' = R /\ E' = {}
        /\ wait' = wait /\ over' = over
    BY <1>16, CreateFailsPlaces DEF R, E, CreateNoMore, CreateNoStack, AtUser
  <2>2. /\ Life!Reclaimed(E) = [x \in TCB |-> IF x \in E THEN "none" ELSE p[x]]
        /\ p' = PhasesIn(Running, R, {}, Sleepers)
    BY <1>4, <1>5, <2>1 DEF Life!Reclaimed, p
  <2>3. p' = Life!Reclaimed(E)
    BY <1>1, <2>2 DEF PhasesIn
  <2>4. Life!Reclaim
    BY <1>3, <2>1, <2>3 DEF Life!Reclaim, p
  <2>5. QED
    BY <1>5, <1>6, <2>1, <2>4 DEF Life!Next
<1>17. ASSUME NEW w \in Tid, Kill(w) PROVE NobodyWaits' /\ Life!Next
  <2>1. /\ halt = "none" /\ Running' = Running /\ E' = E
        /\ wait' = wait /\ over' = over
    BY <1>17, KillPlaces DEF E
  <2>2. PICK t \in R : R' = R \ {t}
    BY <1>17, KillPlaces DEF R
  <2>3. p' = PhasesIn(Running, R \ {t}, E, Sleepers)
    BY <1>4, <1>5, <2>1, <2>2
  <2>4. p' = [p EXCEPT ![t] = "none"]
    BY <1>1, <2>3 DEF PhasesIn
  <2>5. Life!Kill(t)
    BY <1>3, <2>1, <2>4 DEF Life!Kill, p
  <2>6. QED
    BY <1>1, <1>5, <1>6, <2>1, <2>5 DEF Life!Next
<1>18. ASSUME NEW q \in UserQueue, WakeOne(q) \/ WakeAll(q) PROVE NobodyWaits' /\ Life!Next
  <2>1. /\ halt = "none" /\ Running' = Running /\ E' = E
        /\ NobodyWaits' /\ over' = over
    BY <1>18, WakeupPlaces DEF E
  <2>2. PICK S \in SUBSET Sleepers : S # {} /\ R' = R \cup S /\ Sleepers' = Sleepers \ S
    BY <1>18, WakeupPlaces DEF R
  <2>3. p' = PhasesIn(Running, R \cup S, E, Sleepers \ S)
    BY <1>4, <2>1, <2>2
  <2>4. p' = [t \in TCB |-> IF t \in S THEN "ready" ELSE p[t]]
    BY <1>1, <2>2, <2>3 DEF PhasesIn
  <2>5. Life!Wakeup(S) /\ S \in SUBSET Life!In("asleep")
    BY <1>3, <2>1, <2>2, <2>4 DEF Life!Wakeup, p
  <2>6. QED
    BY <1>6, <2>1, <2>5 DEF Life!Next
<1>19. CASE ExitProgram
  <2>1. /\ halt = "none" /\ R = {} /\ R' = {} /\ Running' = {} /\ E' = E \cup {current}
        /\ wait' = wait /\ over' = TRUE
    BY <1>19, ExitProgramPlaces DEF R, E
  <2>2. p = PhasesIn({current}, {}, E, Sleepers) /\ p' = PhasesIn({}, {}, E \cup {current}, Sleepers)
    BY <1>1, <1>4, <1>5, <1>6, <2>1
  <2>3. p' = [p EXCEPT ![current] = "exited"]
    BY <1>1, <1>6, <2>1, <2>2 DEF PhasesIn
  <2>4. Life!Finish(current)
    BY <1>3, <1>6, <2>1, <2>3 DEF Life!Finish, p
  <2>5. QED
    BY <1>5, <1>6, <2>1, <2>4 DEF Life!Next
<1>20. ~(\E w \in Tid : Wait(w)) /\ ~(\E q \in UserQueue : QueueDestroy(q))
  BY DEF Wait, QueueDestroy, AtUser
<1>21. QED
  BY <1>9, <1>12, <1>13, <1>14, <1>15, <1>16, <1>17, <1>18, <1>19, <1>20 DEF Next

(* The package refines ThreadLife: in a program that does not call         *)
(* thread_wait, nor destroys its queues, every thread lives as thread.h    *)
(* promises, under any interleaving with the timer and any failure of      *)
(* malloc.                                                                 *)
THEOREM LivesAsPromisedHolds ==
  ASSUME Calls \cap {"wait", "destroy"} = {}
  PROVE  Spec => LivesAsPromised
<1>1. Init => NobodyWaits
  BY DEF Init, NobodyWaits, Queue
<1>2. IInv /\ IInv' /\ NobodyWaits /\ [Next]_vars => NobodyWaits' /\ [Life!Next]_(Life!vars)
  BY NextLife
<1>3. QED
  BY <1>1, <1>2, InitLife, Invariance, PTL DEF Spec, LivesAsPromised, Life!Spec
-----------------------------------------------------------------------------
(* The identifiers are conserved by a step that gives the identifiers of G *)
(* back, if the thread of every other one is still known.                  *)
LEMMA StillHeld ==
  ASSUME IdsConserved, NEW G,
         \A i \in Tid : threadArray'[i] = 1 =>
              (threadArray[i] = 1 /\ i \notin G) \/ \E t \in Known' : id'[t] = i,
         \A t \in Known : id[t] \in G \/ (t \in Known' /\ id'[t] = id[t])
  PROVE  IdsConserved'
<1>1. \A i \in Tid : threadArray'[i] = 1 => \E t \in Known' : id'[t] = i
  BY DEF IdsConserved
<1>2. QED
  BY <1>1 DEF IdsConserved, Tid

LEMMA NextConserved ==
  ASSUME IInv, NobodyWaits, IdsConserved, [Next]_vars,
         Calls \cap {"wait", "destroy"} = {}, ~MallocFails
  PROVE  NobodyWaits' /\ IdsConserved'
<1> DEFINE R == Range(readyList)
           E == Range(exitList)
           X == Append(exitList, current)
<1>1. /\ Known = Running \cup R \cup E \cup Sleepers
      /\ Known' = Running' \cup R' \cup E' \cup Sleepers'
  BY DEF Known, Sleepers
<1>2. \A S \in SUBSET Tid : \A i \in Tid :
        Released(S)[i] = 1 => threadArray[i] = 1 /\ i \notin S
  BY DEF Released
<1>3. /\ IdsOf(exitList) \in SUBSET Tid /\ IdsOf(X) \in SUBSET Tid
      /\ \A t \in E : id[t] \in IdsOf(exitList)
      /\ \A t \in E \cup {current} : id[t] \in IdsOf(X)
  BY Places DEF IdsOf
<1>4. wait' = wait => NobodyWaits' /\ Sleepers' = Sleepers
  BY DEF NobodyWaits, Tid, Sleepers, Waiters, Queue
<1>5. halt = "none" => Running = {current} /\ current \in TCB
  BY Places DEF Running
<1> HIDE DEF R, E, X
<1>6. ASSUME \A t \in Known : t \in Known' /\ id'[t] = id[t],
             UNCHANGED threadArray
      PROVE  IdsConserved'
  BY <1>6, StillHeld
<1>7. ASSUME UNCHANGED <<current, readyList, exitList, wait, id, threadArray>>,
             (halt' = "exit") = (halt = "exit")
      PROVE  NobodyWaits' /\ IdsConserved'
  <2>1. Running' = Running /\ R' = R /\ E' = E
    BY <1>7 DEF Running, R, E
  <2>2. QED
    BY <1>1, <1>4, <1>6, <1>7, <2>1
<1>8. ASSUME NEW how \in Undefined, Halt(how), halt = "none"
      PROVE  NobodyWaits' /\ IdsConserved'
  BY <1>7, <1>8 DEF Halt, Undefined
<1>9. CASE YieldAny \/ Preempt \/ \E w \in Tid : YieldTid(w)
  <2>1. PICK w, saved : ChangeCurrentTo(w, saved) /\ halt = "none"
    BY <1>9 DEF YieldAny, Preempt, YieldTid, AtUser
  <2>2. PICK t \in R : Running' = {t} /\ R' = (R \ {t}) \cup {current}
    BY <2>1, YieldPlaces DEF R
  <2>3. E' = {} /\ wait' = wait /\ threadArray' = Released(IdsOf(exitList)) /\ id' = id
    BY <2>1, YieldPlaces DEF E
  <2>4. \A u \in Known : id[u] \in IdsOf(exitList) \/ (u \in Known' /\ id'[u] = id[u])
    BY <1>1, <1>3, <1>4, <1>5, <2>1, <2>2, <2>3
  <2>5. \A i \in Tid : threadArray'[i] = 1 => threadArray[i] = 1 /\ i \notin IdsOf(exitList)
    BY <1>2, <1>3, <2>3
  <2>6. QED
    BY <1>4, <2>3, <2>4, <2>5, StillHeld
<1>10. CASE ExitToNew \/ ExitToOld
  <2>1. halt = "none" /\ wait' = wait /\ id' = id
    BY <1>10, ExitPlaces
  <2>2. PICK t \in R : Running' = {t} /\ R' = R \ {t}
    BY <1>10, ExitPlaces DEF R
  <2>3. CASE E' = E \cup {current} /\ UNCHANGED threadArray
    BY <1>1, <1>4, <1>5, <1>6, <2>1, <2>2, <2>3
  <2>4. CASE E' = {} /\ threadArray' = Released(IdsOf(X))
    <3>1. \A u \in Known : id[u] \in IdsOf(X) \/ (u \in Known' /\ id'[u] = id[u])
      BY <1>1, <1>3, <1>4, <1>5, <2>1, <2>2
    <3>2. \A i \in Tid : threadArray'[i] = 1 => threadArray[i] = 1 /\ i \notin IdsOf(X)
      BY <1>2, <1>3, <2>4
    <3>3. QED
      BY <1>4, <2>1, <3>1, <3>2, StillHeld
  <2>5. QED
    BY <1>10, <2>3, <2>4, ExitPlaces DEF E, X
<1>11. CASE SleepCommit
  <2>1. pending[current] \in {Idle} \cup [op : {"create"}, arg : TCB]
                                  \cup [op : {"sleep"}, arg : UserQueue]
    BY DEF IInv, TypeOK
  <2>2. /\ pending[current].arg \in UserQueue /\ halt = "none"
        /\ YieldWait(pending[current].arg, "on")
    BY <1>11, <2>1 DEF SleepCommit, Idle
  <2>3. CASE \E how \in Undefined : Halt(how)
    BY <1>8, <2>2, <2>3
  <2>4. CASE /\ \E t \in Range(readyList) :
                  Running' = {t} /\ Range(readyList') = Range(readyList) \ {t}
             /\ Range(exitList') = {}
             /\ Sleepers' = Sleepers \cup {current}
             /\ NobodyWaits'
             /\ threadArray' = Released(IdsOf(exitList))
             /\ UNCHANGED <<id, halt>>
    <3>1. PICK t \in R : Running' = {t} /\ R' = R \ {t}
      BY <2>4 DEF R
    <3>2. \A u \in Known : id[u] \in IdsOf(exitList) \/ (u \in Known' /\ id'[u] = id[u])
      BY <1>1, <1>3, <1>5, <2>2, <2>4, <3>1
    <3>3. \A i \in Tid : threadArray'[i] = 1 => threadArray[i] = 1 /\ i \notin IdsOf(exitList)
      BY <1>2, <1>3, <2>4
    <3>4. QED
      BY <2>4, <3>2, <3>3, StillHeld
  <2>5. QED
    BY <2>2, <2>3, <2>4, SleepPlaces
<1>12. CASE Create
  <2>1. halt = "none" /\ Running' = Running /\ E' = {} /\ wait' = wait
    BY <1>12, CreatePlaces DEF E, Create, AtUser
  <2>2. PICK n \in TCB, i \in Tid :
          /\ n \notin Running \cup R \cup Sleepers
          /\ R' = R \cup {n}
          /\ id' = [id EXCEPT ![n] = i]
          /\ threadArray' = [Released(IdsOf(exitList)) EXCEPT ![i] = 1]
    BY <1>12, CreatePlaces DEF R
  <2>3. n \in Known' /\ id'[n] = i
    BY <1>1, <2>2, Places
  <2>4. Running \cup R \cup Sleepers \subseteq TCB
    BY Places DEF Running, R
  <2>5. \A u \in Known : id[u] \in IdsOf(exitList) \/ (u \in Known' /\ id'[u] = id[u])
    <3>1. \A u \in Running \cup R \cup Sleepers : id'[u] = id[u]
      BY <2>2, <2>4, Places
    <3>2. QED
      BY <1>1, <1>3, <1>4, <2>1, <2>2, <3>1
  <2>6. ASSUME NEW j \in Tid, threadArray'[j] = 1
        PROVE  (threadArray[j] = 1 /\ j \notin IdsOf(exitList)) \/ \E t \in Known' : id'[t] = j
    <3>1. CASE j = i
      BY <2>3, <3>1
    <3>2. CASE j # i
      <4>1. Released(IdsOf(exitList))[j] = 1
        BY <2>2, <2>6, <3>2 DEF Released
      <4>2. QED
        BY <1>2, <1>3, <4>1
    <3>3. QED
      BY <3>1, <3>2
  <2>7. QED
    BY <1>4, <2>1, <2>5, <2>6, StillHeld
<1>13. CASE CreateNoMore
  <2>1. /\ halt = "none" /\ Running' = Running /\ R' = R /\ E' = {} /\ wait' = wait
        /\ \A u \in Running \cup R \cup Sleepers : id'[u] = id[u]
    BY <1>13, CreateFailsPlaces DEF R, E, CreateNoMore, AtUser
  <2>2. \A u \in Known : id[u] \in IdsOf(exitList) \/ (u \in Known' /\ id'[u] = id[u])
    BY <1>1, <1>3, <1>4, <2>1
  <2>3. \A i \in Tid : threadArray'[i] = 1 => threadArray[i] = 1 /\ i \notin IdsOf(exitList)
    BY <1>2, <1>3, <1>13 DEF CreateNoMore
  <2>4. QED
    BY <1>4, <2>1, <2>2, <2>3, StillHeld
<1>14. ASSUME NEW w \in Tid, Kill(w) PROVE NobodyWaits' /\ IdsConserved'
  <2>1. /\ halt = "none" /\ Running' = Running /\ E' = E /\ wait' = wait /\ id' = id
        /\ threadArray' = Released({w})
    BY <1>14, KillPlaces DEF E
  <2>2. PICK t \in R : id[t] = w /\ R' = R \ {t}
    BY <1>14, KillPlaces DEF R
  <2>3. \A u \in Known : id[u] \in {w} \/ (u \in Known' /\ id'[u] = id[u])
    BY <1>1, <1>4, <2>1, <2>2
  <2>4. \A i \in Tid : threadArray'[i] = 1 => threadArray[i] = 1 /\ i \notin {w}
    BY <1>2, <2>1
  <2>5. QED
    BY <1>4, <2>1, <2>3, <2>4, StillHeld
<1>15. ASSUME NEW q \in UserQueue, WakeOne(q) \/ WakeAll(q)
       PROVE  NobodyWaits' /\ IdsConserved'
  <2>1. /\ Running' = Running /\ E' = E /\ NobodyWaits' /\ id' = id
        /\ UNCHANGED threadArray
    BY <1>15, WakeupPlaces DEF E
  <2>2. PICK S \in SUBSET Sleepers : R' = R \cup S /\ Sleepers' = Sleepers \ S
    BY <1>15, WakeupPlaces DEF R
  <2>3. QED
    BY <1>1, <1>6, <2>1, <2>2
<1>16. CASE ExitProgram
  <2>1. /\ halt = "none" /\ R' = R /\ E' = E \cup {current} /\ wait' = wait /\ id' = id
        /\ UNCHANGED threadArray
    BY <1>16, ExitProgramPlaces DEF R, E
  <2>2. QED
    BY <1>1, <1>4, <1>5, <1>6, <2>1
<1>17. ASSUME NEW q \in UserQueue, QueueCreate(q) PROVE NobodyWaits' /\ IdsConserved'
  <2>1. wait' = wait
    BY <1>17, QueueCreatePlaces
  <2>2. QED
    BY <1>7, <1>17, <2>1 DEF QueueCreate
<1>18. CASE CreateReturn
  <2>1. CASE Halt("use_after_free")
    BY <1>8, <1>18, <2>1 DEF CreateReturn, Undefined
  <2>2. CASE UNCHANGED <<current, readyList, exitList, wait, id, threadArray, halt>>
    BY <1>7, <2>2
  <2>3. QED
    BY <1>18, <2>1, <2>2 DEF CreateReturn
<1>19. CASE CreateNoThread \/ WaitBeyond
  BY <1>8, <1>19 DEF CreateNoThread, WaitBeyond, AtUser, Undefined
<1>20. CASE \/ Stopped \/ UNCHANGED vars
            \/ \E q \in UserQueue : SleepCheck(q)
            \/ \E b \in BOOLEAN : SetInterrupts(b)
  BY <1>7, <1>20 DEF Stopped, SleepCheck, SetInterrupts, vars
<1>21. /\ ~(\E w \in Tid : Wait(w)) /\ ~(\E q \in UserQueue : QueueDestroy(q))
       /\ ~CreateNoStack
  BY DEF Wait, QueueDestroy, AtUser, CreateNoStack
<1>22. QED
  BY <1>9, <1>10, <1>11, <1>12, <1>13, <1>14, <1>15, <1>16, <1>17, <1>18, <1>19,
     <1>20, <1>21 DEF Next

(* No identifier is lost: one that is taken is held by a thread that will  *)
(* give it back, as long as the program neither calls thread_wait nor      *)
(* destroys its queues and malloc does not fail.                           *)
THEOREM IdsConservedHolds ==
  ASSUME Calls \cap {"wait", "destroy"} = {}, ~MallocFails
  PROVE  Spec => []IdsConserved
<1>1. Init => NobodyWaits /\ IdsConserved
  <2> SUFFICES ASSUME Init PROVE NobodyWaits /\ IdsConserved
    OBVIOUS
  <2>1. NobodyWaits
    BY DEF Init, NobodyWaits, Queue
  <2>2. current \in Known
    BY DEF Init, Known, Running
  <2>3. \A i \in Tid : threadArray[i] = 1 => id[current] = i
    BY DEF Init
  <2>4. QED
    BY <2>1, <2>2, <2>3 DEF IdsConserved
<1>2. IInv /\ NobodyWaits /\ IdsConserved /\ [Next]_vars => NobodyWaits' /\ IdsConserved'
  BY NextConserved
<1>3. QED
  BY <1>1, <1>2, Invariance, PTL DEF Spec
-----------------------------------------------------------------------------
(* Without preemption only the running thread is inside a call, and what   *)
(* it found at its start still holds at its end: the thread that           *)
(* thread_create made is allocated, and thread_sleep has a live queue and  *)
(* a thread to switch to.                                                  *)
CallsUndisturbed ==
  /\ \A t \in TCB : t # current => pending[t] = Idle
  /\ pending[current].op = "create" => pending[current].arg \in heap
  /\ pending[current].op = "sleep" =>
       queue[pending[current].arg] = "live" /\ readyList # <<>>
  /\ halt \notin Undefined

LEMMA NextUndisturbed ==
  ASSUME IInv, IInv', CallsUndisturbed, [Next]_vars,
         "wait" \notin Calls, ~Preemptive, ~MallocFails
  PROVE  CallsUndisturbed'
<1>1. /\ current \in TCB /\ current' \in TCB /\ Idle.op = "none"
      /\ pending \in [TCB -> {Idle} \cup [op : {"create"}, arg : TCB]
                                    \cup [op : {"sleep"}, arg : UserQueue]]
      /\ readyList \in Seq(TCB)
  BY DEF IInv, TypeOK, Idle
(* Nobody is inside a call: one may begin.                                 *)
<1>2. ASSUME \A t \in TCB : pending'[t] = Idle, halt' \notin Undefined
      PROVE  CallsUndisturbed'
  BY <1>1, <1>2 DEF CallsUndisturbed
<1>3. ASSUME pending[current] = Idle, pending' = pending, halt' \notin Undefined
      PROVE  CallsUndisturbed'
  BY <1>1, <1>2, <1>3 DEF CallsUndisturbed
<1>4. ASSUME NEW w, NEW saved, ChangeCurrentTo(w, saved), pending[current] = Idle
      PROVE  CallsUndisturbed'
  BY <1>3, <1>4 DEF ChangeCurrentTo, CallsUndisturbed
<1>5. CASE \/ YieldAny \/ ExitToNew \/ ExitToOld \/ ExitProgram
           \/ \E w \in Tid : YieldTid(w) \/ Kill(w)
           \/ \E q \in UserQueue : WakeOne(q) \/ WakeAll(q) \/ QueueCreate(q) \/ QueueDestroy(q)
           \/ \E b \in BOOLEAN : SetInterrupts(b)
  <2>1. pending[current] = Idle /\ halt = "none"
    BY <1>5 DEF YieldAny, ExitToNew, ExitToOld, ExitBegin, ExitProgram, YieldTid, Kill,
       WakeOne, WakeAll, QueueCreate, QueueDestroy, SetInterrupts, AtUser
  <2>2. CASE YieldAny \/ \E w \in Tid : YieldTid(w)
    BY <1>4, <2>1, <2>2 DEF YieldAny, YieldTid
  <2>3. CASE ExitToNew \/ ExitToOld \/ ExitProgram
    <3>1. pending' = pending /\ halt' \in {"none", "exit"}
      BY <2>1, <2>3 DEF ExitToNew, ExitToOld, ExitBegin, ExitProgram
    <3>2. QED
      BY <1>3, <2>1, <3>1 DEF Undefined
  <2>4. CASE \/ \E w \in Tid : Kill(w)
             \/ \E q \in UserQueue : WakeOne(q) \/ WakeAll(q) \/ QueueCreate(q) \/ QueueDestroy(q)
             \/ \E b \in BOOLEAN : SetInterrupts(b)
    <3>1. pending' = pending /\ halt' = halt
      BY <2>4 DEF Kill, WakeOne, WakeAll, QueueCreate, QueueDestroy, SetInterrupts
    <3>2. QED
      BY <1>3, <2>1, <3>1 DEF Undefined
  <2>5. QED
    BY <1>5, <2>2, <2>3, <2>4
<1>6. CASE Create
  <2>1. PICK n \in TCB \ ReapedHeap(exitList, wait) :
          /\ heap' = ReapedHeap(exitList, wait) \cup {n}
          /\ pending' = [pending EXCEPT ![n] = Idle,
                           ![current] = [op |-> "create", arg |-> n]]
    BY <1>6 DEF Create
  <2>2. pending'[current] = [op |-> "create", arg |-> n]
        /\ \A t \in TCB : t # current => pending'[t] = Idle
    BY <1>1, <2>1 DEF CallsUndisturbed
  <2>3. current' = current /\ halt' \notin Undefined /\ n \in heap'
    BY <1>6, <2>1 DEF Create, AtUser, Undefined
  <2>4. QED
    BY <2>2, <2>3 DEF CallsUndisturbed
<1>7. CASE CreateNoMore
  <2>1. \A t \in TCB : pending[t] = Idle
    BY <1>7 DEF CreateNoMore, AtUser, CallsUndisturbed
  <2>2. \A t \in TCB : pending'[t] = Idle
    BY <1>1, <1>7, <2>1 DEF CreateNoMore
  <2>3. halt' \notin Undefined
    BY <1>7 DEF CreateNoMore, AtUser, Undefined
  <2>4. QED
    BY <1>2, <2>2, <2>3
<1>8. CASE CreateReturn
  <2>1. pending[current].arg \in heap
    BY <1>8 DEF CreateReturn, CallsUndisturbed
  <2>2. pending' = [pending EXCEPT ![current] = Idle] /\ halt' = halt /\ halt = "none"
    BY <1>8, <2>1 DEF CreateReturn
  <2>3. \A t \in TCB : pending'[t] = Idle
    BY <1>1, <2>2 DEF CallsUndisturbed
  <2>4. QED
    BY <1>2, <2>2, <2>3 DEF Undefined
<1>9. CASE SleepCommit
  <2> DEFINE q == pending[current].arg
  <2>1. /\ halt = "none" /\ q \in UserQueue /\ YieldWait(q, "on")
        /\ queue[q] = "live" /\ readyList # <<>>
    BY <1>1, <1>9 DEF SleepCommit, CallsUndisturbed, Idle
  <2> HIDE DEF q
  <2>2. current \in ReapedHeap(exitList, Joined(q))
    <3>1. current \in heap /\ current \notin Range(exitList) /\ current \notin Sleepers
      <4>1. current \in Running /\ Running \subseteq heap
        BY <2>1, InTerms DEF Running, IInv, Shape, Named, Everyone
      <4>2. QED
        BY <4>1, Places
    <3>2. \A i \in Tid : Joined(q)[i] = wait[i] /\ i \in Queue
      BY <2>1, Places, ThreadsAssumption DEF Joined, Queue
    <3>3. current \notin Waiters(Joined(q), IdsOf(exitList))
      BY <3>1, <3>2, Places DEF Waiters, Sleepers
    <3>4. QED
      BY <3>1, <3>3 DEF ReapedHeap
  <2>3. pending' = [pending EXCEPT ![current] = Idle] /\ halt' = halt
    BY <2>1, <2>2 DEF YieldWait
  <2>4. \A t \in TCB : pending'[t] = Idle
    BY <1>1, <2>3 DEF CallsUndisturbed
  <2>5. QED
    BY <1>2, <2>1, <2>3, <2>4 DEF Undefined
<1>10. ASSUME NEW q \in UserQueue, SleepCheck(q) PROVE CallsUndisturbed'
  <2>1. /\ pending' = [pending EXCEPT ![current] = [op |-> "sleep", arg |-> q]]
        /\ queue'[q] = "live" /\ readyList' # <<>>
        /\ current' = current /\ halt' = "none"
    BY <1>10 DEF SleepCheck, AtUser, OtherIsReady
  <2>2. /\ pending'[current] = [op |-> "sleep", arg |-> q]
        /\ \A t \in TCB : t # current => pending'[t] = Idle
    BY <1>1, <2>1 DEF CallsUndisturbed
  <2>3. QED
    BY <2>1, <2>2 DEF CallsUndisturbed, Undefined
<1>11. CASE Stopped \/ UNCHANGED vars
  BY <1>11 DEF Stopped, vars, CallsUndisturbed, Undefined, Idle
<1>12. /\ ~(\E w \in Tid : Wait(w)) /\ ~WaitBeyond /\ ~Preempt
       /\ ~CreateNoStack /\ ~CreateNoThread
  BY DEF Wait, WaitBeyond, AtUser, Preempt, CreateNoStack, CreateNoThread
<1>13. QED
  BY <1>5, <1>6, <1>7, <1>8, <1>9, <1>10, <1>11, <1>12 DEF Next

(* Without preemption, with enough memory and without thread_wait the      *)
(* library never takes a step that C leaves undefined, whatever the        *)
(* program calls, and even if it destroys queues that threads sleep on.    *)
THEOREM NoFaultHolds ==
  ASSUME "wait" \notin Calls, ~Preemptive, ~MallocFails
  PROVE  Spec => []NoFault
<1>1. Init => CallsUndisturbed
  BY DEF Init, CallsUndisturbed, Undefined, Idle
<1>2. IInv /\ IInv' /\ CallsUndisturbed /\ [Next]_vars => CallsUndisturbed'
  BY NextUndisturbed
<1>3. CallsUndisturbed => NoFault
  BY DEF CallsUndisturbed, NoFault
<1>4. QED
  BY <1>1, <1>2, <1>3, Invariance, PTL DEF Spec
=============================================================================
