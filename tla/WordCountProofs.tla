-------------------------- MODULE WordCountProofs --------------------------
(***************************************************************************)
(* The texts that wc does not survive, and that on the others it counts    *)
(* right, for texts of any length, any hash and any sizes of pages and     *)
(* buckets.                                                                *)
(***************************************************************************)
EXTENDS WordCount, ListLemmas, FiniteSetTheorems, FunctionTheorems, TLAPS

(* The table has size \div Ratio buckets, and wc_init never looks further  *)
(* than one character past the text.                                       *)
Scanning ==
  /\ wc_pc \in {"idle", "scan", "built", "printed", "destroyed", "fault"}
  /\ wc_pc = "idle" => head = 0
  /\ wc_pc = "scan" => /\ size \in Nat \ {0}
                       /\ map_size = size \div Ratio
                       /\ head \in 0 .. size + 1

ScanInv == Scanning /\ WcFaultsOnly

(* A text has no bucket only if it is shorter than Ratio.                  *)
LEMMA NoBucket ==
  ASSUME NEW n \in Nat, n \div Ratio = 0
  PROVE  n < Ratio
BY WordCountAssumption, SMT

LEMMA ScanStart == Scanning /\ WcStart => ScanInv'
<1>1. SUFFICES ASSUME Scanning, WcStart PROVE ScanInv'
  OBVIOUS
<1>2. PICK n \in 1 .. MaxText :
        \E text \in [1 .. n -> Char] : word_array' = text /\ map_size' = n \div Ratio
  BY <1>1 DEF WcStart
<1>3. size' = n /\ n \in Nat \ {0}
  BY <1>2, WordCountAssumption DEF size
<1>4. wc_pc' = "scan" /\ head' = 0 /\ map_size' = size' \div Ratio
  BY <1>1, <1>2, <1>3 DEF WcStart, Scanning
<1>5. QED
  BY <1>3, <1>4 DEF ScanInv, Scanning, WcFaultsOnly

(* A turn divides by map_size, and by nothing else.                        *)
LEMMA TurnStep == ScanInv /\ WcTurn => ScanInv'
<1>1. SUFFICES ASSUME ScanInv, WcTurn PROVE ScanInv'
  OBVIOUS
<1>2. /\ wc_pc = "scan" /\ head <= size /\ head' = head + 1
      /\ word_array' = word_array /\ map_size' = map_size /\ size' = size
  BY <1>1 DEF WcTurn, WcUpto, size
<1>3. /\ size \in Nat \ {0} /\ map_size = size \div Ratio /\ head \in 0 .. size + 1
  BY <1>1, <1>2 DEF ScanInv, Scanning
<1>4. head' \in 0 .. size' + 1
  BY <1>2, <1>3
<1>5. CASE WcNoBucket
  <2>1. wc_pc' = "fault" /\ map_size = 0
    BY <1>5 DEF WcNoBucket
  <2>2. size' < Ratio
    BY <1>2, <1>3, <2>1, NoBucket
  <2>3. QED
    BY <2>1, <2>2 DEF ScanInv, Scanning, WcFaultsOnly
<1>6. CASE WcLetter \/ WcNoWord \/ WcWord
  <2>1. wc_pc' = wc_pc
    BY <1>6 DEF WcLetter, WcNoWord, WcWord
  <2>2. QED
    BY <1>2, <1>3, <1>4, <2>1 DEF ScanInv, Scanning, WcFaultsOnly
<1>7. QED
  BY <1>1, <1>5, <1>6 DEF WcTurn

(* The character past the text is met at head = size.                      *)
LEMMA UnmappedStep == ScanInv /\ WcUnmapped => ScanInv'
<1>1. SUFFICES ASSUME ScanInv, WcUnmapped PROVE ScanInv'
  OBVIOUS
<1>2. /\ wc_pc = "scan" /\ head <= size /\ head >= size /\ head % PageSize = 0
      /\ wc_pc' = "fault" /\ size' = size
  BY <1>1 DEF WcUnmapped, Unmapped, WcUpto, size
<1>3. size \in Nat /\ head \in Nat
  BY <1>1, <1>2 DEF ScanInv, Scanning
<1>4. size % PageSize = 0
  BY <1>2, <1>3
<1>5. QED
  BY <1>2, <1>4 DEF ScanInv, Scanning, WcFaultsOnly

(* wc_init survives every text that has at least Ratio characters and does *)
(* not fill its last page: it divides by zero in shorter ones only, and    *)
(* reads behind the mapping only where the text ends with a page.          *)
THEOREM WcFaultsOnlyHolds == WcSpec => []WcFaultsOnly
<1>1. WcInit => ScanInv
  BY DEF WcInit, ScanInv, Scanning, WcFaultsOnly
<1>2. ScanInv /\ [WcNext]_wc_vars => ScanInv'
  <2>1. SUFFICES ASSUME ScanInv, [WcNext]_wc_vars PROVE ScanInv'
    OBVIOUS
  <2>2. CASE WcStart
    BY <2>1, <2>2, ScanStart DEF ScanInv
  <2>3. CASE WcTurn
    BY <2>1, <2>3, TurnStep
  <2>4. CASE WcUnmapped
    BY <2>1, <2>4, UnmappedStep
  <2>5. CASE WcReturn \/ wc_output \/ wc_destroy
    BY <2>1, <2>5 DEF WcReturn, wc_output, wc_destroy, ScanInv, Scanning, WcFaultsOnly
  <2>6. CASE UNCHANGED wc_vars
    BY <2>1, <2>6 DEF wc_vars, ScanInv, Scanning, WcFaultsOnly, size
  <2>7. QED
    BY <2>1, <2>2, <2>3, <2>4, <2>5, <2>6 DEF WcNext, WcStep
<1>3. ScanInv => WcFaultsOnly
  BY DEF ScanInv
<1>4. QED
  BY <1>1, <1>2, <1>3, PTL DEF WcSpec
-----------------------------------------------------------------------------
(* The hash of a word is a natural number.                                 *)
LEMMA HashType == ASSUME NEW w \in Word PROVE hash(w) \in Nat
<1> DEFINE base == 5381 % HashMod
           step == [p \in Nat \X (1 .. Len(w)) |-> (p[1] * 33 + w[p[2]]) % HashMod]
           Hashed(h) == [n \in 0 .. Len(w) |->
                       IF n = 0 THEN 5381 % HashMod ELSE (h[n - 1] * 33 + w[n]) % HashMod]
           hashed == CHOOSE h : h = Hashed(h)
<1>1. Len(w) \in Nat /\ \A n \in 1 .. Len(w) : w[n] \in Nat
  <2>1. Len(w) \in Nat /\ \A n \in 1 .. Len(w) : w[n] \in Letter
    BY DEF Word
  <2>2. QED
    BY <2>1, WordCountAssumption
<1>2. HashMod \in Nat \ {0}
  BY WordCountAssumption
<1>3. base \in Nat
  BY <1>2
<1>4. \A h \in Nat, n \in 1 .. Len(w) : (h * 33 + w[n]) % HashMod \in Nat
  BY <1>1, <1>2
<1>5. step \in [Nat \X (1 .. Len(w)) -> Nat]
  BY <1>4
<1>6. PICK t \in [0 .. Len(w) -> Nat] : Iterates(step, base, Len(w), t)
  <2> HIDE DEF step, base
  <2>1. QED
    BY <1>1, <1>3, <1>5, IteratesExist
<1>7. ASSUME NEW n \in 1 .. Len(w) PROVE t[n] = (t[n - 1] * 33 + w[n]) % HashMod
  <2>1. n - 1 \in 0 .. Len(w) /\ t[n - 1] \in Nat
    <3>1. n - 1 \in 0 .. Len(w)
      BY <1>1
    <3>2. t \in [0 .. Len(w) -> Nat]
      BY <1>6
    <3>3. QED
      BY <3>1, <3>2
  <2>2. t[n] = step[<<t[n - 1], n>>]
    <3> HIDE DEF step, base
    <3>1. QED
      BY <1>6 DEF Iterates
  <2>3. QED
    BY <2>1, <2>2
<1>8. t = Hashed(t)
  BY <1>6, <1>7 DEF Iterates
<1>9. hash(w) = hashed[Len(w)]
  BY DEF hash
<1>10. hashed = Hashed(hashed)
  <2> HIDE DEF Hashed
  <2>1. QED
    BY <1>8, Zenon
<1> HIDE DEF step, base, hashed
<1>11. hashed[Len(w)] \in Nat
  <2> DEFINE T == {n \in Nat : n <= Len(w) => hashed[n] \in Nat}
  <2>1. 0 \in T
    BY <1>1, <1>2, <1>10
  <2>2. ASSUME NEW n \in Nat, n \in T PROVE n + 1 \in T
    <3>1. SUFFICES ASSUME n + 1 <= Len(w) PROVE hashed[n + 1] \in Nat
      OBVIOUS
    <3>2. hashed[n + 1] = (hashed[n] * 33 + w[n + 1]) % HashMod
      BY <1>1, <1>10, <3>1
    <3>3. hashed[n] \in Nat /\ n + 1 \in 1 .. Len(w)
      BY <1>1, <2>2, <3>1
    <3>4. QED
      BY <1>4, <3>2, <3>3
  <2> HIDE DEF T
  <2>3. Len(w) \in T
    BY <1>1, <2>1, <2>2, SetInduction
  <2>4. QED
    BY <2>3 DEF T
<1>12. QED
  BY <1>9, <1>11
-----------------------------------------------------------------------------
(* The words of a text up to a position, for any text.                     *)
LetterAt(text, i) == i \in 1 .. Len(text) /\ text[i] # Space

FromTo(text, i, j) ==
  /\ i \in 1 .. j
  /\ \A k \in i .. j : LetterAt(text, k)
  /\ ~LetterAt(text, i - 1) /\ ~LetterAt(text, j + 1)

EndsIn(text, w, n) ==
  {j \in 1 .. n : \E i \in 1 .. j : FromTo(text, i, j) /\ SubSeq(text, i, j) = w}

LEMMA EndsAreEndsIn ==
  ASSUME NEW w, NEW n
  PROVE  Ends(w, n) = EndsIn(word_array, w, n)
BY DEF Ends, WordFrom, IsLetter, size, EndsIn, FromTo, LetterAt

(* wc_init has read h characters; the last h - s are letters, and before   *)
(* them there is none.                                                     *)
Reading(text, s, h) ==
  /\ h \in 0 .. Len(text) + 1
  /\ s \in 0 .. h
  /\ ~LetterAt(text, s)
  /\ \A k \in s + 1 .. h : LetterAt(text, k)

LEMMA EndsFinite ==
  ASSUME NEW text, NEW w, NEW n \in Nat
  PROVE  EndsIn(text, w, n) \subseteq 1 .. n /\ IsFiniteSet(EndsIn(text, w, n))
<1>1. EndsIn(text, w, n) \subseteq 1 .. n
  BY DEF EndsIn
<1>2. IsFiniteSet(1 .. n)
  BY FS_Interval
<1>3. QED
  BY <1>1, <1>2, FS_Subset

(* Nothing ends at a position that holds no letter.                        *)
LEMMA NothingEnds ==
  ASSUME NEW text, NEW n \in Nat, ~LetterAt(text, n + 1), NEW w
  PROVE  EndsIn(text, w, n + 1) = EndsIn(text, w, n)
<1>1. ASSUME NEW i \in 1 .. n + 1, FromTo(text, i, n + 1) PROVE FALSE
  BY <1>1 DEF FromTo
<1>2. \A j \in 1 .. n + 1 : j = n + 1 \/ j \in 1 .. n
  OBVIOUS
<1>3. 1 .. n \subseteq 1 .. n + 1
  OBVIOUS
<1>4. QED
  BY <1>1, <1>2, <1>3 DEF EndsIn

(* The word that has just been read is the one that ends at h.             *)
OneMoreEnd(text, s, h, w) ==
  /\ EndsIn(text, w, h + 1) = IF w = SubSeq(text, s + 1, h)
                              THEN EndsIn(text, w, s) \cup {h}
                              ELSE EndsIn(text, w, s)
  /\ h \notin EndsIn(text, w, s)

LEMMA WordEnds ==
  ASSUME NEW text \in Seq(Char), NEW h \in Nat, NEW s \in Nat,
         Reading(text, s, h), s < h, ~LetterAt(text, h + 1), NEW w
  PROVE  OneMoreEnd(text, s, h, w) /\ SubSeq(text, s + 1, h) \in Word
<1>1. FromTo(text, s + 1, h)
  BY DEF Reading, FromTo
<1>2. ASSUME NEW j \in 1 .. h + 1, NEW i \in 1 .. j, FromTo(text, i, j), j > s
      PROVE  j = h /\ i = s + 1
  <2>1. LetterAt(text, j) /\ ~LetterAt(text, j + 1)
    BY <1>2 DEF FromTo
  <2>2. j # h + 1
    BY <2>1
  <2>3. j = h
    BY <1>2, <2>1, <2>2 DEF Reading
  <2>4. CASE i < s + 1
    <3>1. i <= s /\ s \in i .. j
      BY <1>2, <2>4
    <3>2. QED
      BY <1>2, <3>1 DEF FromTo, Reading
  <2>5. CASE i > s + 1
    <3>1. i - 1 \in s + 1 .. h
      BY <2>3, <2>5
    <3>2. QED
      BY <1>2, <3>1 DEF FromTo, Reading
  <2>6. QED
    BY <2>3, <2>4, <2>5
<1>3. EndsIn(text, w, h + 1) = IF w = SubSeq(text, s + 1, h)
                               THEN EndsIn(text, w, s) \cup {h}
                               ELSE EndsIn(text, w, s)
  <2>1. ASSUME NEW j \in EndsIn(text, w, h + 1)
        PROVE  j \in EndsIn(text, w, s) \/ (j = h /\ w = SubSeq(text, s + 1, h))
    <3>1. j \in 1 .. h + 1
      BY DEF EndsIn
    <3>2. PICK i \in 1 .. j : FromTo(text, i, j) /\ SubSeq(text, i, j) = w
      BY DEF EndsIn
    <3>3. CASE j > s
      BY <1>2, <3>1, <3>2, <3>3
    <3>4. CASE j <= s
      BY <3>1, <3>2, <3>4 DEF EndsIn
    <3>5. QED
      BY <3>1, <3>3, <3>4
  <2>2. EndsIn(text, w, s) \subseteq EndsIn(text, w, h + 1)
    <3>1. 1 .. s \subseteq 1 .. h + 1
      OBVIOUS
    <3>2. QED
      BY <3>1 DEF EndsIn
  <2>3. w = SubSeq(text, s + 1, h) => h \in EndsIn(text, w, h + 1)
    <3>1. s + 1 \in 1 .. h /\ h \in 1 .. h + 1
      OBVIOUS
    <3>2. QED
      BY <1>1, <3>1 DEF EndsIn
  <2>4. QED
    BY <2>1, <2>2, <2>3
<1>4. h \notin EndsIn(text, w, s)
  BY DEF EndsIn
<1>5. SubSeq(text, s + 1, h) \in Word
  <2>1. h <= Len(text) /\ Len(text) \in Nat
    BY DEF Reading, LetterAt
  <2>2. \A k \in s + 1 .. h : text[k] \in Letter
    BY <2>1 DEF Reading, LetterAt, Char
  <2>3. \A k \in 1 .. h - s : text[s + k] \in Letter
    <3>1. \A k \in 1 .. h - s : s + k \in s + 1 .. h
      OBVIOUS
    <3>2. QED
      BY <2>2, <3>1
  <2>4. SubSeq(text, s + 1, h) = [k \in 1 .. h - s |-> text[s + k]]
    BY <2>1
  <2>5. [k \in 1 .. h - s |-> text[s + k]] \in Seq(Letter)
    BY <2>3
  <2>6. QED
    BY <2>4, <2>5 DEF Word
<1>6. QED
  BY <1>3, <1>4, <1>5 DEF OneMoreEnd
-----------------------------------------------------------------------------
(* The table holds each word that has ended so far, once, in the chain of  *)
(* its hash, with the number of its ends.                                  *)
HoldsEnds(text, n, d) ==
  /\ EndsIn(text, d.string, n) # {}
  /\ d.val = Cardinality(EndsIn(text, d.string, n))

TableOf(text, n, table, m) ==
  /\ table \in [0 .. m - 1 -> Seq(Data)]
  /\ \A b \in 0 .. m - 1 : \A k \in 1 .. Len(table[b]) :
       hash(table[b][k].string) % m = b /\ HoldsEnds(text, n, table[b][k])
  /\ \A b \in 0 .. m - 1 : \A k, l \in 1 .. Len(table[b]) :
       table[b][k].string = table[b][l].string => k = l
  /\ \A w : EndsIn(text, w, n) # {} =>
       \E b \in 0 .. m - 1 : \E k \in 1 .. Len(table[b]) : table[b][k].string = w

LEMMA SameEnds ==
  ASSUME NEW text, NEW n, NEW o, NEW table, NEW m,
         \A w : EndsIn(text, w, o) = EndsIn(text, w, n), TableOf(text, n, table, m)
  PROVE  TableOf(text, o, table, m)
BY DEF TableOf, HoldsEnds

(* The count of one node of a chain goes up.                               *)
CountedUp(chain, k) == [chain EXCEPT ![k].val = @ + 1]

LEMMA CountUp ==
  ASSUME NEW chain \in Seq(Data), NEW k \in 1 .. Len(chain)
  PROVE  /\ CountedUp(chain, k) \in Seq(Data)
         /\ Len(CountedUp(chain, k)) = Len(chain)
         /\ \A l \in 1 .. Len(chain) : l # k => CountedUp(chain, k)[l] = chain[l]
         /\ CountedUp(chain, k)[k].string = chain[k].string
         /\ CountedUp(chain, k)[k].val = chain[k].val + 1
<1>1. chain[k] \in Data /\ \A l \in 1 .. Len(chain) : chain[l] \in Data
  OBVIOUS
<1> DEFINE d == [chain[k] EXCEPT !.val = @ + 1]
           longer == CountedUp(chain, k)
<1>2. d \in Data /\ d.string = chain[k].string /\ d.val = chain[k].val + 1
  BY <1>1 DEF Data
<1>3. longer = [chain EXCEPT ![k] = d]
  BY DEF CountedUp
<1> HIDE DEF d, longer
<1>4. longer \in Seq(Data) /\ Len(longer) = Len(chain)
  BY <1>2, <1>3, ExceptSeq
<1>5. longer[k] = d /\ \A l \in 1 .. Len(chain) : l # k => longer[l] = chain[l]
  BY <1>3
<1>6. QED
  BY <1>2, <1>4, <1>5 DEF longer

(* A further occurrence of a word that is in the table.                    *)
LEMMA CountAgain ==
  ASSUME NEW text \in Seq(Char), NEW h \in Nat, NEW s \in Nat,
         Reading(text, s, h), s < h, ~LetterAt(text, h + 1),
         NEW m \in Nat \ {0}, NEW table, TableOf(text, s, table, m),
         NEW b \in 0 .. m - 1, b = hash(SubSeq(text, s + 1, h)) % m,
         NEW k \in 1 .. Len(table[b]), table[b][k].string = SubSeq(text, s + 1, h)
  PROVE  TableOf(text, h + 1,
                 [table EXCEPT ![b] = CountedUp(table[b], k)], m)
<1> DEFINE w == SubSeq(text, s + 1, h)
           chain == table[b]
           longer == CountedUp(chain, k)
           new == [table EXCEPT ![b] = longer]
<1>1. /\ table \in [0 .. m - 1 -> Seq(Data)]
      /\ \A c \in 0 .. m - 1 : \A l \in 1 .. Len(table[c]) :
           hash(table[c][l].string) % m = c /\ HoldsEnds(text, s, table[c][l])
      /\ \A c \in 0 .. m - 1 : \A l, j \in 1 .. Len(table[c]) :
           table[c][l].string = table[c][j].string => l = j
      /\ \A v : EndsIn(text, v, s) # {} =>
           \E c \in 0 .. m - 1 : \E l \in 1 .. Len(table[c]) : table[c][l].string = v
  BY DEF TableOf
<1>2. chain \in Seq(Data) /\ chain[k] \in Data /\ chain[k].string = w
  BY <1>1
<1>3. /\ longer \in Seq(Data)
      /\ Len(longer) = Len(chain)
      /\ \A l \in 1 .. Len(chain) : l # k => longer[l] = chain[l]
      /\ longer[k].string = w /\ longer[k].val = chain[k].val + 1
  <2> HIDE DEF chain, w
  <2>1. k \in 1 .. Len(chain)
    BY DEF chain
  <2>2. QED
    BY <1>2, <2>1, CountUp
<1>4. /\ \A v : v # w => EndsIn(text, v, h + 1) = EndsIn(text, v, s)
      /\ EndsIn(text, w, h + 1) = EndsIn(text, w, s) \cup {h}
      /\ h \notin EndsIn(text, w, s)
  <2>1. ASSUME NEW v
        PROVE  /\ EndsIn(text, v, h + 1) = IF v = w THEN EndsIn(text, v, s) \cup {h}
                                           ELSE EndsIn(text, v, s)
               /\ h \notin EndsIn(text, v, s)
    <3>1. OneMoreEnd(text, s, h, v)
      BY WordEnds
    <3>2. QED
      BY <3>1 DEF OneMoreEnd
  <2> HIDE DEF w
  <2>2. QED
    BY <2>1
<1>5. HoldsEnds(text, h + 1, longer[k])
  <2>1. HoldsEnds(text, s, chain[k]) /\ IsFiniteSet(EndsIn(text, w, s))
    BY <1>1, EndsFinite
  <2> HIDE DEF w, chain, longer
  <2>2. Cardinality(EndsIn(text, w, h + 1)) = Cardinality(EndsIn(text, w, s)) + 1
    BY <1>4, <2>1, FS_AddElement
  <2>3. QED
    BY <1>2, <1>3, <1>4, <2>1, <2>2 DEF HoldsEnds
<1>6. /\ new \in [0 .. m - 1 -> Seq(Data)]
      /\ new[b] = longer
      /\ \A c \in 0 .. m - 1 : c # b => new[c] = table[c]
  <2> HIDE DEF longer
  <2>1. QED
    BY <1>1, <1>3
<1> HIDE DEF w, chain, longer, new
<1>7. ASSUME NEW c \in 0 .. m - 1
      PROVE  /\ Len(new[c]) = Len(table[c])
             /\ \A l \in 1 .. Len(table[c]) : new[c][l].string = table[c][l].string
  BY <1>2, <1>3, <1>6 DEF chain
<1>8. ASSUME NEW c \in 0 .. m - 1, NEW l \in 1 .. Len(table[c])
      PROVE  HoldsEnds(text, h + 1, new[c][l])
  <2>1. CASE c = b /\ l = k
    BY <1>5, <1>6, <2>1
  <2>2. CASE ~(c = b /\ l = k)
    <3>1. new[c][l] = table[c][l]
      BY <1>3, <1>6, <2>2 DEF chain
    <3>2. table[c][l].string # w
      <4>1. SUFFICES ASSUME table[c][l].string = w PROVE FALSE
        OBVIOUS
      <4>2. hash(table[c][l].string) % m = c
        BY <1>1, Zenon
      <4>3. c = b
        BY <4>1, <4>2 DEF w
      <4>4. \A j, i \in 1 .. Len(table[b]) : table[b][j].string = table[b][i].string => j = i
        BY <1>1, Zenon
      <4>5. table[b][l].string = table[b][k].string /\ l \in 1 .. Len(table[b])
        BY <1>2, <4>1, <4>3 DEF chain
      <4>6. l = k
        BY <4>4, <4>5, Zenon
      <4>7. QED
        BY <2>2, <4>3, <4>6
    <3>3. HoldsEnds(text, s, table[c][l])
      BY <1>1
    <3>4. QED
      BY <1>4, <3>1, <3>2, <3>3 DEF HoldsEnds
  <2>3. QED
    BY <2>1, <2>2
<1>9. ASSUME NEW v, EndsIn(text, v, h + 1) # {}
      PROVE  \E c \in 0 .. m - 1 : \E l \in 1 .. Len(table[c]) : table[c][l].string = v
  BY <1>1, <1>2, <1>4, <1>9 DEF chain
<1>10. TableOf(text, h + 1, new, m)
  <2>1. ASSUME NEW c \in 0 .. m - 1, NEW l \in 1 .. Len(new[c])
        PROVE  /\ l \in 1 .. Len(table[c])
               /\ new[c][l].string = table[c][l].string
               /\ hash(new[c][l].string) % m = c
               /\ HoldsEnds(text, h + 1, new[c][l])
    <3>1. l \in 1 .. Len(table[c])
      BY <1>7
    <3>2. new[c][l].string = table[c][l].string /\ HoldsEnds(text, h + 1, new[c][l])
      BY <1>7, <1>8, <3>1
    <3>3. hash(table[c][l].string) % m = c
      BY <1>1, <3>1, Zenon
    <3>4. QED
      BY <3>1, <3>2, <3>3
  <2>2. ASSUME NEW c \in 0 .. m - 1,
               NEW l \in 1 .. Len(new[c]), NEW j \in 1 .. Len(new[c]),
               new[c][l].string = new[c][j].string
        PROVE  l = j
    <3>1. /\ l \in 1 .. Len(table[c]) /\ j \in 1 .. Len(table[c])
          /\ table[c][l].string = table[c][j].string
      BY <2>1, <2>2
    <3>2. \A x, y \in 1 .. Len(table[c]) : table[c][x].string = table[c][y].string => x = y
      BY <1>1, Zenon
    <3>3. QED
      BY <3>1, <3>2, Zenon
  <2>3. ASSUME NEW v, EndsIn(text, v, h + 1) # {}
        PROVE  \E c \in 0 .. m - 1 : \E l \in 1 .. Len(new[c]) : new[c][l].string = v
    <3>1. PICK c \in 0 .. m - 1 : \E l \in 1 .. Len(table[c]) : table[c][l].string = v
      BY <1>9, <2>3
    <3>2. PICK l \in 1 .. Len(table[c]) : table[c][l].string = v
      BY <3>1
    <3>3. l \in 1 .. Len(new[c]) /\ new[c][l].string = v
      BY <1>7, <3>2
    <3>4. QED
      BY <3>3
  <2>4. QED
    BY <1>6, <2>1, <2>2, <2>3 DEF TableOf
<1>11. QED
  BY <1>10 DEF new, longer, chain

(* The first occurrence of a word: a node at the end of its chain.         *)
LEMMA CountFirst ==
  ASSUME NEW text \in Seq(Char), NEW h \in Nat, NEW s \in Nat,
         Reading(text, s, h), s < h, ~LetterAt(text, h + 1),
         NEW m \in Nat \ {0}, NEW table, TableOf(text, s, table, m),
         NEW b \in 0 .. m - 1, b = hash(SubSeq(text, s + 1, h)) % m,
         \A k \in 1 .. Len(table[b]) : table[b][k].string # SubSeq(text, s + 1, h)
  PROVE  TableOf(text, h + 1,
                 [table EXCEPT ![b] = Append(table[b],
                    [string |-> SubSeq(text, s + 1, h), val |-> 1])], m)
<1> DEFINE w == SubSeq(text, s + 1, h)
           d == [string |-> w, val |-> 1]
           chain == table[b]
           longer == Append(chain, d)
           new == [table EXCEPT ![b] = longer]
<1>1. /\ table \in [0 .. m - 1 -> Seq(Data)]
      /\ \A c \in 0 .. m - 1 : \A l \in 1 .. Len(table[c]) :
           hash(table[c][l].string) % m = c /\ HoldsEnds(text, s, table[c][l])
      /\ \A c \in 0 .. m - 1 : \A l, j \in 1 .. Len(table[c]) :
           table[c][l].string = table[c][j].string => l = j
      /\ \A v : EndsIn(text, v, s) # {} =>
           \E c \in 0 .. m - 1 : \E l \in 1 .. Len(table[c]) : table[c][l].string = v
  BY DEF TableOf
<1>2. /\ \A v : /\ EndsIn(text, v, h + 1) = IF v = w THEN EndsIn(text, v, s) \cup {h}
                                            ELSE EndsIn(text, v, s)
                /\ h \notin EndsIn(text, v, s)
      /\ w \in Word
  <2>1. ASSUME NEW v
        PROVE  OneMoreEnd(text, s, h, v) /\ w \in Word
    BY WordEnds
  <2> HIDE DEF w
  <2>2. QED
    BY <2>1 DEF OneMoreEnd, w
<1>3. d \in Data /\ d.string = w /\ d.val = 1
  BY <1>2 DEF Data
<1>4. ASSUME NEW c \in 0 .. m - 1, NEW l \in 1 .. Len(table[c])
      PROVE  table[c][l].string # w
  <2>1. SUFFICES ASSUME table[c][l].string = w PROVE FALSE
    OBVIOUS
  <2>2. c = b
    BY <1>1, <2>1
  <2>3. QED
    BY <2>1, <2>2
<1> HIDE DEF w, d
<1>5. /\ longer \in Seq(Data)
      /\ Len(longer) = Len(chain) + 1
      /\ \A l \in 1 .. Len(chain) : longer[l] = chain[l]
      /\ longer[Len(chain) + 1] = d
      /\ Len(chain) \in Nat
  <2>1. chain \in Seq(Data)
    BY <1>1
  <2> HIDE DEF chain
  <2>2. QED
    BY <1>3, <2>1, AppendProperties
<1>6. HoldsEnds(text, h + 1, d)
  <2>1. EndsIn(text, w, s) = {}
    BY <1>1, <1>4
  <2>2. EndsIn(text, w, h + 1) = {h}
    BY <1>2, <2>1
  <2>3. Cardinality({h}) = 1
    BY FS_Singleton
  <2>4. QED
    BY <1>3, <2>2, <2>3 DEF HoldsEnds
<1>7. /\ new \in [0 .. m - 1 -> Seq(Data)]
      /\ new[b] = longer
      /\ \A c \in 0 .. m - 1 : c # b => new[c] = table[c]
  <2> HIDE DEF longer
  <2>1. QED
    BY <1>1, <1>5
<1> HIDE DEF chain, longer, new
<1>8. ASSUME NEW c \in 0 .. m - 1, NEW l \in 1 .. Len(new[c])
      PROVE  \/ c = b /\ l = Len(chain) + 1 /\ new[c][l] = d
             \/ l \in 1 .. Len(table[c]) /\ new[c][l] = table[c][l]
  <2>1. CASE c = b
    <3>1. l = Len(chain) + 1 \/ l \in 1 .. Len(chain)
      BY <1>5, <1>7, <2>1
    <3>2. QED
      BY <1>5, <1>7, <2>1, <3>1 DEF chain
  <2>2. QED
    BY <1>7, <2>1
<1>9. ASSUME NEW c \in 0 .. m - 1, NEW l \in 1 .. Len(table[c])
      PROVE  l \in 1 .. Len(new[c]) /\ new[c][l] = table[c][l]
  <2>1. CASE c = b
    <3>1. l \in 1 .. Len(chain)
      BY <2>1 DEF chain
    <3>2. l \in 1 .. Len(longer) /\ longer[l] = chain[l]
      BY <1>5, <3>1
    <3>3. QED
      BY <1>7, <2>1, <3>2 DEF chain
  <2>2. QED
    BY <1>7, <2>1
<1>10. ASSUME NEW c \in 0 .. m - 1, NEW l \in 1 .. Len(table[c])
       PROVE  /\ hash(table[c][l].string) % m = c
              /\ HoldsEnds(text, h + 1, table[c][l])
  <2>1. hash(table[c][l].string) % m = c /\ HoldsEnds(text, s, table[c][l])
    BY <1>1
  <2>2. EndsIn(text, table[c][l].string, h + 1) = EndsIn(text, table[c][l].string, s)
    BY <1>2, <1>4
  <2>3. QED
    BY <2>1, <2>2 DEF HoldsEnds
<1>11. ASSUME NEW c \in 0 .. m - 1, NEW l \in 1 .. Len(new[c])
       PROVE  hash(new[c][l].string) % m = c /\ HoldsEnds(text, h + 1, new[c][l])
  <2>1. CASE c = b /\ l = Len(chain) + 1 /\ new[c][l] = d
    <3>1. hash(w) % m = b
      BY DEF w
    <3>2. QED
      BY <1>3, <1>6, <2>1, <3>1
  <2>2. CASE l \in 1 .. Len(table[c]) /\ new[c][l] = table[c][l]
    BY <1>10, <2>2
  <2>3. QED
    BY <1>8, <2>1, <2>2
<1>12. ASSUME NEW c \in 0 .. m - 1,
              NEW l \in 1 .. Len(new[c]), NEW j \in 1 .. Len(new[c]),
              new[c][l].string = new[c][j].string
       PROVE  l = j
  <2>1. ASSUME NEW i \in 1 .. Len(new[c])
        PROVE  \/ c = b /\ i = Len(chain) + 1 /\ new[c][i].string = w
               \/ /\ i \in 1 .. Len(table[c]) /\ new[c][i].string = table[c][i].string
                  /\ new[c][i].string # w
    <3>1. CASE c = b /\ i = Len(chain) + 1 /\ new[c][i] = d
      BY <1>3, <3>1
    <3>2. CASE i \in 1 .. Len(table[c]) /\ new[c][i] = table[c][i]
      <4>1. table[c][i].string # w
        BY <1>4, <3>2
      <4>2. QED
        BY <3>2, <4>1
    <3>3. QED
      BY <1>8, <3>1, <3>2
  <2>2. CASE l \in 1 .. Len(table[c]) /\ j \in 1 .. Len(table[c])
             /\ table[c][l].string = table[c][j].string
    BY <1>1, <2>2
  <2>3. QED
    BY <1>12, <2>1, <2>2
<1>13. ASSUME NEW v, EndsIn(text, v, h + 1) # {}
       PROVE  \E c \in 0 .. m - 1 : \E l \in 1 .. Len(new[c]) : new[c][l].string = v
  <2>1. CASE v = w
    <3>1. Len(chain) + 1 \in 1 .. Len(new[b]) /\ new[b][Len(chain) + 1].string = v
      BY <1>3, <1>5, <1>7, <2>1
    <3>2. QED
      BY <3>1
  <2>2. CASE v # w
    <3>1. EndsIn(text, v, s) # {}
      BY <1>2, <1>13, <2>2
    <3>2. PICK c \in 0 .. m - 1 : \E l \in 1 .. Len(table[c]) : table[c][l].string = v
      BY <1>1, <3>1
    <3>3. PICK l \in 1 .. Len(table[c]) : table[c][l].string = v
      BY <3>2
    <3>4. QED
      BY <1>9, <3>3
  <2>3. QED
    BY <2>1, <2>2
<1>14. TableOf(text, h + 1, new, m)
  BY <1>7, <1>11, <1>12, <1>13 DEF TableOf
<1>15. QED
  BY <1>14 DEF new, longer, chain, d, w
-----------------------------------------------------------------------------
(* Sequences put one behind the other, one at a time.                      *)
LEMMA FlattenIterates ==
  ASSUME NEW S, NEW seqs \in Seq(Seq(S))
  PROVE  \E t \in [0 .. Len(seqs) -> Seq(S)] :
           /\ t[0] = <<>>
           /\ \A i \in 1 .. Len(seqs) : t[i] = t[i - 1] \o seqs[i]
           /\ FlattenSeq(seqs) = t[Len(seqs)]
<1> DEFINE n == Len(seqs)
           step == [p \in Seq(S) \X (1 .. n) |-> p[1] \o seqs[p[2]]]
           Flattened(h) == [i \in 1 .. n |-> IF i = 1 THEN seqs[i] ELSE h[i - 1] \o seqs[i]]
           flatten == CHOOSE h : h = Flattened(h)
<1>1. n \in Nat /\ \A i \in 1 .. n : seqs[i] \in Seq(S)
  OBVIOUS
<1>2. step \in [Seq(S) \X (1 .. n) -> Seq(S)]
  <2>1. \A p \in Seq(S) \X (1 .. n) : p[1] \o seqs[p[2]] \in Seq(S)
    BY <1>1, ConcatProperties
  <2>2. QED
    BY <2>1
<1>3. PICK t \in [0 .. n -> Seq(S)] : Iterates(step, <<>>, n, t)
  <2>1. <<>> \in Seq(S)
    OBVIOUS
  <2> HIDE DEF step, n
  <2>2. QED
    BY <1>1, <1>2, <2>1, IteratesExist
<1>4. ASSUME NEW i \in 1 .. n PROVE t[i] = t[i - 1] \o seqs[i]
  <2>1. i - 1 \in 0 .. n /\ t[i - 1] \in Seq(S)
    <3> HIDE DEF n
    <3>1. i - 1 \in 0 .. n
      BY <1>1
    <3>2. QED
      BY <1>3, <3>1
  <2>2. t[i] = step[<<t[i - 1], i>>]
    <3> HIDE DEF step, n
    <3>1. QED
      BY <1>3 DEF Iterates
  <2>3. QED
    BY <2>1, <2>2
<1>5. t[0] = <<>>
  <2> HIDE DEF step, n
  <2>1. QED
    BY <1>3 DEF Iterates
<1>6. FlattenSeq(seqs) = IF n = 0 THEN seqs ELSE flatten[n]
  BY DEF FlattenSeq
<1>7. CASE n = 0
  <2>1. seqs = <<>>
    BY <1>7
  <2>2. FlattenSeq(seqs) = t[n]
    BY <1>5, <1>6, <1>7, <2>1
  <2>3. QED
    BY <1>3, <1>4, <1>5, <2>2
<1>8. CASE n # 0
  <2> DEFINE u == [i \in 1 .. n |-> t[i]]
  <2>1. \A i \in 1 .. n : i # 1 => i - 1 \in 1 .. n /\ u[i - 1] = t[i - 1]
    BY <1>1
  <2>2. 1 \in 1 .. n => t[1] = seqs[1]
    <3>1. SUFFICES ASSUME 1 \in 1 .. n PROVE t[1] = seqs[1]
      OBVIOUS
    <3>2. t[1] = t[1 - 1] \o seqs[1]
      BY <1>4, <3>1
    <3>3. 1 - 1 = 0
      OBVIOUS
    <3>4. t[1] = <<>> \o seqs[1]
      BY <1>5, <3>2, <3>3, Zenon
    <3>5. seqs[1] \in Seq(S)
      BY <1>1, <3>1
    <3>6. QED
      BY <3>4, <3>5, ConcatEmptySeq
  <2>3. ASSUME NEW i \in 1 .. n
        PROVE  u[i] = IF i = 1 THEN seqs[i] ELSE u[i - 1] \o seqs[i]
    BY <1>4, <2>1, <2>2
  <2>4. u = Flattened(u)
    BY <2>3
  <2>5. flatten = Flattened(flatten)
    <3> HIDE DEF Flattened, u
    <3>1. QED
      BY <2>4, Zenon
  <2> HIDE DEF flatten, u
  <2> DEFINE T == {i \in Nat : i + 1 <= n => flatten[i + 1] = t[i + 1]}
  <2>6. 0 \in T
    BY <1>8, <2>2, <2>5
  <2>7. ASSUME NEW i \in Nat, i \in T PROVE i + 1 \in T
    <3>1. SUFFICES ASSUME (i + 1) + 1 <= n PROVE flatten[(i + 1) + 1] = t[(i + 1) + 1]
      OBVIOUS
    <3>2. (i + 1) + 1 \in 1 .. n /\ (i + 1) + 1 # 1 /\ ((i + 1) + 1) - 1 = i + 1
      BY <1>1, <3>1
    <3>3. flatten[(i + 1) + 1] = flatten[i + 1] \o seqs[(i + 1) + 1]
      BY <2>5, <3>2
    <3>4. t[(i + 1) + 1] = t[i + 1] \o seqs[(i + 1) + 1]
      BY <1>4, <3>2
    <3>5. flatten[i + 1] = t[i + 1]
      BY <1>1, <2>7, <3>1
    <3>6. QED
      BY <3>3, <3>4, <3>5
  <2> HIDE DEF T
  <2>8. \A i \in Nat : i \in T
    BY <2>6, <2>7, SetInduction
  <2>9. n - 1 \in T /\ (n - 1) + 1 = n /\ n - 1 \in Nat
    BY <1>1, <1>8, <2>8
  <2>10. flatten[n] = t[n]
    BY <1>1, <2>9 DEF T
  <2>11. QED
    BY <1>3, <1>4, <1>5, <1>6, <1>8, <2>10
<1>9. QED
  BY <1>7, <1>8
-----------------------------------------------------------------------------
(* o is what the first i chains of a table hold, each word once.           *)
ChainsIn(table, i, o) ==
  /\ o \in Seq(Data)
  /\ \A x \in 1 .. Len(o) :
       \E b \in 0 .. i - 1 : \E k \in 1 .. Len(table[b]) : o[x] = table[b][k]
  /\ \A b \in 0 .. i - 1 : \A k \in 1 .. Len(table[b]) :
       \E x \in 1 .. Len(o) : o[x] = table[b][k]
  /\ \A x, y \in 1 .. Len(o) : o[x].string = o[y].string => x = y

LEMMA NextChain ==
  ASSUME NEW text, NEW n, NEW table, NEW m \in Nat, TableOf(text, n, table, m),
         NEW i \in 0 .. m - 1, NEW o, ChainsIn(table, i, o)
  PROVE  ChainsIn(table, i + 1, o \o table[i])
<1> DEFINE c == table[i]
           r == o \o c
<1>1. /\ table \in [0 .. m - 1 -> Seq(Data)]
      /\ \A b \in 0 .. m - 1 : \A k \in 1 .. Len(table[b]) :
           hash(table[b][k].string) % m = b
      /\ \A b \in 0 .. m - 1 : \A k, l \in 1 .. Len(table[b]) :
           table[b][k].string = table[b][l].string => k = l
  BY DEF TableOf
<1>2. c \in Seq(Data) /\ o \in Seq(Data)
  BY <1>1 DEF ChainsIn
<1> HIDE DEF c, r
<1>3. /\ r \in Seq(Data)
      /\ Len(r) = Len(o) + Len(c) /\ Len(o) \in Nat /\ Len(c) \in Nat
      /\ \A x \in 1 .. Len(o) + Len(c) : r[x] = IF x <= Len(o) THEN o[x] ELSE c[x - Len(o)]
  BY <1>2, ConcatProperties, LenProperties DEF r
<1>4. ASSUME NEW x \in 1 .. Len(r)
      PROVE  \/ x \in 1 .. Len(o) /\ r[x] = o[x]
             \/ x - Len(o) \in 1 .. Len(c) /\ r[x] = c[x - Len(o)]
  BY <1>3
<1>5. ASSUME NEW x \in 1 .. Len(o) PROVE x \in 1 .. Len(r) /\ r[x] = o[x]
  BY <1>3
<1>6. ASSUME NEW k \in 1 .. Len(c)
      PROVE  Len(o) + k \in 1 .. Len(r) /\ r[Len(o) + k] = c[k]
  <2>1. /\ Len(o) + k \in 1 .. Len(o) + Len(c)
        /\ ~(Len(o) + k <= Len(o)) /\ (Len(o) + k) - Len(o) = k
    BY <1>3
  <2>2. QED
    BY <1>3, <2>1
<1>7. ASSUME NEW x \in 1 .. Len(o) PROVE hash(o[x].string) % m < i
  <2>1. PICK b \in 0 .. i - 1 : \E k \in 1 .. Len(table[b]) : o[x] = table[b][k]
    BY DEF ChainsIn
  <2>2. PICK k \in 1 .. Len(table[b]) : o[x] = table[b][k]
    BY <2>1
  <2>3. b \in 0 .. m - 1 /\ b < i
    OBVIOUS
  <2>4. QED
    BY <1>1, <2>2, <2>3
<1>8. ASSUME NEW k \in 1 .. Len(c) PROVE hash(c[k].string) % m = i
  BY <1>1 DEF c
<1>9. ASSUME NEW x \in 1 .. Len(r)
      PROVE  \E b \in 0 .. (i + 1) - 1 : \E k \in 1 .. Len(table[b]) : r[x] = table[b][k]
  <2>1. CASE x \in 1 .. Len(o) /\ r[x] = o[x]
    <3>1. PICK b \in 0 .. i - 1 : \E k \in 1 .. Len(table[b]) : o[x] = table[b][k]
      BY <2>1 DEF ChainsIn
    <3>2. b \in 0 .. (i + 1) - 1
      OBVIOUS
    <3>3. QED
      BY <2>1, <3>1, <3>2
  <2>2. CASE x - Len(o) \in 1 .. Len(c) /\ r[x] = c[x - Len(o)]
    <3>1. i \in 0 .. (i + 1) - 1
      OBVIOUS
    <3>2. QED
      BY <2>2, <3>1 DEF c
  <2>3. QED
    BY <1>4, <2>1, <2>2
<1>10. ASSUME NEW b \in 0 .. (i + 1) - 1, NEW k \in 1 .. Len(table[b])
       PROVE  \E x \in 1 .. Len(r) : r[x] = table[b][k]
  <2>1. CASE b = i
    BY <1>6, <2>1 DEF c
  <2>2. CASE b # i
    <3>1. b \in 0 .. i - 1
      BY <2>2
    <3>2. PICK x \in 1 .. Len(o) : o[x] = table[b][k]
      BY <3>1 DEF ChainsIn
    <3>3. QED
      BY <1>5, <3>2
  <2>3. QED
    BY <2>1, <2>2
<1>11. ASSUME NEW x \in 1 .. Len(r), NEW y \in 1 .. Len(r), r[x].string = r[y].string
       PROVE  x = y
  <2>1. CASE x \in 1 .. Len(o) /\ y \in 1 .. Len(o)
    <3>1. o[x].string = o[y].string
      BY <1>5, <1>11, <2>1
    <3>2. QED
      BY <2>1, <3>1 DEF ChainsIn
  <2>2. CASE x - Len(o) \in 1 .. Len(c) /\ y - Len(o) \in 1 .. Len(c)
    <3>1. r[x] = c[x - Len(o)] /\ r[y] = c[y - Len(o)]
      BY <1>3, <2>2
    <3>2. x - Len(o) = y - Len(o)
      BY <1>1, <1>11, <2>2, <3>1 DEF c
    <3>3. QED
      BY <1>3, <3>2
  <2>3. CASE x \in 1 .. Len(o) /\ r[x] = o[x]
             /\ y - Len(o) \in 1 .. Len(c) /\ r[y] = c[y - Len(o)]
    <3>1. hash(r[x].string) % m < i /\ hash(r[y].string) % m = i
      BY <1>7, <1>8, <2>3
    <3>2. hash(r[x].string) % m = hash(r[y].string) % m
      BY <1>11
    <3>3. QED
      BY <3>1, <3>2
  <2>4. CASE y \in 1 .. Len(o) /\ r[y] = o[y]
             /\ x - Len(o) \in 1 .. Len(c) /\ r[x] = c[x - Len(o)]
    <3>1. hash(r[y].string) % m < i /\ hash(r[x].string) % m = i
      BY <1>7, <1>8, <2>4
    <3>2. hash(r[x].string) % m = hash(r[y].string) % m
      BY <1>11
    <3>3. QED
      BY <3>1, <3>2
  <2>5. QED
    BY <1>4, <2>1, <2>2, <2>3, <2>4
<1>12. ChainsIn(table, i + 1, r)
  BY <1>3, <1>9, <1>10, <1>11 DEF ChainsIn
<1>13. QED
  BY <1>12 DEF r, c

(* wc_output goes through all chains.                                      *)
LEMMA AllChains ==
  ASSUME NEW text, NEW n, NEW table, NEW m \in Nat, TableOf(text, n, table, m)
  PROVE  ChainsIn(table, m, FlattenSeq([i \in 1 .. m |-> table[i - 1]]))
<1> DEFINE seqs == [i \in 1 .. m |-> table[i - 1]]
<1>1. table \in [0 .. m - 1 -> Seq(Data)]
  BY DEF TableOf
<1>2. \A i \in 1 .. m : i - 1 \in 0 .. m - 1 /\ seqs[i] = table[i - 1]
  OBVIOUS
<1>3. seqs \in Seq(Seq(Data)) /\ Len(seqs) = m
  <2>1. seqs \in [1 .. m -> Seq(Data)]
    BY <1>1, <1>2
  <2> HIDE DEF seqs
  <2>2. QED
    BY <2>1
<1> HIDE DEF seqs
<1>4. PICK t \in [0 .. Len(seqs) -> Seq(Data)] :
        /\ t[0] = <<>>
        /\ \A i \in 1 .. Len(seqs) : t[i] = t[i - 1] \o seqs[i]
        /\ FlattenSeq(seqs) = t[Len(seqs)]
  BY <1>3, FlattenIterates
<1> DEFINE T == {i \in Nat : i <= m => ChainsIn(table, i, t[i])}
<1>5. 0 \in T
  <2>1. t[0] = <<>> /\ Len(<<>>) = 0 /\ <<>> \in Seq(Data)
    BY <1>4
  <2>2. ChainsIn(table, 0, t[0])
    BY <2>1 DEF ChainsIn
  <2>3. QED
    BY <2>2
<1>6. ASSUME NEW i \in Nat, i \in T PROVE i + 1 \in T
  <2>1. SUFFICES ASSUME i + 1 <= m PROVE ChainsIn(table, i + 1, t[i + 1])
    OBVIOUS
  <2>2. i \in 0 .. m - 1 /\ ChainsIn(table, i, t[i]) /\ i + 1 \in 1 .. m /\ (i + 1) - 1 = i
    BY <1>6, <2>1
  <2>3. t[i + 1] = t[i] \o table[i]
    BY <1>2, <1>3, <1>4, <2>2
  <2>4. ChainsIn(table, i + 1, t[i] \o table[i])
    BY <2>2, NextChain
  <2>5. QED
    BY <2>3, <2>4
<1> HIDE DEF T
<1>7. m \in T
  BY <1>5, <1>6, SetInduction
<1>8. ChainsIn(table, m, FlattenSeq(seqs))
  BY <1>3, <1>4, <1>7 DEF T
<1>9. QED
  BY <1>8 DEF seqs
-----------------------------------------------------------------------------
(* The words of the text are those that end in it.                         *)
LEMMA WordsEnd ==
  ASSUME NEW w, size \in Nat
  PROVE  w \in Words <=> EndsIn(word_array, w, size) # {}
<1>1. \A i, j : WordFrom(i, j) <=> FromTo(word_array, i, j)
  BY DEF WordFrom, IsLetter, size, FromTo, LetterAt
<1>2. w \in Words <=> \E i \in 1 .. size : \E j \in 1 .. size :
                        WordFrom(i, j) /\ w = SubSeq(word_array, i, j)
  BY DEF Words
<1>3. ASSUME NEW i \in 1 .. size, NEW j \in 1 .. size, WordFrom(i, j),
             w = SubSeq(word_array, i, j)
      PROVE  j \in EndsIn(word_array, w, size)
  <2>1. FromTo(word_array, i, j) /\ i \in 1 .. j
    BY <1>1, <1>3 DEF FromTo
  <2>2. QED
    BY <1>3, <2>1 DEF EndsIn
<1>4. ASSUME NEW j \in EndsIn(word_array, w, size)
      PROVE  \E i \in 1 .. size : WordFrom(i, j) /\ w = SubSeq(word_array, i, j)
  <2>1. j \in 1 .. size
    BY DEF EndsIn
  <2>2. PICK i \in 1 .. j : FromTo(word_array, i, j) /\ SubSeq(word_array, i, j) = w
    BY DEF EndsIn
  <2>3. i \in 1 .. size
    BY <2>1
  <2>4. QED
    BY <1>1, <2>2, <2>3
<1>5. EndsIn(word_array, w, size) \subseteq 1 .. size
  BY DEF EndsIn
<1>6. QED
  BY <1>2, <1>3, <1>4, <1>5

(* What WcOutput says of the output.                                       *)
Report(o) ==
  /\ Range(o) = {[string |-> w, val |-> Cardinality(Ends(w, size))] : w \in Words}
  /\ Len(o) = Cardinality(Words)

(* A table that holds the ends of the whole text is printed as the report. *)
LEMMA TableReported ==
  ASSUME NEW m \in Nat, NEW table, NEW o, word_array \in Seq(Char),
         TableOf(word_array, size, table, m), ChainsIn(table, m, o)
  PROVE  Report(o)
<1>1. size \in Nat
  BY DEF size
<1>2. o \in Seq(Data) /\ Len(o) \in Nat
  BY LenProperties DEF ChainsIn
<1>3. ASSUME NEW x \in 1 .. Len(o)
      PROVE  /\ o[x].string \in Words
             /\ o[x] = [string |-> o[x].string, val |-> Cardinality(Ends(o[x].string, size))]
  <2>1. PICK b \in 0 .. m - 1 : \E k \in 1 .. Len(table[b]) : o[x] = table[b][k]
    BY DEF ChainsIn
  <2>2. PICK k \in 1 .. Len(table[b]) : o[x] = table[b][k]
    BY <2>1
  <2>3. HoldsEnds(word_array, size, o[x])
    BY <2>2 DEF TableOf
  <2>4. o[x] \in Data
    BY <1>2
  <2>5. o[x] = [string |-> o[x].string, val |-> o[x].val]
    BY <2>4 DEF Data
  <2>6. o[x].val = Cardinality(Ends(o[x].string, size))
    BY <2>3, EndsAreEndsIn DEF HoldsEnds
  <2>7. o[x].string \in Words
    BY <1>1, <2>3, WordsEnd DEF HoldsEnds
  <2>8. QED
    BY <2>5, <2>6, <2>7
<1>4. ASSUME NEW w \in Words PROVE \E x \in 1 .. Len(o) : o[x].string = w
  <2>1. EndsIn(word_array, w, size) # {}
    BY <1>1, WordsEnd
  <2>2. PICK b \in 0 .. m - 1 : \E k \in 1 .. Len(table[b]) : table[b][k].string = w
    BY <2>1 DEF TableOf
  <2>3. PICK k \in 1 .. Len(table[b]) : table[b][k].string = w
    BY <2>2
  <2>4. PICK x \in 1 .. Len(o) : o[x] = table[b][k]
    BY DEF ChainsIn
  <2>5. QED
    BY <2>3, <2>4
<1>5. Range(o) = {[string |-> w, val |-> Cardinality(Ends(w, size))] : w \in Words}
  <2>1. \A d : d \in Range(o) <=> \E x \in 1 .. Len(o) : o[x] = d
    BY <1>2, RangeMember
  <2>2. ASSUME NEW d \in Range(o)
        PROVE  \E w \in Words : d = [string |-> w, val |-> Cardinality(Ends(w, size))]
    <3>1. PICK x \in 1 .. Len(o) : o[x] = d
      BY <2>1
    <3>2. QED
      BY <1>3, <3>1
  <2>3. ASSUME NEW w \in Words
        PROVE  [string |-> w, val |-> Cardinality(Ends(w, size))] \in Range(o)
    <3>1. PICK x \in 1 .. Len(o) : o[x].string = w
      BY <1>4
    <3>2. o[x] = [string |-> w, val |-> Cardinality(Ends(w, size))]
      BY <1>3, <3>1
    <3>3. QED
      BY <2>1, <3>2
  <2>4. QED
    BY <2>2, <2>3
<1>6. Len(o) = Cardinality(Words)
  <2> DEFINE f == [x \in 1 .. Len(o) |-> o[x].string]
  <2>1. f \in [1 .. Len(o) -> Words]
    BY <1>3
  <2>2. \A x, y \in 1 .. Len(o) : f[x] = f[y] => x = y
    BY DEF ChainsIn
  <2>3. \A w \in Words : \E x \in 1 .. Len(o) : f[x] = w
    BY <1>4
  <2> HIDE DEF f
  <2>4. f \in Bijection(1 .. Len(o), Words)
    BY <2>1, <2>2, <2>3, Fun_IsBij
  <2>5. ExistsBijection(1 .. Len(o), Words)
    BY <2>4 DEF ExistsBijection
  <2>6. IsFiniteSet(1 .. Len(o)) /\ Cardinality(1 .. Len(o)) = Len(o)
    <3>1. 1 \in Int /\ Len(o) \in Int
      BY <1>2
    <3>2. /\ IsFiniteSet(1 .. Len(o))
          /\ Cardinality(1 .. Len(o)) = IF 1 > Len(o) THEN 0 ELSE Len(o) - 1 + 1
      BY <3>1, FS_Interval, Zenon
    <3>3. QED
      BY <1>2, <3>2
  <2>7. QED
    BY <2>5, <2>6, FS_Bijection
<1>7. QED
  BY <1>5, <1>6 DEF Report
-----------------------------------------------------------------------------
(* The inductive invariant: the characters read, the table, the output.    *)
Cursor ==
  /\ wc_pc # "fault" => Reading(word_array, start, head) /\ length = head - start
  /\ wc_pc = "idle" => head = 0 /\ start = 0 /\ length = 0
  /\ wc_pc = "built" => head = size + 1

Tabled ==
  wc_pc \in {"idle", "scan", "built", "printed"} =>
    TableOf(word_array, start, wc, map_size)

CountInv == WcTypeOK /\ Cursor /\ Tabled /\ WcOutput

(* WcOutput speaks of the text and of the output only.                     *)
ReportOn(text, o) ==
  /\ Range(o) = {[string |-> w, val |-> Cardinality(EndsIn(text, w, Len(text)))] :
                 w \in UNION {{SubSeq(text, i, j) : j \in {n \in 1 .. Len(text) :
                                                           FromTo(text, i, n)}} :
                              i \in 1 .. Len(text)}}
  /\ Len(o) = Cardinality(UNION {{SubSeq(text, i, j) : j \in {n \in 1 .. Len(text) :
                                                             FromTo(text, i, n)}} :
                                 i \in 1 .. Len(text)})

LEMMA Reported ==
  WcOutput <=> (wc_pc \in {"printed", "destroyed"} => ReportOn(word_array, wc_out))
<1>1. Report(wc_out) <=> ReportOn(word_array, wc_out)
  BY DEF Report, ReportOn, Words, Ends, WordFrom, IsLetter, size, EndsIn, FromTo, LetterAt
<1>2. QED
  BY <1>1 DEF WcOutput, Report

LEMMA ReportedNext ==
  WcOutput' <=> (wc_pc' \in {"printed", "destroyed"} => ReportOn(word_array', wc_out'))
<1>1. (WcOutput <=> (wc_pc \in {"printed", "destroyed"}
                       => ReportOn(word_array, wc_out)))'
  BY Reported, PTL
<1>2. QED
  BY <1>1

LEMMA SameReport ==
  ASSUME word_array' = word_array, wc_out' = wc_out, WcOutput,
         wc_pc' \in {"printed", "destroyed"} => wc_pc \in {"printed", "destroyed"}
  PROVE  WcOutput'
BY Reported, ReportedNext

LEMMA EmptyTable ==
  ASSUME NEW text, NEW m \in Nat
  PROVE  TableOf(text, 0, NewTable(m), m)
<1>1. \A b \in 0 .. m - 1 : NewTable(m)[b] = <<>>
  BY DEF NewTable
<1>2. NewTable(m) \in [0 .. m - 1 -> Seq(Data)]
  BY DEF NewTable
<1>3. \A w : EndsIn(text, w, 0) = {}
  BY DEF EndsIn
<1>4. Len(<<>>) = 0
  OBVIOUS
<1>5. QED
  BY <1>1, <1>2, <1>3, <1>4 DEF TableOf

LEMMA InitCounts == WcInit => CountInv
<1> SUFFICES ASSUME WcInit PROVE CountInv
  OBVIOUS
<1>1. /\ word_array = <<>> /\ map_size = 0 /\ wc = <<>> /\ head = 0 /\ start = 0
      /\ length = 0 /\ wc_out = <<>> /\ wc_pc = "idle"
  BY DEF WcInit
<1>2. Bucket = {} /\ 0 .. map_size - 1 = {}
  BY <1>1 DEF Bucket
<1>3. WcTypeOK
  BY <1>1, <1>2 DEF WcTypeOK
<1>4. Cursor
  <2>1. ~LetterAt(word_array, 0)
    BY <1>1 DEF LetterAt
  <2>2. QED
    BY <1>1, <2>1 DEF Cursor, Reading
<1>5. Tabled
  <2>1. NewTable(0) = <<>>
    BY DEF NewTable
  <2>2. TableOf(word_array, 0, NewTable(0), 0)
    BY EmptyTable
  <2>3. QED
    BY <1>1, <2>1, <2>2 DEF Tabled
<1>6. WcOutput
  BY <1>1 DEF WcOutput
<1>7. QED
  BY <1>3, <1>4, <1>5, <1>6 DEF CountInv

LEMMA StartCounts == CountInv /\ WcStart => CountInv'
<1> SUFFICES ASSUME CountInv, WcStart PROVE CountInv'
  OBVIOUS
<1>1. PICK n \in 1 .. MaxText : \E text \in [1 .. n -> Char] :
        word_array' = text /\ map_size' = n \div Ratio /\ wc' = NewTable(n \div Ratio)
  BY DEF WcStart
<1>2. /\ n \in Nat \ {0} /\ n \div Ratio \in Nat
      /\ word_array' \in Seq(Char) /\ Len(word_array') = n
  BY <1>1, WordCountAssumption
<1>3. /\ wc_pc = "idle" /\ wc_pc' = "scan"
      /\ head' = head /\ start' = start /\ length' = length /\ wc_out' = wc_out
  BY DEF WcStart
<1>4. head = 0 /\ start = 0 /\ length = 0 /\ wc_out \in Seq(Data)
  BY <1>3 DEF CountInv, Cursor, WcTypeOK
<1>5. TableOf(word_array', 0, wc', map_size')
  BY <1>1, <1>2, EmptyTable
<1>6. wc' \in [0 .. map_size' - 1 -> Seq(Data)]
  BY <1>5 DEF TableOf
<1>7. WcTypeOK'
  BY <1>1, <1>2, <1>3, <1>4, <1>6 DEF WcTypeOK, Bucket
<1>8. Cursor'
  <2>1. ~LetterAt(word_array', 0)
    BY DEF LetterAt
  <2>2. QED
    BY <1>2, <1>3, <1>4, <2>1 DEF Cursor, Reading
<1>9. Tabled' /\ WcOutput'
  BY <1>3, <1>4, <1>5 DEF Tabled, WcOutput
<1>10. QED
  BY <1>7, <1>8, <1>9 DEF CountInv

(* Seen finds the word in its chain if it is there.                        *)
LEMMA SeenFinds ==
  ASSUME NEW chain \in Seq(Data)
  PROVE  /\ Seen(chain) # 0 =>
              Seen(chain) \in 1 .. Len(chain) /\ chain[Seen(chain)].string = temp
         /\ Seen(chain) = 0 => \A k \in 1 .. Len(chain) : chain[k].string # temp
<1> DEFINE I == {i \in 1 .. Len(chain) : chain[i].string = temp}
<1>1. Seen(chain) = IF I # {} THEN Min(I) ELSE 0
  BY DEF Seen, SelectInSeq, Same
<1>2. CASE I # {}
  <2>1. I \subseteq Nat
    OBVIOUS
  <2>2. \E x \in I : \A y \in I : x <= y
    <3> HIDE DEF I
    <3>1. QED
      BY <1>2, <2>1, SmallestOf
  <2>3. Min(I) \in I
    <3> HIDE DEF I
    <3>1. QED
      BY <2>2 DEF Min
  <2>4. Min(I) \in 1 .. Len(chain) /\ chain[Min(I)].string = temp
    BY <2>3
  <2> HIDE DEF I
  <2>5. QED
    BY <1>1, <1>2, <2>4
<1>3. CASE I = {}
  <2>1. \A k \in 1 .. Len(chain) : chain[k].string # temp
    BY <1>3
  <2>2. Seen(chain) = 0
    BY <1>1, <1>3
  <2>3. QED
    BY <2>1, <2>2
<1>4. QED
  BY <1>2, <1>3

LEMMA SeparatorIs ==
  ASSUME word_array \in Seq(Char), head \in Nat, head <= size
  PROVE  Separator <=> ~LetterAt(word_array, head + 1)
<1>1. size = Len(word_array) /\ size \in Nat
  BY DEF size
<1>2. CASE head < size
  <2>1. head + 1 \in 1 .. Len(word_array) /\ Here = word_array[head + 1]
    BY <1>1, <1>2 DEF Here
  <2>2. Here \in Char
    BY <2>1
  <2>3. Here # NUL
    BY <2>2, WordCountAssumption DEF Char, NUL, Space
  <2>4. QED
    BY <2>1, <2>3 DEF Separator, LetterAt
<1>3. CASE head = size
  <2>1. head + 1 \notin 1 .. Len(word_array) /\ Here = NUL
    BY <1>1, <1>3 DEF Here
  <2>2. QED
    BY <2>1 DEF Separator, LetterAt
<1>4. QED
  BY <1>1, <1>2, <1>3

(* At a separator behind letters, the word is counted.                     *)
LEMMA WordCounted ==
  ASSUME CountInv, wc_pc = "scan", head <= size, Separator, start # head, map_size # 0,
         wc' = [wc EXCEPT ![index] =
                  IF Seen(Chain) # 0 THEN [Chain EXCEPT ![Seen(Chain)].val = @ + 1]
                  ELSE Append(Chain, [string |-> temp, val |-> 1])]
  PROVE  TableOf(word_array, head + 1, wc', map_size)
<1>1. /\ word_array \in Seq(Char) /\ size \in Nat /\ size = Len(word_array)
      /\ map_size \in Nat \ {0} /\ wc \in [Bucket -> Seq(Data)]
      /\ head \in Nat /\ start \in Nat
  BY DEF CountInv, WcTypeOK, size
<1>2. Reading(word_array, start, head) /\ length = head - start
  BY DEF CountInv, Cursor
<1>3. start < head
  BY <1>1, <1>2 DEF Reading
<1>4. ~LetterAt(word_array, head + 1)
  BY <1>1, SeparatorIs
<1>5. TableOf(word_array, start, wc, map_size)
  BY DEF CountInv, Tabled
<1>6. temp = SubSeq(word_array, start + 1, head) /\ temp \in Word
  <2>1. start + length = head
    BY <1>1, <1>2
  <2>2. SubSeq(word_array, start + 1, head) \in Word
    BY <1>1, <1>2, <1>3, <1>4, WordEnds
  <2>3. QED
    BY <2>1, <2>2 DEF temp
<1>7. hash(temp) \in Nat
  BY <1>6, HashType
<1>8. index = hash(temp) % map_size /\ index \in 0 .. map_size - 1
  BY <1>1, <1>7 DEF index
<1>9. Chain = wc[index] /\ Chain \in Seq(Data)
  BY <1>1, <1>8 DEF Chain, Bucket
<1>10. CASE Seen(Chain) # 0
  <2>1. Seen(Chain) \in 1 .. Len(wc[index]) /\ wc[index][Seen(Chain)].string = temp
    BY <1>9, <1>10, SeenFinds
  <2>2. wc' = [wc EXCEPT ![index] = CountedUp(wc[index], Seen(Chain))]
    BY <1>9, <1>10 DEF CountedUp
  <2>3. wc[index][Seen(Chain)].string = SubSeq(word_array, start + 1, head)
    BY <1>6, <2>1
  <2>4. index = hash(SubSeq(word_array, start + 1, head)) % map_size
    BY <1>6, <1>8
  <2> DEFINE i == index
             k == Seen(Chain)
  <2>5. i \in 0 .. map_size - 1 /\ k \in 1 .. Len(wc[i])
    BY <1>8, <2>1
  <2> HIDE DEF i, k
  <2>6. TableOf(word_array, head + 1, [wc EXCEPT ![i] = CountedUp(wc[i], k)], map_size)
    BY <1>1, <1>2, <1>3, <1>4, <1>5, <2>3, <2>4, <2>5, CountAgain DEF i, k
  <2>7. QED
    BY <2>2, <2>6 DEF i, k
<1>11. CASE Seen(Chain) = 0
  <2>1. \A k \in 1 .. Len(wc[index]) : wc[index][k].string # SubSeq(word_array, start + 1, head)
    BY <1>6, <1>9, <1>11, SeenFinds
  <2>2. wc' = [wc EXCEPT ![index] = Append(wc[index],
                 [string |-> SubSeq(word_array, start + 1, head), val |-> 1])]
    BY <1>6, <1>9, <1>11
  <2>3. index = hash(SubSeq(word_array, start + 1, head)) % map_size
    BY <1>6, <1>8
  <2> DEFINE i == index
  <2>4. i \in 0 .. map_size - 1
    BY <1>8
  <2>5. \A k \in 1 .. Len(wc[i]) : wc[i][k].string # SubSeq(word_array, start + 1, head)
    BY <2>1
  <2>6. i = hash(SubSeq(word_array, start + 1, head)) % map_size
    BY <2>3
  <2> HIDE DEF i
  <2>7. TableOf(word_array, head + 1,
                [wc EXCEPT ![i] = Append(wc[i],
                   [string |-> SubSeq(word_array, start + 1, head), val |-> 1])], map_size)
    BY <1>1, <1>2, <1>3, <1>4, <1>5, <2>4, <2>5, <2>6, CountFirst
  <2>8. QED
    BY <2>2, <2>7 DEF i
<1>12. QED
  BY <1>10, <1>11

LEMMA TurnCounts == CountInv /\ WcTurn => CountInv'
<1> SUFFICES ASSUME CountInv, WcTurn PROVE CountInv'
  OBVIOUS
<1>1. /\ wc_pc = "scan" /\ head <= size /\ head' = head + 1
      /\ word_array' = word_array /\ map_size' = map_size /\ wc_out' = wc_out
      /\ size' = size /\ size = Len(word_array)
  BY DEF WcTurn, WcUpto, size
<1>2. /\ word_array \in Seq(Char) /\ size \in Nat /\ map_size \in Nat
      /\ wc \in [Bucket -> Seq(Data)] /\ wc_out \in Seq(Data)
      /\ head \in Nat /\ start \in Nat /\ length \in Nat
  BY DEF CountInv, WcTypeOK, size
<1>3. Reading(word_array, start, head) /\ length = head - start
  BY <1>1 DEF CountInv, Cursor
<1>4. TableOf(word_array, start, wc, map_size)
  BY <1>1 DEF CountInv, Tabled
<1>5. Separator <=> ~LetterAt(word_array, head + 1)
  BY <1>1, <1>2, SeparatorIs
<1>6. Bucket' = Bucket /\ Bucket = 0 .. map_size - 1
  BY <1>1 DEF Bucket
<1>7. wc_pc' \in {"scan", "fault"} => WcOutput'
  BY DEF WcOutput
<1>8. ASSUME wc_pc' = "scan", start' \in Nat, length' = head' - start',
             Reading(word_array, start', head'),
             TableOf(word_array, start', wc', map_size)
      PROVE  CountInv'
  <2>1. wc' \in [Bucket' -> Seq(Data)]
    BY <1>6, <1>8 DEF TableOf
  <2>2. head' \in Nat /\ length' \in Nat
    <3>1. start' \in 0 .. head'
      BY <1>8 DEF Reading
    <3>2. head' \in Nat
      BY <1>1, <1>2
    <3>3. \A h \in Nat : \A s \in 0 .. h : h - s \in Nat
      OBVIOUS
    <3>4. head' - start' \in Nat
      BY <3>1, <3>2, <3>3, Zenon
    <3>5. QED
      BY <1>8, <3>2, <3>4, Zenon
  <2>3. WcTypeOK'
    BY <1>1, <1>2, <1>8, <2>1, <2>2 DEF WcTypeOK
  <2>4. Cursor'
    BY <1>1, <1>8 DEF Cursor
  <2>5. Tabled'
    BY <1>1, <1>8 DEF Tabled
  <2>6. QED
    BY <1>7, <1>8, <2>3, <2>4, <2>5 DEF CountInv
<1>9. CASE WcLetter
  <2>1. wc' = wc /\ start' = start /\ wc_pc' = wc_pc /\ length' = length + 1
        /\ LetterAt(word_array, head + 1)
    BY <1>5, <1>9 DEF WcLetter
  <2>2. Reading(word_array, start', head')
    <3>1. \A k \in start + 1 .. head + 1 : k = head + 1 \/ k \in start + 1 .. head
      BY <1>2
    <3>2. \A k \in start + 1 .. head + 1 : LetterAt(word_array, k)
      BY <1>3, <2>1, <3>1 DEF Reading
    <3>3. head + 1 \in 0 .. Len(word_array) + 1 /\ start \in 0 .. head + 1
      BY <1>1, <1>2, <1>3 DEF Reading
    <3>4. ~LetterAt(word_array, start)
      BY <1>3 DEF Reading
    <3>5. QED
      BY <1>1, <2>1, <3>2, <3>3, <3>4 DEF Reading
  <2>3. length' = head' - start'
    BY <1>1, <1>2, <1>3, <2>1
  <2>4. QED
    BY <1>1, <1>2, <1>4, <1>8, <2>1, <2>2, <2>3
<1>10. CASE WcNoWord
  <2>1. wc' = wc /\ length' = length /\ wc_pc' = wc_pc
        /\ start = head /\ start' = head + 1 /\ ~LetterAt(word_array, head + 1)
    BY <1>5, <1>10 DEF WcNoWord
  <2>2. Reading(word_array, start', head')
    BY <1>1, <1>2, <2>1 DEF Reading
  <2>3. length' = head' - start'
    BY <1>1, <1>2, <1>3, <2>1
  <2>4. \A w : EndsIn(word_array, w, head + 1) = EndsIn(word_array, w, head)
    BY <1>2, <2>1, NothingEnds
  <2>5. TableOf(word_array, start', wc', map_size)
    BY <1>4, <2>1, <2>4, SameEnds
  <2>6. QED
    BY <1>1, <1>2, <1>8, <2>1, <2>2, <2>3, <2>5
<1>11. CASE WcWord
  <2>1. /\ Separator /\ start # head /\ map_size # 0 /\ wc_pc' = wc_pc
        /\ start' = head + 1 /\ length' = 0
        /\ wc' = [wc EXCEPT ![index] =
                    IF Seen(Chain) # 0 THEN [Chain EXCEPT ![Seen(Chain)].val = @ + 1]
                    ELSE Append(Chain, [string |-> temp, val |-> 1])]
    BY <1>11 DEF WcWord
  <2>2. TableOf(word_array, head + 1, wc', map_size)
    BY <1>1, <2>1, WordCounted
  <2>3. Reading(word_array, start', head')
    BY <1>1, <1>2, <1>5, <2>1 DEF Reading
  <2>4. QED
    BY <1>1, <1>2, <1>8, <2>1, <2>2, <2>3
<1>12. CASE WcNoBucket
  <2>1. wc_pc' = "fault" /\ UNCHANGED <<wc, start, length>>
    BY <1>12 DEF WcNoBucket
  <2>2. WcTypeOK'
    BY <1>1, <1>2, <1>6, <2>1 DEF WcTypeOK
  <2>3. Cursor' /\ Tabled'
    BY <2>1 DEF Cursor, Tabled
  <2>4. QED
    BY <1>7, <2>1, <2>2, <2>3 DEF CountInv
<1>13. QED
  BY <1>9, <1>10, <1>11, <1>12 DEF WcTurn

LEMMA LastCounts ==
  CountInv /\ (WcUnmapped \/ WcReturn \/ wc_output \/ wc_destroy) => CountInv'
<1> SUFFICES ASSUME CountInv, WcUnmapped \/ WcReturn \/ wc_output \/ wc_destroy
             PROVE  CountInv'
  OBVIOUS
<1>1. /\ word_array \in Seq(Char) /\ size \in Nat /\ map_size \in Nat
      /\ wc \in [Bucket -> Seq(Data)] /\ wc_out \in Seq(Data)
      /\ head \in Nat /\ start \in Nat /\ length \in Nat
      /\ WcTypeOK /\ Cursor /\ Tabled /\ WcOutput
  BY DEF CountInv, WcTypeOK, size
<1>2. UNCHANGED <<word_array, map_size, head, start, length>>
      /\ size' = size /\ Bucket' = Bucket /\ size = Len(word_array)
  BY DEF WcUnmapped, WcReturn, wc_output, wc_destroy, size, Bucket
<1>3. CASE WcUnmapped
  <2>1. wc_pc' = "fault" /\ UNCHANGED <<wc, wc_out>>
    BY <1>3 DEF WcUnmapped
  <2>2. QED
    BY <1>1, <1>2, <2>1 DEF CountInv, WcTypeOK, Cursor, Tabled, WcOutput
<1>4. CASE WcReturn
  <2>1. wc_pc = "scan" /\ wc_pc' = "built" /\ head > size /\ UNCHANGED <<wc, wc_out>>
    BY <1>4 DEF WcReturn, WcUpto
  <2>2. head = size + 1
    BY <1>1, <1>2, <2>1 DEF Cursor, Reading
  <2>3. WcTypeOK' /\ Cursor' /\ Tabled'
    BY <1>1, <1>2, <2>1, <2>2 DEF WcTypeOK, Cursor, Tabled
  <2>4. WcOutput'
    BY <2>1 DEF WcOutput
  <2>5. QED
    BY <2>3, <2>4 DEF CountInv
<1>5. CASE wc_output
  <2>1. wc_pc = "built" /\ wc_pc' = "printed" /\ wc_out' = Printed /\ wc' = wc
    BY <1>5 DEF wc_output
  <2>2. head = size + 1 /\ Reading(word_array, start, head)
    BY <1>1, <2>1 DEF Cursor
  <2>3. start = size + 1
    <3>1. ~LetterAt(word_array, head)
      BY <1>1, <1>2, <2>2 DEF LetterAt
    <3>2. QED
      BY <1>1, <2>2, <3>1 DEF Reading
  <2>4. TableOf(word_array, size + 1, wc, map_size)
    BY <1>1, <2>1, <2>3 DEF Tabled
  <2>5. \A w : EndsIn(word_array, w, size) = EndsIn(word_array, w, size + 1)
    <3>1. ~LetterAt(word_array, size + 1)
      BY <1>1, <1>2 DEF LetterAt
    <3>2. QED
      BY <1>1, <3>1, NothingEnds
  <2>6. TableOf(word_array, size, wc, map_size)
    BY <2>4, <2>5, SameEnds
  <2>7. ChainsIn(wc, map_size, Printed)
    BY <1>1, <2>6, AllChains DEF Printed, Buckets
  <2>8. Report(Printed)
    BY <1>1, <2>6, <2>7, TableReported
  <2>9. ReportOn(word_array, Printed)
    BY <2>8 DEF Report, ReportOn, Words, Ends, WordFrom, IsLetter, size, EndsIn, FromTo, LetterAt
  <2>10. WcOutput'
    BY <1>2, <2>1, <2>9, ReportedNext
  <2>11. wc_out' \in Seq(Data)
    BY <2>1, <2>7 DEF ChainsIn
  <2>12. WcTypeOK' /\ Cursor' /\ Tabled'
    BY <1>1, <1>2, <2>1, <2>11 DEF WcTypeOK, Cursor, Tabled
  <2>13. QED
    BY <2>10, <2>12 DEF CountInv
<1>6. CASE wc_destroy
  <2>1. /\ wc_pc = "printed" /\ wc_pc' = "destroyed" /\ wc_out' = wc_out
        /\ wc' = [i \in Bucket |-> <<>>]
    BY <1>6 DEF wc_destroy
  <2>2. wc' \in [Bucket -> Seq(Data)]
    BY <2>1
  <2>3. WcTypeOK' /\ Cursor' /\ Tabled'
    BY <1>1, <1>2, <2>1, <2>2 DEF WcTypeOK, Cursor, Tabled
  <2>4. WcOutput'
    BY <1>1, <1>2, <2>1, SameReport
  <2>5. QED
    BY <2>3, <2>4 DEF CountInv
<1>7. QED
  BY <1>3, <1>4, <1>5, <1>6

(* The table holds, at every turn, each word that has ended, once, in the  *)
(* chain of its hash, with the number of its occurrences.                  *)
THEOREM CountInvariance == WcSpec => []CountInv
<1>1. WcInit => CountInv
  BY InitCounts
<1>2. CountInv /\ [WcNext]_wc_vars => CountInv'
  <2>1. SUFFICES ASSUME CountInv, [WcNext]_wc_vars PROVE CountInv'
    OBVIOUS
  <2>2. CASE UNCHANGED wc_vars
    <3>1. WcOutput'
      BY <2>1, <2>2, SameReport DEF wc_vars, CountInv
    <3>2. WcTypeOK' /\ Cursor' /\ Tabled'
      BY <2>1, <2>2 DEF wc_vars, CountInv, WcTypeOK, Cursor, Tabled, Bucket, size
    <3>3. QED
      BY <3>1, <3>2 DEF CountInv
  <2>3. QED
    BY <2>1, <2>2, StartCounts, TurnCounts, LastCounts DEF WcNext, WcStep
<1>3. QED
  BY <1>1, <1>2, PTL DEF WcSpec

(* What is printed is each word of the text, once, with the number of its  *)
(* occurrences: for every text, and however its words hash.                *)
THEOREM WcOutputHolds == WcSpec => []WcOutput
<1>1. CountInv => WcOutput
  BY DEF CountInv
<1>2. QED
  BY <1>1, CountInvariance, PTL
=============================================================================
