----------------------------- MODULE WordCount -----------------------------
(***************************************************************************)
(* wc.c of the warm-up programs: the words of a text are counted in a hash *)
(* table, which is printed and freed.  Each turn of the loop of wc_init is *)
(* an action.                                                              *)
(***************************************************************************)
EXTENDS Integers, Sequences, FiniteSets, SequencesExt

CONSTANTS
  Letter,   \* the characters that are not space
  Ratio,    \* the table has one bucket for as many characters (5)
  HashMod,  \* one more than the largest unsigned long
  PageSize, \* of memory
  MaxText   \* bound: the longest text

ASSUME WordCountAssumption ==
  /\ Letter \subseteq Nat \ {0, 32}
  /\ {Ratio, HashMod, PageSize} \subseteq Nat \ {0}
  /\ MaxText \in Nat

(* A character is its code; a string, the sequence before the zero.        *)
NUL == 0
Space == 32
Char == Letter \cup {Space}
Word == Seq(Letter)

VARIABLES
  word_array,
  map_size,
  wc,     \* the chain of each bucket, as a sequence of words with counts
  head, start, length,
  wc_out, \* what wc_output printed
  wc_pc

wc_vars == <<word_array, map_size, wc, head, start, length, wc_out, wc_pc>>

Data == [string : Word, val : Nat]
Bucket == 0 .. map_size - 1

WcTypeOK ==
  /\ word_array \in Seq(Char)
  /\ map_size \in Nat
  /\ wc \in [Bucket -> Seq(Data)]
  /\ head \in Nat
  /\ start \in Nat
  /\ length \in Nat
  /\ wc_out \in Seq(Data)
  /\ wc_pc \in {"idle", "scan", "built", "printed", "destroyed", "fault"}

WcInit ==
  /\ word_array = <<>>
  /\ map_size = 0
  /\ wc = <<>>
  /\ head = 0
  /\ start = 0
  /\ length = 0
  /\ wc_out = <<>>
  /\ wc_pc = "idle"

size == Len(word_array)

hash(w) ==
  LET hashed[n \in 0 .. Len(w)] ==
        IF n = 0 THEN 5381 % HashMod ELSE (hashed[n - 1] * 33 + w[n]) % HashMod
  IN hashed[Len(w)]
-----------------------------------------------------------------------------
NewTable(n) == [i \in 0 .. n - 1 |-> <<>>]

(* test_wc maps a file, which is not empty, and calls wc_init.             *)
WcStart ==
  /\ wc_pc = "idle"
  /\ \E n \in 1 .. MaxText : \E text \in [1 .. n -> Char] :
       /\ word_array' = text
       /\ map_size' = n \div Ratio
       /\ wc' = NewTable(n \div Ratio)
  /\ wc_pc' = "scan"
  /\ UNCHANGED <<head, start, length, wc_out>>

(* The loop reads one character past the text: the page is filled with     *)
(* zeros, but nothing is mapped behind a page.                             *)
WcUptoMore == size + 1 \* mutant: one turn more
WcUpto == size
Unmapped == head >= size /\ head % PageSize = 0
Here == IF head < size THEN word_array[head + 1] ELSE NUL
Separator == Here \in {Space, NUL}

temp == SubSeq(word_array, start + 1, start + length)
index == hash(temp) % map_size
Chain == wc[index]

WcLetter ==
  /\ ~Separator
  /\ length' = length + 1
  /\ UNCHANGED <<wc, start, wc_pc>>

WcNoWord ==
  /\ Separator
  /\ start = head
  /\ start' = start + 1
  /\ UNCHANGED <<wc, length, wc_pc>>

(* The word is looked for in its chain; a new one goes to the end.         *)
SameBucket(d) == TRUE \* mutant: the strings are not compared
Same(d) == d.string = temp
Seen(chain) == SelectInSeq(chain, Same)

WcWord ==
  LET k == Seen(Chain) IN
  /\ Separator
  /\ start # head
  /\ map_size # 0
  /\ wc' = [wc EXCEPT ![index] =
              IF k # 0 THEN [Chain EXCEPT ![k].val = @ + 1]
              ELSE Append(Chain, [string |-> temp, val |-> 1])]
  /\ start' = head + 1
  /\ length' = 0
  /\ UNCHANGED wc_pc

(* Division by zero.                                                       *)
WcNoBucket ==
  /\ Separator
  /\ start # head
  /\ map_size = 0
  /\ wc_pc' = "fault"
  /\ UNCHANGED <<wc, start, length>>

WcTurn ==
  /\ wc_pc = "scan"
  /\ head <= WcUpto
  /\ ~Unmapped
  /\ WcLetter \/ WcNoWord \/ WcWord \/ WcNoBucket
  /\ head' = head + 1
  /\ UNCHANGED <<word_array, map_size, wc_out>>

WcUnmapped ==
  /\ wc_pc = "scan"
  /\ head <= WcUpto
  /\ Unmapped
  /\ wc_pc' = "fault"
  /\ UNCHANGED <<word_array, map_size, wc, head, start, length, wc_out>>

WcReturn ==
  /\ wc_pc = "scan"
  /\ head > WcUpto
  /\ wc_pc' = "built"
  /\ UNCHANGED <<word_array, map_size, wc, head, start, length, wc_out>>
-----------------------------------------------------------------------------
(* wc_output prints the chains one after the other.                        *)
Buckets == 1 .. map_size
Printed == FlattenSeq([i \in Buckets |-> wc[i - 1]])

wc_output ==
  /\ wc_pc = "built"
  /\ wc_out' = Printed
  /\ wc_pc' = "printed"
  /\ UNCHANGED <<word_array, map_size, wc, head, start, length>>

(* The nodes and the table are freed; the strings of the nodes are not.    *)
wc_destroy ==
  /\ wc_pc = "printed"
  /\ wc' = [i \in Bucket |-> <<>>]
  /\ wc_pc' = "destroyed"
  /\ UNCHANGED <<word_array, map_size, head, start, length, wc_out>>

WcStep == WcTurn \/ WcUnmapped \/ WcReturn \/ wc_output \/ wc_destroy
WcNext == WcStart \/ WcStep
WcSpec == WcInit /\ [][WcNext]_wc_vars
-----------------------------------------------------------------------------
(* The reference: where a word of the text ends, in its first n characters.*)
IsLetter(i) == i \in 1 .. size /\ word_array[i] # Space

WordFrom(i, j) ==
  /\ i \in 1 .. j
  /\ \A k \in i .. j : IsLetter(k)
  /\ ~IsLetter(i - 1) /\ ~IsLetter(j + 1)

Ends(w, n) ==
  {j \in 1 .. n : \E i \in 1 .. j : WordFrom(i, j) /\ SubSeq(word_array, i, j) = w}

Words ==
  UNION {{SubSeq(word_array, i, j) : j \in {n \in 1 .. size : WordFrom(i, n)}} :
         i \in 1 .. size}

(* What is printed is each word of the text, once, with the number of its  *)
(* occurrences, however the words are spread over the buckets.             *)
WcOutput ==
  wc_pc \in {"printed", "destroyed"} =>
    /\ Range(wc_out) = {[string |-> w, val |-> Cardinality(Ends(w, size))] : w \in Words}
    /\ Len(wc_out) = Cardinality(Words)

(* The only texts that wc_init does not survive are those of fewer         *)
(* characters than Ratio, which have no bucket, and those that fill their  *)
(* last page.                                                              *)
WcFaultsOnly == wc_pc = "fault" => size < Ratio \/ size % PageSize = 0
=============================================================================
