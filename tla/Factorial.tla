----------------------------- MODULE Factorial -----------------------------
(***************************************************************************)
(* fact.c of the warm-up programs: the factorial of its argument, which is *)
(* a decimal numeral.                                                      *)
(***************************************************************************)
EXTENDS Integers, Sequences, FiniteSetsExt

CONSTANTS
  Args,  \* the arguments it is run with: sequences of character codes
  MaxInt \* the largest int

ASSUME FactorialAssumption == Args \subseteq Seq(Nat) /\ MaxInt \in Nat

VARIABLES
  arg,     \* argv[1], or NoArg
  fact_out \* what is printed: a word or a number, or "fault"

fact_vars == <<arg, fact_out>>

NoArg == <<-1>>
Shown(word) == [word |-> word, number |-> 0]
Number(n) == [word |-> "number", number |-> n]

FactInit == arg \in Args \cup {NoArg} /\ fact_out = Shown("none")

helper[num \in Nat \ {0}] == IF num = 1 THEN 1 ELSE helper[num - 1] * num

(* The digits 0 to 9 are the codes from 48 to 57.                          *)
Digits(s, low) == s \in low .. 57
Huh ==
  \/ Len(arg) \notin 1 .. 2
  \/ ~Digits(arg[1], 49)
  \/ Len(arg) = 2 /\ ~Digits(arg[2], 48)

num ==
  IF Len(arg) = 1 THEN arg[1] - 48 ELSE 10 * (arg[1] - 48) + arg[2] - 48

TooLargeAt12 == num >= 12 \* mutant: off by one
TooLarge == num > 12

(* Without an argument, argv[1] is NULL.                                   *)
FactMain ==
  /\ fact_out = Shown("none")
  /\ fact_out' = IF arg = NoArg THEN Shown("fault")
                 ELSE IF Huh THEN Shown("Huh?")
                 ELSE IF TooLarge THEN Shown("Overflow")
                 ELSE Number(helper[num])
  /\ UNCHANGED arg

FactSpec == FactInit /\ [][FactMain]_fact_vars
-----------------------------------------------------------------------------
(* The reference: the numeral of n, and the numbers whose product from 1   *)
(* on never leaves the int, tested by division.                            *)
Numeral(n) == IF n < 10 THEN <<48 + n>> ELSE <<48 + (n \div 10), 48 + (n % 10)>>

Times(n) == FoldSet(LAMBDA k, product : k * product, 1, 1 .. n)
FitsInt[n \in Nat] == n = 0 \/ (FitsInt[n - 1] /\ Times(n - 1) <= MaxInt \div n)

(* Every numeral from 1 to 99 without a leading zero gets its factorial,   *)
(* or "Overflow" exactly if that is larger than an int; nothing else does. *)
FactAnswers ==
  fact_out.word \notin {"none", "fault"} =>
    IF \E n \in 1 .. 99 : arg = Numeral(n)
    THEN \E n \in 1 .. 99 :
           /\ arg = Numeral(n)
           /\ fact_out = IF FitsInt[n] THEN Number(Times(n)) ELSE Shown("Overflow")
    ELSE fact_out = Shown("Huh?")
=============================================================================
