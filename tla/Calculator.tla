----------------------------- MODULE Calculator -----------------------------
(***************************************************************************)
(* The commands of the shell, processdata of kernel.cpp, and the           *)
(* calculator behind them.  It runs inside the keyboard's interrupt, one   *)
(* command at a time.                                                      *)
(*                                                                         *)
(* A command is its first word and the characters behind it, from data[3]  *)
(* on: digits, the comma, and any other.  Two arrays are never terminated: *)
(* that of a term, and that of the digits which inttostring prints.  What  *)
(* follows in them is what the stack held: nothing, or any characters.     *)
(* The build does not optimise, so that operatorchecker, which returns     *)
(* nothing for other words, gives the 0 of its last comparison.            *)
(***************************************************************************)
EXTENDS Integers, Sequences

CONSTANTS Base,      \* of the numerals, 10
          ByteSize,  \* values of a uint8_t, 256
          WordSize,  \* values of a uint16_t, 65536
          DataSize,  \* of data, 100
          TermSize,  \* of a term's array, 10
          Lines      \* commands that are typed

Comma == Base
Other == Base + 1
Digits == 0 .. Base - 1
Words == 0 .. WordSize - 1
Operations == {"add", "sub", "mul", "div"}
Replies == {"hi", "exit", "clear", "help"}

ASSUME BaseAssumption == Base \in Nat \ {0, 1}
ASSUME SizesAssumption ==
    /\ ByteSize \in Nat /\ WordSize \in Nat \ {0}
    /\ TermSize \in Nat /\ DataSize \in TermSize + 5 .. ByteSize
ASSUME LinesAssumption ==
    \A l \in Lines : l.word \in Operations \union Replies \union {"other"}
                     /\ l.rest \in Seq(Digits \union {Comma, Other})
                     /\ Len(l.rest) + 3 < DataSize

VARIABLES line,      \* the command
          behind,    \* where the first comma behind data is, or ByteSize
          step,      \* "ready", or how far the command has got
          comma,     \* commalocator's i, then its result
          a, b,      \* the two terms
          answer,    \* the digits that were printed
          clean      \* history: unwritten memory held zeros so far

calcVars == <<line, behind, step, comma, a, b, answer, clean>>

NoLine == [word |-> "other", rest |-> <<>>]

CalcInit ==
    /\ line = NoLine /\ behind = ByteSize
    /\ step = "ready"
    /\ comma = 0 /\ a = 0 /\ b = 0
    /\ answer = <<>> /\ clean = TRUE

-----------------------------------------------------------------------------
(* processdata: an operation begins; other words only print a text.        *)
Command(l) ==
    /\ step = "ready"
    /\ line' = l
    /\ \/ /\ l.word \in Operations
          /\ step' = "search"
          /\ behind' \in DataSize .. ByteSize
       \/ /\ l.word \notin Operations
          /\ step' = "printed"
          /\ UNCHANGED behind
    /\ UNCHANGED <<comma, a, b, answer, clean>>

IsComma(k) ==
    \/ k = behind
    \/ k - 2 \in DOMAIN line.rest /\ line.rest[k - 2] = Comma

(* Mutant of Advanced: the index is a signed byte.                         *)
AdvancedSigned(k) == (k + 1) % (ByteSize \div 2)

Advanced(k) == (k + 1) % ByteSize

(* commalocator, an index at a time: without a comma it goes round.        *)
Search ==
    /\ step = "search"
    /\ IF IsComma(comma) THEN step' = "first" /\ UNCHANGED comma
       ELSE comma' = Advanced(comma) /\ UNCHANGED step
    /\ UNCHANGED <<line, behind, a, b, answer, clean>>

(* len: one less than the length.                                          *)
len == Len(line.rest) + 2

(* Mutant of Copied: the last character is dropped from both terms.        *)
CopiedShort(from, to) == SubSeq(line.rest, from - 2, to - 4)

(* data[from] to data[to - 1].                                             *)
Copied(from, to) == SubSeq(line.rest, from - 2, to - 3)

(* The digit that chartoint adds for the character at n.                   *)
Temp(text, n) ==
    text[CHOOSE k \in 1 .. n : /\ text[k] \in Digits
                               /\ \A m \in k + 1 .. n : text[m] \notin Digits]

chartoint(text) ==
    LET integer[n \in 0 .. Len(text)] ==
            IF n = 0 THEN 0
            ELSE (integer[n - 1] * Base + Temp(text, n)) % WordSize
    IN  integer[Len(text)]

(* What an array with this text may be read as: a first character that is  *)
(* no digit adds whatever temp held.                                       *)
Read(text, terminated) ==
    IF terminated /\ (text = <<>> \/ text[1] \in Digits) THEN {chartoint(text)}
    ELSE Words

(* A term: its characters, then chartoint.  One that is too long is        *)
(* written over what lies behind its array: nothing is said of the rest.   *)
Term(text, here, next, result) ==
    /\ step = here
    /\ IF Len(text) > TermSize
       THEN step' = "lost" /\ UNCHANGED <<result, clean>>
       ELSE \E terminated \in BOOLEAN :
                /\ step' = next
                /\ result' \in Read(text, terminated)
                /\ clean' = (clean /\ terminated)
    /\ UNCHANGED <<line, behind, comma, answer>>

(* A comma behind data makes the first term too long.                      *)
TermOne ==
    /\ Term(IF comma < DataSize THEN Copied(4, comma)
            ELSE [k \in 1 .. comma - 4 |-> Other], "first", "second", a)
    /\ UNCHANGED b

TermTwo ==
    /\ Term(Copied(comma + 1, len), "second", "compute", b)
    /\ UNCHANGED a

Result ==
    CASE line.word = "add" -> (a + b) % WordSize
      [] line.word = "sub" -> (a - b) % WordSize
      [] line.word = "mul" -> (a * b) % WordSize
      [] line.word = "div" -> a \div b

Faults == step = "compute" /\ line.word = "div" /\ b = 0

(* inttostring: the last digit first, and nothing for 0.                   *)
inttostring(v) ==
    LET rest[n \in 0 .. WordSize] ==
            IF n = 0 THEN <<>> ELSE <<n % Base>> \o rest[n \div Base]
    IN  rest[v]

(* The operation and its answer.                                           *)
Operate ==
    /\ step = "compute" /\ ~Faults
    /\ \E terminated \in BOOLEAN :
          /\ answer' = inttostring(Result)
          /\ clean' = (clean /\ terminated)
    /\ step' = "printed"
    /\ UNCHANGED <<line, behind, comma, a, b>>

(* processdata returns: nothing is kept for the next command.              *)
Return ==
    /\ step = "printed"
    /\ line' = NoLine /\ behind' = ByteSize
    /\ step' = "ready"
    /\ comma' = 0 /\ a' = 0 /\ b' = 0
    /\ answer' = <<>> /\ clean' = TRUE

(* A division by zero: the exception has no error code, and its stub never *)
(* gets back (InterruptStubs).                                             *)
DivideError == Faults /\ UNCHANGED calcVars

(* What an overwritten frame leads to is not this module's.                *)
Undefined == step = "lost" /\ UNCHANGED calcVars

Calculate == Search \/ TermOne \/ TermTwo \/ Operate \/ DivideError \/ Return

CalcNext == (\E l \in Lines : Command(l)) \/ Calculate \/ Undefined

CalcSpec == CalcInit /\ [][CalcNext]_calcVars

-----------------------------------------------------------------------------
(* The number that digits stand for.                                       *)
AreDigits(text) == \A k \in DOMAIN text : text[k] \in Digits
IsNumeral(text) == text # <<>> /\ AreDigits(text)

NumberOf(text) ==
    LET number[n \in 0 .. Len(text)] ==
            IF n = 0 THEN 0 ELSE number[n - 1] * Base + text[n]
    IN  number[Len(text)]

Backwards(text) == [k \in 1 .. Len(text) |-> text[(Len(text) + 1) - k]]

(* The operations on numbers.                                              *)
IsResult(word, n, m, r) ==
    \/ word = "add" /\ r = (n + m) % WordSize
    \/ word = "sub" /\ (r + m) % WordSize = n
    \/ word = "mul" /\ r = (n * m) % WordSize
    \/ word = "div" /\ r * m <= n /\ n < (r + 1) * m

(* The answer to an operation on two numerals is the operation's result on *)
(* the two, as the printed texts say: "Extracting second term",            *)
(* "Performing addition operation", "Answer: " (kernel.cpp:445-450).       *)
(* It is not: see NoOtherFault.                                            *)
AnswerIsRight ==
    step = "printed" /\ clean /\ line.word \in Operations =>
        \A i \in DOMAIN line.rest :
            LET first == SubSeq(line.rest, 2, i - 1)
                second == SubSeq(line.rest, i + 1, Len(line.rest))
            IN  line.rest[i] = Comma /\ IsNumeral(first) /\ IsNumeral(second)
                => /\ IsNumeral(answer)
                   /\ IsResult(line.word, NumberOf(first) % WordSize,
                               NumberOf(second) % WordSize, NumberOf(answer))

(* The wrong answers have no other cause than these three: len is one less *)
(* than the length, so that the second term loses its last character       *)
(* (kernel.cpp:226); the digits of the result are printed last digit first *)
(* (336-371); and 0 has no digits (323).  Apart from these the six loops   *)
(* over arrays compute the result modulo 2^16 (kernel.cpp:188-510).        *)
NoOtherFault ==
    step = "printed" /\ clean /\ line.word \in Operations =>
        \A i \in DOMAIN line.rest :
            LET first == SubSeq(line.rest, 2, i - 1)
                shortened == SubSeq(line.rest, i + 1, Len(line.rest) - 1)
            IN  /\ line.rest[1] # Comma /\ line.rest[i] = Comma
                /\ IsNumeral(first) /\ AreDigits(shortened)
                => /\ answer \in Seq(Digits) /\ NumberOf(Backwards(answer)) \in Words
                   /\ IsResult(line.word, NumberOf(first) % WordSize,
                               NumberOf(shortened) % WordSize, NumberOf(Backwards(answer)))
                   /\ answer # <<>> => answer[Len(answer)] # 0

(* Every command comes to its end and the keyboard's interrupt returns, if *)
(* it has a comma, unless it divides by zero (kernel.cpp:213-219, 510).    *)
CommandReturns ==
    [](step # "ready" /\ (\E k \in DOMAIN line.rest : line.rest[k] = Comma)
       => <>(step \in {"ready", "lost"} \/ Faults))
=============================================================================
