------------------------------- MODULE MCShell -------------------------------
(* The shell: its input line, or one command that it executes.  The two    *)
(* share only the end of a command: Hanging are those that CommandReturns  *)
(* leaves out.  Arrays of three bytes: lines that fit, lines of up to six  *)
(* characters that run into data and may be shortened again, and the       *)
(* seventh character that overwrites i.  With nine values a byte, an index *)
(* reaches i, j and one byte behind the object.                            *)
(* Binary numerals of up to three digits, words of three bits, which every *)
(* operation leaves on both sides, and a term's array of three.            *)
EXTENDS LineEditor, Calculator

VARIABLE part      \* which of the two is looked at

vars == <<lineVars, calcVars, part>>

MCHanging == {<<1, 4>>}

Texts == {<<>>, <<0>>, <<1>>, <<1, 0>>, <<1, 1>>, <<1, 1, 1>>}
Ends == {<<>>, <<Other>>}

MCLines ==
    { [word |-> word, rest |-> <<Other>> \o n \o c \o m \o t] :
          word \in Operations, n \in Texts, c \in {<<>>, <<Comma>>},
          m \in Texts, t \in Ends } \union
    [word : Replies \union {"other"}, rest : Ends]

(* One and one.                                                            *)
MCSum == {[word |-> "add", rest |-> <<Other, 1, Comma, 1>>]}

Init == LineInit /\ CalcInit /\ part \in {"line", "command"}

EditLine == part = "line" /\ LineNext /\ UNCHANGED <<calcVars, part>>
RunCommand == part = "command" /\ CalcNext /\ UNCHANGED <<lineVars, part>>

Next == EditLine \/ RunCommand

(* Both run inside the keyboard's interrupt, which goes on.                *)
Spec ==
    /\ Init /\ [][Next]_vars
    /\ WF_vars(part = "line" /\ EndOfLine /\ UNCHANGED <<calcVars, part>>)
    /\ WF_vars(part = "command" /\ Calculate /\ UNCHANGED <<lineVars, part>>)
=============================================================================
