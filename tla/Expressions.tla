---------------------------- MODULE Expressions -----------------------------
(***************************************************************************)
(* The programs on stacks of src/stack.c (infix to postfix, evaluation,    *)
(* brackets) and src/bracket_checker.c.  Texts are sequences of            *)
(* characters; numbers have one digit.  A stack is a sequence with its top *)
(* at the end, as GrowableArrays.tla shows ArrayStack to be.                  *)
(***************************************************************************)
EXTENDS Integers, FiniteSets, SequencesExt

Operators == {"+", "-", "*", "/"}
Digits == <<"0", "1", "2", "3", "4", "5", "6", "7", "8", "9">>
isdigit(c) == \E k \in DOMAIN Digits : Digits[k] = c
ValueOf(c) == (CHOOSE k \in DOMAIN Digits : Digits[k] = c) - 1

precedence(op) ==
    CASE op \in {"+", "-"} -> 1
      [] op \in {"*", "/"} -> 2
      [] op = "^"          -> 3
      [] OTHER             -> 0

is_operator(c) == c \in Operators \union {"^"}

-----------------------------------------------------------------------------
(* infix_to_postfix: c is the conversion so far, its pos the characters in *)
(* the result, where each token is followed by a space.                    *)

\* Mutant: an operator of the same precedence stays on the stack.
RECURSIVE UnwindHigher(_, _, _, _)
UnwindHigher(c, p, stop, size) ==
    IF c.ops = <<>> \/ Last(c.ops) = stop \/ precedence(Last(c.ops)) <= p THEN c
    ELSE IF c.pos >= size - 2 THEN [c EXCEPT !.status = "hangs"]
    ELSE UnwindHigher([c EXCEPT !.ops = Front(@), !.result = Append(@, Last(c.ops)),
                                !.pos = @ + 2], p, stop, size)

\* The loops that move operators of precedence p or more to the result, down to
\* stop.  An operator that does not fit is not popped: the loop does not end.
RECURSIVE Unwind(_, _, _, _)
Unwind(c, p, stop, size) ==
    IF c.ops = <<>> \/ Last(c.ops) = stop \/ precedence(Last(c.ops)) < p THEN c
    ELSE IF c.pos < size - 2
         THEN Unwind([c EXCEPT !.ops = Front(@), !.result = Append(@, Last(c.ops)),
                               !.pos = @ + 2], p, stop, size)
         ELSE [c EXCEPT !.status = "hangs"]

\* The operand, and its space if that fits
Operand(c, x, size) ==
    IF c.pos < size - 1
    THEN [c EXCEPT !.result = Append(@, x),
                   !.pos = IF @ + 1 < size - 1 THEN @ + 2 ELSE @ + 1]
    ELSE [c EXCEPT !.status = "false"]

PopOpening(c) == IF c.ops = <<>> THEN c ELSE [c EXCEPT !.ops = Front(@)]

Convert(c, x, size) ==
    IF c.status # "true" THEN c
    ELSE IF isdigit(x) THEN Operand(c, x, size)
    ELSE IF x = "(" THEN [c EXCEPT !.ops = Append(@, x)]
    ELSE LET d == Unwind(c, IF x = ")" THEN 0 ELSE precedence(x), "(", size)
         IN  IF d.status # "true" THEN d
             ELSE IF x = ")" THEN PopOpening(d)
             ELSE [d EXCEPT !.ops = Append(@, x)]

infix_to_postfix(infix, size) ==
    LET c == FoldLeft(LAMBDA b, x : Convert(b, x, size),
                      [ops |-> <<>>, result |-> <<>>, pos |-> 0, status |-> "true"], infix)
    IN  IF c.status = "true" THEN Unwind(c, 0, "", size) ELSE c

-----------------------------------------------------------------------------
(* eval_postfix; a double is a fraction <<numerator, denominator>>.        *)

Calculate(op, a, b) ==
    CASE op = "+" -> <<a[1] * b[2] + b[1] * a[2], a[2] * b[2]>>
      [] op = "-" -> <<a[1] * b[2] - b[1] * a[2], a[2] * b[2]>>
      [] op = "*" -> <<a[1] * b[1], a[2] * b[2]>>
      [] op = "/" /\ b[1] # 0 -> <<a[1] * b[2], a[2] * b[1]>>
      [] OTHER -> <<0, 1>>

eval_postfix(postfix) ==
    LET step(s, x) ==
            IF isdigit(x) THEN Append(s, <<ValueOf(x), 1>>)
            ELSE Append(SubSeq(s, 1, Len(s) - 2),
                        Calculate(x, s[Len(s) - 1], s[Len(s)]))
    IN  Last(FoldLeft(step, <<>>, postfix))

\* An expression is <<digit>> or <<operator, left, right>>: what it is worth,
\* and how it is written with no more parentheses than it needs.
RECURSIVE Worth(_), Written(_)
Worth(e) == IF Len(e) = 1 THEN <<ValueOf(e[1]), 1>> ELSE Calculate(e[1], Worth(e[2]), Worth(e[3]))
Written(e) ==
    LET parens(f, least) ==
            IF Len(f) = 3 /\ precedence(f[1]) < least
            THEN <<"(">> \o Written(f) \o <<")">> ELSE Written(f)
    IN  IF Len(e) = 1 THEN e
        ELSE parens(e[2], precedence(e[1])) \o <<e[1]>> \o parens(e[3], precedence(e[1]) + 1)

Tokens(e) == Cardinality({k \in DOMAIN Written(e) : Written(e)[k] \notin {"(", ")"}})

\* infix_to_postfix and eval_postfix give an expression its value, operators of
\* one precedence from the left, exactly if the buffer has two places for every
\* token and one for the end (a single digit needs only two in all).  With a
\* smaller buffer, also one the expression would just fit, the conversion answers
\* false, or it does not end (stack.c:86, 99 and 111).
ExpressionIsRight(e) ==
    LET enough == IF Tokens(e) = 1 THEN 2 ELSE 2 * Tokens(e) + 1
    IN  \A size \in 2 .. 2 * Tokens(e) + 2 :
            LET c == infix_to_postfix(Written(e), size)
                v == eval_postfix(c.result)
            IN  /\ c.status = "true" <=> size >= enough
                /\ c.status = "true" => v[1] * Worth(e)[2] = Worth(e)[1] * v[2]

-----------------------------------------------------------------------------
is_open(c) == c \in {"(", "[", "{"}
is_close(c) == c \in {")", "]", "}"}
matching_open(c) == CASE c = ")" -> "(" [] c = "]" -> "[" [] c = "}" -> "{"

\* check_brackets of stack.c
CheckStep(c, x) ==
    CASE ~ c.ok      -> c
      [] is_open(x)  -> [c EXCEPT !.stack = Append(@, x)]
      [] is_close(x) -> IF c.stack = <<>> THEN [c EXCEPT !.ok = FALSE]
                        ELSE [stack |-> Front(c.stack), ok |-> Last(c.stack) = matching_open(x)]
      [] OTHER       -> c

stack_check_brackets(s) ==
    LET c == FoldLeft(CheckStep, [stack |-> <<>>, ok |-> TRUE], s)
    IN  c.ok /\ c.stack = <<>>

\* The for loop of check_brackets of bracket_checker.c; error is error_line and
\* error_col, and <<>> if result.ok.
Advance(c, x) ==
    IF x = "\n" THEN [c EXCEPT !.line = @ + 1, !.col = 1] ELSE [c EXCEPT !.col = @ + 1]

BracketStep(c, x) ==
    LET here == <<c.line, c.col>>
        fail == [c EXCEPT !.error = here]
    IN  CASE c.error # <<>> -> c
          [] is_open(x)     -> Advance([c EXCEPT !.stack = Append(@, <<x, here>>)], x)
          [] is_close(x)    -> IF c.stack = <<>> THEN fail
                               ELSE IF Last(c.stack)[1] # matching_open(x) THEN fail
                               ELSE Advance([c EXCEPT !.stack = Front(@)], x)
          [] OTHER          -> Advance(c, x)

check_brackets(source) ==
    LET c == FoldLeft(BracketStep,
                      [stack |-> <<>>, line |-> 1, col |-> 1, error |-> <<>>], source)
    IN  IF c.error = <<>> /\ c.stack # <<>> THEN Last(c.stack)[2] ELSE c.error

\* The places whose brackets are left when matching neighbours have been
\* struck out as long as there are any.
RECURSIVE Strike(_, _)
Strike(s, places) ==
    LET pairs == {k \in 1 .. Len(places) - 1 :
                    is_close(s[places[k + 1]]) /\ s[places[k]] = matching_open(s[places[k + 1]])}
    IN  IF pairs = {} THEN places
        ELSE LET k == CHOOSE p \in pairs : TRUE
             IN  Strike(s, SubSeq(places, 1, k - 1) \o SubSeq(places, k + 2, Len(places)))

Unmatched(s, n) ==
    Strike(s, SelectSeq([k \in 1 .. n |-> k], LAMBDA k : is_open(s[k]) \/ is_close(s[k])))

\* Where the end of a line and the characters since put a place of the text.
LineAndColumn(s, k) ==
    LET ends == {i \in 1 .. k - 1 : s[i] = "\n"}
    IN  <<Cardinality(ends) + 1, k - (CHOOSE i \in ends \union {0} : \A j \in ends : i >= j)>>

\* Both checkers accept the same texts, those whose brackets match; for any
\* other check_brackets names the first place after which no text would help,
\* or else the innermost bracket that stays open, by its line and column.
BracketsAreJudged(s) ==
    LET left == Unmatched(s, Len(s))
        hopeless == {k \in 1 .. Len(s) : \E i \in DOMAIN Unmatched(s, k) :
                                            is_close(s[Unmatched(s, k)[i]])}
        first == CHOOSE k \in hopeless : \A j \in hopeless : k <= j
    IN  /\ stack_check_brackets(s) <=> left = <<>>
        /\ check_brackets(s) =
              IF left = <<>> THEN <<>>
              ELSE LineAndColumn(s, IF hopeless # {} THEN first ELSE Last(left))
=============================================================================
