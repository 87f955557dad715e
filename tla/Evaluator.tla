------------------------------ MODULE Evaluator ------------------------------
(***************************************************************************)
(* Evaluation of the condition of an #if or an #elseif                     *)
(* (sourcepawn_preprocessor, evaluator.rs and preprocessor_operator.rs):   *)
(* a shunting-yard over the symbols of the line, one action per kind of    *)
(* symbol.  An identifier is replaced by its expansion (Macros), which is  *)
(* read before the rest of the line.                                       *)
(***************************************************************************)
EXTENDS Macros

CONSTANTS
    Conditions,     \* the symbols after #if: a set of sequences
    Width           \* bits of an integer (32 in the code)

ASSUME WidthAssumption == Width \in Nat /\ Width > 1
ASSUME ConditionsAssumption == Conditions \subseteq Seq(Symbols)

VARIABLES
    cond,           \* the condition being evaluated
    rest,           \* symbol_iter: what is left of it
    expansion,      \* expansion_stack, last element on top
    output,         \* output_queue: the values
    ops,            \* operator_stack
    mayBeUnary,
    looking,        \* looking_for_defined
    status,         \* "running", or how evaluate ended
    work,           \* the stack of expand_symbol, empty while it does not run
    pending,        \* its args_stack
    turn            \* parity of the turns of the two loops

evaluatorVars == <<cond, rest, expansion, output, ops, mayBeUnary, looking, status,
                   work, pending, turn>>

-----------------------------------------------------------------------------
(* Integers of Width bits; the release build wraps.                        *)
Values == -(2^(Width - 1)) .. (2^(Width - 1) - 1)
Wrap(n) == ((n + 2^(Width - 1)) % 2^Width) - 2^(Width - 1)
Bool(b) == IF b THEN 1 ELSE 0

Bits(n) == {i \in 0..(Width - 1) : (n \div 2^i) % 2 = 1}
FromBits(bits) == Wrap(SumSet({2^i : i \in bits}))
Abs(n) == IF n < 0 THEN -n ELSE n
Quotient(a, b) ==       \* truncated towards 0
    LET q == Abs(a) \div Abs(b) IN IF (a < 0) = (b < 0) THEN q ELSE -q
Remainder(a, b) == a - b * Quotient(a, b)
Shift(n) == n % Width   \* the amount of a shift is masked

(* PreOperator.  A unary minus and plus are named apart.                   *)
Unary == {"!", "~", "negate", "confirm"}
Levels == <<{"!", "~", "negate", "confirm"}, {"*", "/", "%"}, {"+", "-"},
            {"<<", ">>", ">>>"}, {"&"}, {"^"}, {"|"}, {"<", "<=", ">", ">="},
            {"==", "!="}, {"&&"}, {"||"}>>
Operators == UNION {Levels[i] : i \in DOMAIN Levels}
Priority(op) == 1 + CHOOSE i \in DOMAIN Levels : op \in Levels[i]

(* a / 0, a % 0 and the least integer divided by -1 panic in every build.  *)
Panics(op, a, b) ==
    op \in {"/", "%"} /\ (b = 0 \/ (b = -1 /\ a = -(2^(Width - 1))))

ApplyUnary(op, a) ==
    CASE op = "!" -> Bool(a = 0)
      [] op = "~" -> -a - 1
      [] op = "negate" -> Wrap(-a)
      [] op = "confirm" -> a

ApplyBinary(op, a, b) ==
    CASE op = "*" -> Wrap(a * b)
      [] op = "/" -> Quotient(a, b)
      [] op = "%" -> Remainder(a, b)
      [] op = "+" -> Wrap(a + b)
      [] op = "-" -> Wrap(a - b)
      [] op = "<<" -> Wrap(a * 2^Shift(b))
      [] op = ">>" -> a \div 2^Shift(b)
      [] op = ">>>" -> Wrap((a % 2^Width) \div 2^Shift(b))
      [] op = "&" -> FromBits(Bits(a) \cap Bits(b))
      [] op = "^" -> FromBits(SymDiff(Bits(a), Bits(b)))
      [] op = "|" -> FromBits(Bits(a) \cup Bits(b))
      [] op = "<" -> Bool(a < b)
      [] op = "<=" -> Bool(a <= b)
      [] op = ">" -> Bool(a > b)
      [] op = ">=" -> Bool(a >= b)
      [] op = "==" -> Bool(a = b)
      [] op = "!=" -> Bool(a # b)
      [] op = "&&" -> Bool(a # 0 /\ b # 0)
      [] op = "||" -> Bool(a # 0 \/ b # 0)

(* process_op: an operand that is missing is an error; the parenthesis     *)
(* that was never closed reaches unreachable!() when it finds two values.  *)
ProcessOp(r, op) ==
    LET n == Len(r.output)
        operands == IF op \in Unary THEN 1 ELSE 2
        Result(v) == [r EXCEPT !.output = Append(SubSeq(@, 1, n - operands), v)]
    IN  CASE r.status # "running" -> r
          [] r.status = "running" /\ n < operands -> [r EXCEPT !.status = "error"]
          [] r.status = "running" /\ n >= operands /\ op \in Unary ->
               Result(ApplyUnary(op, r.output[n]))
          [] r.status = "running" /\ n >= operands /\ op \notin Unary ->
               IF op = "(" THEN [r EXCEPT !.status = "unreachable"]
               ELSE IF Panics(op, r.output[n - 1], r.output[n])
               THEN [r EXCEPT !.status = "division"]
               ELSE Result(ApplyBinary(op, r.output[n - 1], r.output[n]))

(* Pop and process the operators above position keep.                      *)
ProcessAbove(keep) ==
    FoldLeft(ProcessOp, [output |-> output, status |-> "running"],
             Reverse(SubSeq(ops, keep + 1, Len(ops))))

-----------------------------------------------------------------------------
EvaluatorTypeOK ==
    /\ rest \in Seq(Symbols) /\ expansion \in Seq(Symbols) /\ pending \in Seq(Symbols)
    /\ work \in Seq([s : Symbols, d : 0..MaxDepth])
    /\ output \in Seq(Values)
    /\ ops \in Seq(Operators \cup {"("})
    /\ mayBeUnary \in BOOLEAN /\ looking \in BOOLEAN
    /\ status \in {"running", "true", "false", "error",
                   "unreachable", "division", "index"}
    /\ turn \in {0, 1}

EvaluatorInit ==
    /\ cond \in Conditions
    /\ rest = cond
    /\ expansion = <<>> /\ output = <<>> /\ ops = <<>>
    /\ mayBeUnary = TRUE /\ looking = FALSE
    /\ status = "running"
    /\ work = <<>> /\ pending = <<>> /\ turn = 0

Evaluating == status = "running" /\ work = <<>>
More == Evaluating /\ (expansion # <<>> \/ rest # <<>>)
Symbol == IF expansion # <<>> THEN Last(expansion) ELSE Head(rest)
Turn == turn' = 1 - turn
Advance ==
    /\ Turn
    /\ IF expansion # <<>>
       THEN expansion' = Front(expansion) /\ UNCHANGED rest
       ELSE rest' = Tail(rest) /\ UNCHANGED expansion
    /\ UNCHANGED cond
NoExpansion == UNCHANGED <<work, pending>>

LeftParen ==
    /\ More /\ Symbol.kind = "lparen"
    /\ Advance
    /\ ops' = Append(ops, "(")
    /\ mayBeUnary' = (mayBeUnary \/ ~looking)
    /\ UNCHANGED <<output, looking, status>> /\ NoExpansion

\* A mutation: the parenthesis stays.
BelowAndParen(open) == SubSeq(ops, 1, open)

\* What is left of the operators, once those up to the parenthesis are applied.
Below(open) == IF open > 0 THEN SubSeq(ops, 1, open - 1) ELSE <<>>

(* Up to the matching parenthesis, or everything when there is none.       *)
RightParen ==
    /\ More /\ Symbol.kind = "rparen"
    /\ Advance
    /\ LET open == SelectLastInSeq(ops, LAMBDA op : op = "(")
           r == ProcessAbove(open)
       IN  /\ output' = r.output /\ status' = r.status
           /\ ops' = Below(open)
           /\ mayBeUnary' = IF open > 0 THEN FALSE ELSE mayBeUnary
    /\ UNCHANGED looking /\ NoExpansion

Defined ==
    /\ More /\ Symbol.kind = "defined"
    /\ Advance
    /\ looking' = TRUE
    /\ UNCHANGED <<output, ops, mayBeUnary, status>> /\ NoExpansion

\* A mutation: operators of one level are read from the right.
PopsHigher(top, op) == top # "(" /\ Priority(top) < Priority(op)

(* Does the operator on the stack go before the one that is read?          *)
Pops(top, op) ==
    /\ top # "("
    /\ IF op \in Unary THEN Priority(top) < Priority(op)
                       ELSE Priority(top) <= Priority(op)

Converted(name) ==
    CASE mayBeUnary /\ name = "-" -> "negate"
      [] mayBeUnary /\ name = "+" -> "confirm"
      [] OTHER -> name

Operator ==
    /\ More /\ Symbol.kind = "op" /\ Symbol.name \in Operators
    /\ Advance
    /\ LET op == Converted(Symbol.name)
           keep == SelectLastInSeq(ops, LAMBDA top : ~Pops(top, op))
           r == ProcessAbove(keep)
       IN  /\ output' = r.output /\ status' = r.status
           /\ ops' = Append(SubSeq(ops, 1, keep), op)
           /\ mayBeUnary' = TRUE
    /\ UNCHANGED looking /\ NoExpansion

(* A number, a character, true or false.                                   *)
Literal ==
    /\ More /\ Symbol.kind = "int"
    /\ Advance
    /\ output' = Append(output, Wrap(Symbol.value))
    /\ mayBeUnary' = FALSE
    /\ UNCHANGED <<ops, looking, status>> /\ NoExpansion

(* A string, a directive, an operator that is not one of a condition.      *)
Unsupported ==
    /\ More
    /\ \/ Symbol.kind \in {"string", "directive"}
       \/ Symbol.kind = "op" /\ Symbol.name \notin Operators
    /\ Advance
    /\ status' = "error"
    /\ UNCHANGED <<output, ops, mayBeUnary, looking>> /\ NoExpansion

Ignored ==
    /\ More /\ Symbol.kind \in {"newline", "comment"}
    /\ Advance
    /\ UNCHANGED <<output, ops, mayBeUnary, looking, status>> /\ NoExpansion

(* Every other symbol: the comma, the keywords, the \ that continues a line.*)
Other(s) == s.kind \in {"ident", "comma", "keyword", "continuation"}

LookUp ==
    /\ More /\ Other(Symbol) /\ looking
    /\ Advance
    /\ output' = Append(output, Bool(Symbol.kind = "ident"
                                       /\ Symbol.name \in DOMAIN MacroTable))
    /\ looking' = FALSE /\ mayBeUnary' = FALSE
    /\ UNCHANGED <<ops, status>> /\ NoExpansion

(* expand_symbol is called; it reads the arguments of a call from the rest *)
(* and leaves what it expands to on the expansion stack.                   *)
Expand ==
    /\ More /\ Other(Symbol) /\ ~looking
    /\ Advance
    /\ work' = At(<<Symbol>>, 0) /\ pending' = <<>>
    /\ UNCHANGED <<output, ops, mayBeUnary, looking, status>>

ExpandNext ==
    /\ status = "running" /\ work # <<>>
    /\ Turn
    /\ LET e == ExpandTop([work |-> work, pending |-> pending, lexer |-> rest,
                           out |-> expansion, status |-> "ok"], FALSE)
       IN  /\ work' = e.work /\ pending' = e.pending
           /\ rest' = e.lexer /\ expansion' = e.out
           /\ status' = CASE e.status = "ok" -> "running"
                          [] e.status = "error" -> "error"
                          [] e.status = "panicked" -> "index"
    /\ UNCHANGED <<cond, output, ops, mayBeUnary, looking>>

(* Everything is read: the operators left, then the value on top.          *)
Conclude ==
    /\ Evaluating /\ expansion = <<>> /\ rest = <<>>
    /\ Turn
    /\ LET r == ProcessAbove(0)
       IN  /\ output' = r.output
           /\ status' = CASE r.status # "running" -> r.status
                          [] r.status = "running" /\ r.output = <<>> -> "error"
                          [] r.status = "running" /\ r.output # <<>> ->
                               IF Last(r.output) # 0 THEN "true" ELSE "false"
    /\ ops' = <<>>
    /\ UNCHANGED <<cond, rest, expansion, mayBeUnary, looking>> /\ NoExpansion

Done == status # "running" /\ UNCHANGED evaluatorVars

EvaluatorNext == \/ LeftParen \/ RightParen \/ Defined \/ Operator \/ Literal
        \/ Unsupported \/ Ignored \/ LookUp \/ Expand \/ ExpandNext \/ Conclude
        \/ Done

EvaluatorSpec == EvaluatorInit /\ [][EvaluatorNext]_evaluatorVars

(* evaluate runs to its end in one call of the main thread.                *)
EvaluatorFairSpec == EvaluatorSpec /\ WF_turn(status = "running" /\ Turn)

-----------------------------------------------------------------------------
(* Parentheses, and the calls of macros that have parameters.              *)
Depth(t, i) == Quantify(1..i, LAMBDA j : t[j].kind = "lparen")
                 - Quantify(1..i, LAMBDA j : t[j].kind = "rparen")
Balanced(t) == Depth(t, Len(t)) = 0 /\ \A i \in DOMAIN t : Depth(t, i) >= 0

HasParams(s) == /\ s.kind = "ident" /\ s.name \in DOMAIN MacroTable
                /\ MacroTable[s.name].params # NoParams

(* The name at i is asked for, not expanded.                               *)
AfterDefined(t, i) ==
    \/ i > 1 /\ t[i - 1].kind = "defined"
    \/ i > 2 /\ t[i - 1].kind = "lparen" /\ t[i - 2].kind = "defined"

(* A macro with parameters is called: a parenthesis follows it.            *)
CallsOnly(t) ==
    \A i \in DOMAIN t :
        HasParams(t[i]) /\ ~AfterDefined(t, i) => i < Len(t) /\ t[i + 1].kind = "lparen"

(* ... and the arguments of the call name no other such macro.             *)
CallsApart(t) ==
    \A i, j \in DOMAIN t :
        i < j /\ HasParams(t[i]) /\ ~AfterDefined(t, i) /\ HasParams(t[j]) =>
            \E k \in (i + 1)..(j - 1) : Depth(t, k) = Depth(t, i)

(* Macros close the parentheses of their bodies and call no macro in them. *)
PlainBodies ==
    \A name \in DOMAIN MacroTable :
        /\ Balanced(MacroTable[name].body)
        /\ \A i \in DOMAIN MacroTable[name].body : ~HasParams(MacroTable[name].body[i])

(* unreachable!() in process_op is never reached from a condition whose    *)
(* parentheses match and whose calls are not nested, whatever macros its   *)
(* names stand for: what the comment "Default to false when we fail to     *)
(* evaluate a condition" needs.                                            *)
BalancedIsSafe ==
    PlainBodies /\ Balanced(cond) /\ CallsOnly(cond) /\ CallsApart(cond)
        => status # "unreachable"

(* The same with calls among the arguments of calls, which does not hold:  *)
(* the arguments of a nested call are kept once, and where the outer macro *)
(* uses its parameter twice, the second call reads on in the condition.    *)
NestedIsSafe == PlainBodies /\ Balanced(cond) /\ CallsOnly(cond) => status # "unreachable"

(* ... and for every condition: a parenthesis that is not closed is enough.*)
UnreachableIsUnreachable == status # "unreachable"
=============================================================================
