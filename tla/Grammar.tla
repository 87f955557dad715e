------------------------------- MODULE Grammar -------------------------------
(***************************************************************************)
(* What a condition means: the reference for Evaluator.  A condition is    *)
(* expanded as text, then read with the grammar of expressions.            *)
(***************************************************************************)
EXTENDS Evaluator

(* The call at i has its arguments between a parenthesis and the next      *)
(* closing one, with no other parenthesis in between.                      *)
Close(t, i) == SelectInSubSeq(t, i + 2, Len(t), LAMBDA s : s.kind = "rparen")
IsCall(t, i) ==
    /\ i < Len(t) /\ t[i + 1].kind = "lparen"
    /\ Close(t, i) > 0
    /\ \A j \in (i + 2)..Close(t, i) : t[j].kind # "lparen"

(* What stands between the separators; the last argument keeps the commas  *)
(* that are left.                                                          *)
Argument(t, i, p, nb) ==
    LET commas == SetToSortSeq({j \in (i + 2)..Close(t, i) : t[j].kind = "comma"}, <)
        from == IF p = 0 THEN i + 1 ELSE commas[p]
        to == IF p + 1 < nb /\ p + 1 <= Len(commas) THEN commas[p + 1] ELSE Close(t, i)
    IN  IF p > Len(commas) THEN <<>> ELSE SubSeq(t, from + 1, to - 1)

(* The body of a macro where a lone % and a number stand for an argument   *)
(* and %% for %.                                                           *)
PercentsBefore(body, j) ==
    j - 1 - SelectLastInSubSeq(body, 1, j - 1, LAMBDA s : s # Op("%"))
Substituted(body, Arg(_)) ==
    FlattenSeq([j \in DOMAIN body |->
        IF body[j] = Op("%")
        THEN IF \/ PercentsBefore(body, j) % 2 = 1
                \/ /\ PercentsBefore(body, j) = 0
                   /\ j < Len(body) /\ body[j + 1].kind = "int"
             THEN <<>> ELSE <<body[j]>>
        ELSE IF body[j].kind = "int" /\ PercentsBefore(body, j) = 1
        THEN Arg(body[j].value) ELSE <<body[j]>>])

(* Every slot of the body is a parameter.                                  *)
SlotsAreParams(macro) ==
    \A j \in DOMAIN macro.body :
        macro.body[j].kind = "int" /\ PercentsBefore(macro.body, j) = 1 =>
            macro.params[macro.body[j].value] >= 0

(* <<>> where the text cannot be expanded in n steps.                      *)
RECURSIVE Text(_, _)
Text(t, n) ==
    LET names == {j \in DOMAIN t : t[j].kind = "ident" /\ ~AfterDefined(t, j)}
        i == Min(names)
        macro == MacroTable[t[i].name]
        nb == NbParams(macro)
    IN  IF names = {} THEN t
        ELSE IF n = 0 \/ t[i].name \notin DOMAIN MacroTable THEN <<>>
        ELSE IF macro.params = NoParams
        THEN Text(SubSeq(t, 1, i - 1) \o macro.body \o SubSeq(t, i + 1, Len(t)), n - 1)
        ELSE IF ~IsCall(t, i) \/ ~SlotsAreParams(macro) THEN <<>>
        ELSE Text(SubSeq(t, 1, i - 1)
                    \o Substituted(macro.body,
                                   LAMBDA k : Argument(t, i, macro.params[k], nb))
                    \o SubSeq(t, Close(t, i) + 1, Len(t)), n - 1)

(* The values of t[i..j] as an expression of level p: none when it is not  *)
(* one or divides by zero, never two.  Level 0 is a primary.               *)
RECURSIVE Denotes(_, _, _, _)
Denotes(t, i, j, p) ==
    IF i > j THEN {}
    ELSE IF p = 0
    THEN CASE i = j /\ t[i].kind = "int" -> {Wrap(t[i].value)}
           [] t[i].kind = "defined" /\ \/ j = i + 1 /\ t[j].kind = "ident"
                                       \/ /\ j = i + 3 /\ t[i + 1].kind = "lparen"
                                          /\ t[i + 2].kind = "ident"
                                          /\ t[j].kind = "rparen" ->
                {Bool(t[IF j = i + 1 THEN j ELSE i + 2].name \in DOMAIN MacroTable)}
           [] t[i].kind = "lparen" /\ t[j].kind = "rparen" ->
                Denotes(t, i + 1, j - 1, Len(Levels))
           [] OTHER -> {}
    ELSE IF p = 1
    THEN IF t[i].kind = "op" /\ t[i].name \in {"!", "~", "-", "+"}
         THEN LET op == CASE t[i].name = "-" -> "negate"
                          [] t[i].name = "+" -> "confirm"
                          [] OTHER -> t[i].name
              IN  {ApplyUnary(op, a) : a \in Denotes(t, i + 1, j, 1)}
         ELSE Denotes(t, i, j, 0)
    ELSE Denotes(t, i, j, p - 1)
           \cup UNION {{ApplyBinary(t[k].name, x[1], x[2]) :
                           x \in {x \in Denotes(t, i, k - 1, p) \X Denotes(t, k + 1, j, p - 1) :
                                     ~Panics(t[k].name, x[1], x[2])}} :
                       k \in {k \in (i + 1)..(j - 1) :
                                t[k].kind = "op" /\ t[k].name \in Levels[p]}}

Meaning(t) == Denotes(t, 1, Len(t), Len(Levels))

(* A well-formed condition, with fewer expansions than the depth at which  *)
(* the code drops them, has the value the grammar gives it: whatever the   *)
(* order in which operators, parentheses and expansions come from the two  *)
(* queues evaluate reads.                                                  *)
ValueOfExpression ==
    status # "running" =>
        \A v \in Meaning(Text(cond, MaxDepth - 1)) :
            status = IF v # 0 THEN "true" ELSE "false"

(* The macros a condition may come to: those it names, and those the       *)
(* bodies of these name.                                                   *)
NamesIn(t) == {t[i].name : i \in {i \in DOMAIN t : t[i].kind = "ident"}}
                \cap DOMAIN MacroTable
RECURSIVE Reached(_)
Reached(names) ==
    LET more == names \cup UNION {NamesIn(MacroTable[name].body) : name \in names}
    IN  IF more = names THEN names ELSE Reached(more)

(* evaluate returns, and the main loop goes on, when neither the condition *)
(* nor a macro it comes to holds a comma or a keyword, or none is left     *)
(* once the calls are expanded: the expansion of such a symbol is the      *)
(* symbol itself, which is read again, for ever.                           *)
Stray(s) == s.kind \in {"comma", "keyword"}
NoneStray(t) == \A i \in DOMAIN t : ~Stray(t[i])
EvaluateReturns ==
    (\/ /\ NoneStray(cond)
        /\ \A name \in Reached(NamesIn(cond)) : NoneStray(MacroTable[name].body)
     \/ /\ Text(cond, MaxDepth - 1) # <<>>
        /\ NoneStray(Text(cond, MaxDepth - 1)))
    ~> status # "running"
=============================================================================
