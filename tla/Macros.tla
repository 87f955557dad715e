------------------------------- MODULE Macros -------------------------------
(***************************************************************************)
(* Macro expansion of the preprocessor (sourcepawn_preprocessor,           *)
(* macros.rs): expand_symbol takes the symbol of a macro from the lexer,   *)
(* collects the arguments of a call from the lexer, and leaves the         *)
(* expansion on a stack that is read before the lexer.  It is called for   *)
(* the identifiers of a condition (Evaluator) and of the code.             *)
(*                                                                         *)
(* A symbol is a record with its kind; the columns between symbols         *)
(* (Delta) and the ranges only lay the output out and are left out.        *)
(***************************************************************************)
EXTENDS Integers, Sequences, SequencesExt, FiniteSetsExt

CONSTANT MacroTable     \* the macros known: name -> [params, body]

BareKinds == {"lparen", "rparen", "comma", "defined", "keyword", "newline", "comment",
              "continuation", "string", "directive"}
Symbols == [kind : BareKinds] \cup [kind : {"int"}, value : Int]
             \cup [kind : {"op", "ident"}, name : STRING]

Tok(kind) == [kind |-> kind]
Num(n) == [kind |-> "int", value |-> n]
Op(name) == [kind |-> "op", name |-> name]
Ident(name) == [kind |-> "ident", name |-> name]

(* Macro: params[i] is the position of parameter %i, -1 when %i is not one *)
(* of the parameters; an object-like macro has no params.                  *)
NoParams == <<>>
Slots == 0..9
Params(f) == [i \in Slots |-> IF i \in DOMAIN f THEN f[i] ELSE -1]
NbParams(macro) == Cardinality({i \in Slots : macro.params[i] # -1})

ASSUME TableAssumption ==
    \A name \in DOMAIN MacroTable :
        /\ MacroTable[name].params \in {NoParams} \cup [Slots -> Nat \cup {-1}]
        /\ MacroTable[name].body \in Seq(Symbols)

MaxDepth == 5           \* expand_symbol drops what is nested that deep

-----------------------------------------------------------------------------
(* collect_arguments.  stream is what is left of the arguments of the      *)
(* enclosing call followed by the lexer; used counts what has been read.   *)
(* A symbol below the first parenthesis is kept for a macro nested in the  *)
(* arguments; a closing one below the second is kept twice.                *)
ReadArgument(c, s, nb) ==
    LET depth == CASE s.kind = "lparen" -> c.depth + 1
                   [] s.kind = "rparen" -> c.depth - 1
                   [] OTHER -> c.depth
        kept  == (IF s.kind = "rparen" /\ c.depth > 1 THEN <<s>> ELSE <<>>)
                   \o (IF depth > 1 THEN <<s>> ELSE <<>>)
        next  == s.kind = "comma" /\ c.depth = 1 /\ c.idx + 1 < nb
        isArg == c.depth = 1 /\ s.kind \notin {"lparen", "rparen"} /\ ~next
    IN  IF c.closed
        THEN c
        ELSE [closed |-> s.kind = "rparen" /\ depth = 0,
              depth  |-> depth,
              idx    |-> IF next THEN c.idx + 1 ELSE c.idx,
              args   |-> IF isArg THEN [c.args EXCEPT ![c.idx] = Append(@, s)]
                                  ELSE c.args,
              nested |-> IF s.kind = "rparen" /\ depth = 0 THEN c.nested
                                                          ELSE c.nested \o kept,
              used   |-> c.used + 1]

CollectArguments(stream, nb) ==
    FoldLeft(LAMBDA c, s : ReadArgument(c, s, nb),
             [closed |-> FALSE, depth |-> 0, idx |-> 0, nested |-> <<>>,
              args |-> [i \in Slots |-> <<>>], used |-> 0],
             stream)

-----------------------------------------------------------------------------
(* expand_macro: the body with %n replaced by the n-th argument, #%n by    *)
(* its text, and %% by %.  status is "panicked" where the code indexes an  *)
(* argument that is not a parameter.                                       *)
Substitute(b, child, args, params) ==
    LET slot == IF child.value \in Slots THEN params[child.value] ELSE 10
        base == Front(b.out)                    \* without the % just pushed
    IN  CASE slot >= 10 -> [b EXCEPT !.status = "error"]
          [] slot = -1  -> [b EXCEPT !.status = "panicked"]
          [] OTHER ->
               [b EXCEPT !.out = IF b.stringize
                                 THEN Append(Front(base), Tok("string"))
                                 ELSE base \o args[slot],
                         !.percents = 0, !.stringize = FALSE]

ExpandChild(b, child, args, params) ==
    IF b.status # "ok"
    THEN b
    ELSE CASE child = Op("%") ->
                [b EXCEPT !.percents = @ + 1,
                          !.out = IF b.percents % 2 = 0 THEN Append(@, child) ELSE @]
           [] child = Op("#") -> [b EXCEPT !.stringize = TRUE, !.out = Append(@, child)]
           [] child.kind = "int" /\ b.percents = 1 -> Substitute(b, child, args, params)
           [] child.kind = "int" /\ b.percents # 1 ->
                [b EXCEPT !.percents = 0, !.out = Append(@, child)]
           [] OTHER -> [b EXCEPT !.percents = 0, !.stringize = FALSE,
                                 !.out = Append(@, child)]

ExpandMacro(args, macro) ==
    FoldLeft(LAMBDA b, child : ExpandChild(b, child, args, macro.params),
             [out |-> <<>>, percents |-> 0, stringize |-> FALSE, status |-> "ok"],
             macro.body)

-----------------------------------------------------------------------------
(* One turn of the loop of expand_symbol, which goes on while work, its    *)
(* stack, has entries; the last is on top.  pending is args_stack in the   *)
(* order it is read; out is the expansion stack, whose top is its last     *)
(* element.                                                                *)
At(symbols, d) == [i \in DOMAIN symbols |-> [s |-> symbols[i], d |-> d]]

ExpandCall(x, macro, d) ==
    LET c == CollectArguments(x.pending \o x.lexer, NbParams(macro))
        b == ExpandMacro(c.args, macro)
        fromLexer == IF c.used > Len(x.pending) THEN c.used - Len(x.pending) ELSE 0
    IN  [x EXCEPT !.work = @ \o At(b.out, d + 1),
                  !.pending = c.nested \o SubSeq(@, c.used + 1, Len(@)),
                  !.lexer = SubSeq(@, fromLexer + 1, Len(@)),
                  !.status = b.status]

\* A mutation: a name that is no macro stands for itself in a condition too.
UndefinedKept(x, s, allowUndefined) == [x EXCEPT !.out = Append(@, s)]

Undefined(x, s, allowUndefined) ==
    IF allowUndefined THEN [x EXCEPT !.out = Append(@, s)]
                      ELSE [x EXCEPT !.status = "error"]

ExpandTop(e, allowUndefined) ==
    LET s == Last(e.work).s
        d == Last(e.work).d
        x == [e EXCEPT !.work = Front(@)]
    IN  CASE d = MaxDepth -> x
          [] d # MaxDepth /\ s.kind = "ident" /\ s.name \notin DOMAIN MacroTable ->
               Undefined(x, s, allowUndefined)
          [] d # MaxDepth /\ s.kind = "ident" /\ s.name \in DOMAIN MacroTable ->
               LET macro == MacroTable[s.name]
               IN  IF macro.params = NoParams
                   THEN [x EXCEPT !.work = @ \o At(macro.body, d + 1)]
                   ELSE ExpandCall(x, macro, d)
          [] d # MaxDepth /\ s.kind \in {"newline", "comment", "continuation"} -> x
          [] OTHER -> [x EXCEPT !.out = Append(@, s)]
=============================================================================
