----------------------------- MODULE ReferencesMC -----------------------------
EXTENDS Requests

\* Each name has its column.
Column == [Sub |-> 2, Base |-> 6, h |-> 12, k |-> 12, g |-> 16, f |-> 20, b |-> 24, this |-> 28, get |-> 33]
Tok(line, name) ==
    [line |-> line, col |-> Column[name], src |-> Column[name], name |-> name, parent |-> "", new |-> FALSE]
New(line, name) == [Tok(line, name) EXCEPT !.new = TRUE]
Dot(line, of, name) == [Tok(line, name) EXCEPT !.parent = of]
\* To the right of a macro whose body is longer by `diff`, or in that body.
Shifted(token, diff) == [token EXCEPT !.col = @ + diff]
InBody(token) == [token EXCEPT !.src = Unwritten]
It(kind, key, first, last) ==
    [kind |-> kind, key |-> key, col |-> Column[Last(key)], src |-> Column[Last(key)], first |-> first, last |-> last, type |-> "", inherits |-> ""]
Typed(item, type) == [item EXCEPT !.type = type]
Child(item, of) == [item EXCEPT !.inherits = of]
Text(items, uses, includes) ==
    [items |-> items, includes |-> includes, uses |-> uses \cup {TokenOf(items[i]) : i \in DOMAIN items},
     offsets |-> NoOffsets]
Expanding(text, line, offsets) == [text EXCEPT !.offsets = line :> offsets]

Func(name, first, last) == It("function", <<name>>, first, last)
\* inc: a function f and a typedef g; f and a methodmap Base with a method get;
\* g and another Base.
IncTexts ==
    {Text(<<Func("f", 1, 1), It("typedef", <<"g">>, 2, 2)>>, {}, {}),
     Text(<<Func("f", 1, 1), It("methodmap", <<"Base">>, 2, 4), It("function", <<"Base", "get">>, 3, 3)>>,
          {Tok(3, "f")}, {}),
     Text(<<It("methodmap", <<"Base">>, 1, 2), It("function", <<"Base", "Base">>, 2, 2), Func("g", 3, 3)>>,
          {Tok(3, "h")}, {})}
\* main: h, with a local named as inc's function; a line where two macros are
\* expanded, so that the preprocessed text has g where f is written; and the
\* methodmap Sub, with a use of f that comes from a macro's body.
MainTexts ==
    {Text(<<Func("h", 1, 3), Typed(It("local", <<"h", "b">>, 2, 2), "Base")>>,
          {Tok(3, "f"), New(2, "Base"), Tok(3, "b"), Dot(3, "b", "get")}, {"inc"}),
     Expanding(Text(<<Func("h", 1, 2), It("local", <<"h", "f">>, 2, 2), Func("k", 3, 4)>>,
                    {Tok(2, "f"), Shifted(Tok(4, "f"), 3), Shifted(Tok(4, "g"), 4)}, {"inc"}),
               4, <<[col |-> 3, diff |-> 4], [col |-> 18, diff |-> -1]>>),
     Expanding(Text(<<Child(It("methodmap", <<"Sub">>, 1, 3), "Base"), It("function", <<"Sub", "h">>, 2, 3),
                      Func("h", 4, 5)>>,
                    {Tok(3, "this"), Dot(3, "this", "get"), Tok(3, "h"), Tok(4, "f"), InBody(Tok(5, "f"))},
                    {"inc"}),
               5, <<[col |-> 20, diff |-> 2]>>)}
\* a methodmap that inherits from itself.
Looping == Text(<<Child(It("methodmap", <<"Base">>, 1, 2), "Base")>>, {Tok(2, "Base"), Dot(2, "Base", "get")}, {})
MCTexts == [d \in {"main", "inc"} |-> IF d = "main" THEN MainTexts ELSE IncTexts \cup {Looping}]
=============================================================================
