----------------------------- MODULE EvaluatorMC -----------------------------
EXTENDS Grammar, TLC

\* ONE is object-like, SUM is made of it, LOOP is its own expansion,
\* SUB has two parameters, MOD one and an escaped %, BAD a slot that is none,
\* PAR one between parentheses, TWICE uses its one twice; INT is a keyword.
MCMacroTable ==
    [ONE  |-> [params |-> NoParams, body |-> <<Num(1)>>],
     SUM  |-> [params |-> NoParams, body |-> <<Ident("ONE"), Op("+"), Num(2)>>],
     LOOP |-> [params |-> NoParams, body |-> <<Ident("LOOP")>>],
     SUB  |-> [params |-> Params((0 :> 0) @@ (1 :> 1)),
               body |-> <<Op("%"), Num(0), Op("-"), Op("%"), Num(1)>>],
     MOD  |-> [params |-> Params(1 :> 0),
               body |-> <<Op("%"), Num(1), Op("%"), Op("%"), Num(2)>>],
     BAD  |-> [params |-> Params(1 :> 0), body |-> <<Op("%"), Num(2)>>],
     PAR  |-> [params |-> Params(0 :> 0),
               body |-> <<Tok("lparen"), Op("%"), Num(0), Tok("rparen"), Op("*"), Num(2)>>],
     INT  |-> [params |-> NoParams, body |-> <<Tok("keyword")>>],
     TWICE |-> [params |-> Params(0 :> 0),
               body |-> <<Op("%"), Num(0), Op("+"), Op("%"), Num(0)>>]]

Small == {Num(1), Num(2), Op("-"), Op("*"), Op("=="), Tok("lparen"), Tok("rparen")}
Wide  == {Num(0), Num(7), Op("-"), Op("!"), Op("/"), Op("&&"), Op("<<"), Op("~"),
          Op("|"), Tok("lparen"), Tok("rparen"), Tok("defined"), Tok("comment"),
          Tok("continuation"), Ident("INT"),
          Ident("ONE"), Ident("SUM"), Ident("LOOP"), Ident("U"), Ident("BAD")}
Others == {Op("<"), Op(">="), Op("!="), Op("||"), Op(">>"), Op(">>>"), Op("&"), Op("^"),
           Op("+"), Op("%"), Op("#"), Tok("string"), Tok("directive"), Tok("comma")}
Args  == {Num(1), Num(3), Op("-"), Tok("comma"), Ident("SUM"), Tok("rparen")}

\* Calls with parentheses, and with calls, among their arguments.
Between(t) == <<Tok("lparen")>> \o t \o <<Tok("rparen")>>
Call(f, args) == <<Ident(f)>> \o Between(args)
Arguments == {Between(<<Num(2)>>), Between(Between(<<Num(2)>>)), Call("ONE", <<Num(2)>>)}
               \cup {Call(f, <<Num(2)>>) : f \in {"MOD", "PAR", "TWICE"}}
               \cup {Call("MOD", Between(<<Num(2)>>)) \o <<Op("+")>> \o Call("MOD", <<Num(1)>>)}

MCConditions ==
    BoundedSeq(Small, 5) \cup BoundedSeq(Wide, 3)
      \cup {<<Num(a), o, Num(b)>> : a \in {8, 13, 0, 2, 5}, b \in {13, 15, 0, 3, 4},
                                    o \in Others \cup Wide \cup Small}
      \cup {<<Ident(f), Tok("lparen")>> \o args \o <<Tok("rparen")>> :
               f \in {"SUB", "MOD"}, args \in BoundedSeq(Args, 3)}
      \cup {<<Ident("SUB"), Tok("lparen"), Num(7), Tok("comma"), Num(2),
              Tok("rparen"), o, a>> : o \in Others \cup Wide, a \in Wide}
      \cup {<<Num(1), Op("+")>> \o Between(Call(f, args) \o tail) :
               f \in {"MOD", "PAR", "TWICE"}, args \in Arguments,
               tail \in {<<>>, <<Op("-"), Num(2)>>}}
      \cup {<<Tok("defined")>> \o Between(<<Ident(f)>>) \o <<o>> \o Call(f, <<Num(1)>>) :
               f \in {"PAR", "ONE"}, o \in {Op("&&"), Tok("lparen"), Tok("defined")}}
=============================================================================
