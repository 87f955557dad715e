---------------------------- MODULE DeclarationsMC ----------------------------
EXTENDS Declarations

EnumLabel(counter) == "Enum#" \o ToString(counter)

\* Nodes with the rows between them and the node before, and the rows they take.
N(kind, name, gap) == [kind |-> kind, name |-> name, gap |-> gap, rows |-> 0, inside |-> FALSE,
                       locals |-> <<>>, params |-> <<>>]
In(node) == [node EXCEPT !.inside = TRUE]
Long(node) == [node EXCEPT !.rows = 1]
Fn(gap) == [N("function", "f", gap) EXCEPT !.locals = <<"x">>, !.params = <<"y">>]
Vars(gap) == [N("variable", "v", gap) EXCEPT !.locals = <<"v", "w">>]

\* The rows of a text: a node starts `gap` rows after the one before ended.
Placed(nodes) ==
    LET last[i \in 0..Len(nodes)] == IF i = 0 THEN 0 ELSE last[i - 1] + nodes[i].gap + nodes[i].rows
    IN  [i \in DOMAIN nodes |->
           [kind |-> nodes[i].kind, name |-> nodes[i].name, inside |-> nodes[i].inside,
            locals |-> nodes[i].locals, params |-> nodes[i].params,
            row |-> last[i - 1] + nodes[i].gap, last |-> last[i]]]

Notes == {N("comment", "", g) : g \in 0..2} \cup {Long(N("comment", "", 1)), N("pragma", "", 1)}
Decls == {Fn(0), Fn(1), Fn(2), Vars(1), N("define", "f", 1), N("define", "D", 0), N("typedef", "T", 1),
          N("enum", "", 1)}
Members == {<<N("enum", "", 1), In(N("entry", "a", 0))>>, <<N("enum", "E", 1), In(N("entry", "a", 1))>>,
            <<N("enum_struct", "S", 1), In(N("field", "a", 1))>>,
            <<N("methodmap", "M", 1), In(Fn(1))>>, <<N("methodmap", "M", 1), In(N("property", "p", 1))>>,
            <<N("typeset", "T", 1), In(N("expression", "", 1))>>}
Inner == {In(note) : note \in Notes} \cup {In(N("entry", "b", 1)), In(N("expression", "", 1)), In(Fn(1))}
\* Only what the grammar allows inside each container.
Allowed(kind, node) ==
    \/ node.kind \in {"comment", "pragma"}
    \/ kind = "enum" /\ node.kind = "entry"
    \/ kind = "typeset" /\ node.kind = "expression"
    \/ kind \in {"enum_struct", "methodmap"} /\ node.kind = "function"

MCTexts ==
    {Placed(s) : s \in BoundedSeq(Notes \cup Decls, 3)}
      \cup {Placed(<<a, b, c, Fn(1)>>) : a \in Decls, b, c \in Notes}
      \cup {Placed(<<n>> \o m \o <<i, j, d>>) : n \in Notes, m \in Members, i, j \in Inner, d \in {Fn(1), Vars(1)}}
GrammaticalTexts ==
    {t \in MCTexts : \A i \in DOMAIN t : t[i].inside =>
        \E c \in 1..(i - 1) : /\ t[c].kind \in Containers
                              /\ \A k \in (c + 1)..i : t[k].inside
                              /\ Allowed(t[c].kind, t[i]) \/ i = c + 1}
=============================================================================
