----------------------------- MODULE Declarations -----------------------------
(***************************************************************************)
(* Store::parse and the parsers of parser/: one pass over the nodes of the *)
(* syntax tree of a document makes its items, gives each its documentation *)
(* from the comments and the #pragma deprecated met so far (the Walker),   *)
(* and records the declarations.                                           *)
(*                                                                         *)
(* A text is its nodes in the order they are visited; a node is `inside`   *)
(* the enum, enum struct, methodmap or typeset before it, or at the top.   *)
(* Of a node the rows count, its name, and for functions and variables the *)
(* names they hold; an item and a comment are known by their place in the  *)
(* text.  Types, visibilities, dimensions and the text of comments are     *)
(* left out.                                                               *)
(***************************************************************************)
EXTENDS Integers, SequencesExt

CONSTANTS
    Texts,              \* the documents
    Label(_)            \* the name of an enum that has none, by its number

Containers == {"enum", "enum_struct", "methodmap", "typeset"}
Kind == {"function", "variable", "define", "typedef", "comment", "pragma", "property",
         "entry", "field", "expression"} \cup Containers

\* The kinds that are declarations of their own.
Declared == Containers \cup {"function", "define", "typedef", "property"}

\* Nodes, in the order of their rows: a comment or a pragma ends before the
\* row after it, or on the row of what follows it.
ASSUME NodesAssumption ==
    \A t \in Texts :
        /\ Len(t) \in Nat /\ DOMAIN t = 1..Len(t)
        /\ \A i \in 1..Len(t) :
             /\ t[i].kind \in Kind /\ t[i].inside \in BOOLEAN
             /\ t[i].row \in Nat /\ t[i].last \in Nat /\ t[i].row <= t[i].last
             /\ t[i].name \in STRING
             /\ t[i].locals \in Seq(STRING) /\ t[i].params \in Seq(STRING)
        /\ \A i, j \in 1..Len(t) : i < j =>
             /\ t[i].row <= t[j].row
             /\ t[i].kind \in {"comment", "pragma"} => t[i].last <= t[j].row

\* Only an enum may have no name, and no name is spelt like a label.
ASSUME NamesAssumption ==
    \A t \in Texts :
        /\ \A i \in 1..Len(t) : t[i].kind \in Declared \ {"enum"} => t[i].name # ""
        /\ \A j \in 0..Len(t) : Label(j) \in STRING
        /\ \A j, k \in 0..Len(t) : Label(j) = Label(k) => j = k
        /\ \A i \in 1..Len(t), k \in 0..Len(t) :
             t[i].name # Label(k) /\ \A l \in DOMAIN t[i].locals : t[i].locals[l] # Label(k)

VARIABLES
    text,
    pos,                \* the nodes visited
    comments,           \* Walker::comments
    deprecated,         \* Walker::deprecated
    anon_enum_counter,
    open,               \* the container that is being read, if any
    sp_items,
    declarations        \* by key; the item is known by its place and its name

vars == <<text, pos, comments, deprecated, anon_enum_counter, open, sp_items, declarations>>

NoItem == [node |-> 0]
NoDoc == [text |-> <<>>, deprecated |-> 0]
Done == pos = Len(text) /\ open = NoItem

ItemShape(item) ==
    /\ item.node \in 1..Len(text) /\ text[item.node].kind \in Kind \ {"comment", "pragma"}
    /\ \A i \in DOMAIN item.doc.text : text[item.doc.text[i]].kind = "comment"
    /\ item.doc.deprecated # 0 => text[item.doc.deprecated].kind = "pragma"

TypeOK ==
    /\ pos \in 0..Len(text) /\ anon_enum_counter \in 0..Len(text)
    /\ \A c \in ToSet(comments) : text[c].kind = "comment"
    /\ \A p \in ToSet(deprecated) : text[p].kind = "pragma"
    /\ open # NoItem => ItemShape(open) /\ text[open.node].kind \in Containers
    /\ \A item \in ToSet(sp_items) :
         ItemShape(item) /\ \A child \in ToSet(item.children) : ItemShape(child)
    /\ \A key \in DOMAIN declarations : ItemShape(declarations[key])

Init ==
    /\ text \in Texts
    /\ pos = 0 /\ comments = <<>> /\ deprecated = <<>> /\ anon_enum_counter = 0
    /\ open = NoItem /\ sp_items = <<>> /\ declarations = [key \in {} |-> NoItem]

-----------------------------------------------------------------------------
\* A mutation: the last pragma above a row deprecates it, however far.
LastDeprecation(row) ==
    LET above == {k \in DOMAIN deprecated : text[deprecated[k]].last < row}
    IN  IF above # {} THEN deprecated[Max(above)] ELSE 0

(* Walker::find_doc.  The last pragma above the row deprecates what is on  *)
(* the row right below it.                                                 *)
Deprecation(row) ==
    LET above == {k \in DOMAIN deprecated : text[deprecated[k]].last < row}
        p == deprecated[Max(above)]
    IN  IF above # {} /\ text[p].last + 1 = row THEN p ELSE 0

\* A mutation: the chain of comments goes on over a gap.
AboveOverGaps(row) ==
    LET offset == IF Deprecation(row) = 0 THEN 1 ELSE 2
        Take(chain, c) ==
            IF chain.row = text[c].last + offset
            THEN [row |-> text[c].row, doc |-> Append(chain.doc, c)]
            ELSE [chain EXCEPT !.row = text[c].row]
    IN  FoldLeft(Take, [row |-> row, doc |-> <<>>], Reverse(comments)).doc

\* The comments above, from the last one, each ending on the row before the
\* one that follows it starts; two rows before when there is a deprecation.
Above(row) ==
    LET offset == IF Deprecation(row) = 0 THEN 1 ELSE 2
        Take(chain, c) ==
            IF chain.row = text[c].last + offset
            THEN [row |-> text[c].row, doc |-> Append(chain.doc, c)]
            ELSE [chain EXCEPT !.row = 0]
    IN  FoldLeft(Take, [row |-> row, doc |-> <<>>], Reverse(comments)).doc

FindDoc(row) == [text |-> Above(row), deprecated |-> Deprecation(row)]

\* Trailing: the last comment that starts on the row.
FindTrailing(row, among) ==
    LET on == {k \in DOMAIN among : text[among[k]].row = row}
    IN  [text |-> IF on = {} THEN <<>> ELSE <<among[Max(on)]>>, deprecated |-> Deprecation(row)]

-----------------------------------------------------------------------------
Item(node, key, doc) == [node |-> node, key |-> key, doc |-> doc, children |-> <<>>]
Child(node, key) == Item(node, key, NoDoc)

\* The next node, of one of these kinds, at the top or in the open container.
At(kinds, inside) ==
    /\ pos < Len(text)
    /\ text[pos + 1].kind \in kinds /\ text[pos + 1].inside = inside
    /\ inside = (open # NoItem)
    /\ pos' = pos + 1
    /\ UNCHANGED text
Node == text[pos + 1]
Here(name) == Item(pos + 1, IF Node.inside THEN Append(open.key, name) ELSE <<name>>, FindDoc(Node.row))

Declare(item) == declarations' = [key \in DOMAIN declarations \cup {item.key} |->
                                    IF key = item.key THEN item ELSE declarations[key]]

\* sp_items, or the children of the container.
PushItem(item) ==
    IF Node.inside
    THEN open' = [open EXCEPT !.children = Append(@, item)] /\ UNCHANGED sp_items
    ELSE sp_items' = Append(sp_items, item) /\ UNCHANGED open

\* push_comment and push_inline_comment: the last variable, define or enum
\* member gets what comment is on its row, none if there is none.
Inline(items, among) ==
    IF items = <<>> \/ text[Last(items).node].kind \notin {"variable", "define", "entry"} THEN items
    ELSE [items EXCEPT ![Len(items)].doc = FindTrailing(text[Last(items).node].row, among)]

Comment ==
    /\ \E inside \in BOOLEAN : At({"comment"}, inside)
    /\ comments' = Append(comments, pos + 1)
    /\ IF ~Node.inside
       THEN sp_items' = Inline(sp_items, comments') /\ UNCHANGED open
       ELSE IF text[open.node].kind = "enum"
       THEN open' = [open EXCEPT !.children = Inline(@, comments')] /\ UNCHANGED sp_items
       ELSE UNCHANGED <<open, sp_items>>
    /\ UNCHANGED <<deprecated, anon_enum_counter, declarations>>

PushDeprecated ==
    /\ \E inside \in BOOLEAN : At({"pragma"}, inside)
    /\ deprecated' = Append(deprecated, pos + 1)
    /\ UNCHANGED <<comments, anon_enum_counter, open, sp_items, declarations>>

\* parse_function, of a function or a method: the variables of its body are
\* its children, then its parameters; they are no declarations.
ReadBodyVariables(item) == [i \in DOMAIN Node.locals |-> Child(item.node, Append(item.key, Node.locals[i]))]
ReadFunctionParameters(item) == [i \in DOMAIN Node.params |-> Child(item.node, Append(item.key, Node.params[i]))]

ParseFunction ==
    /\ \E inside \in BOOLEAN : At({"function"}, inside)
    /\ LET item == Here(Node.name)
           function == [item EXCEPT !.children = ReadBodyVariables(item) \o ReadFunctionParameters(item)]
       IN  PushItem(function) /\ Declare(function)
    /\ comments' = <<>>
    /\ UNCHANGED <<deprecated, anon_enum_counter>>

\* parse_variable: one item for each name declared; the comments are kept.
ParseVariable ==
    /\ At({"variable"}, FALSE)
    /\ LET new == [i \in DOMAIN Node.locals |-> Child(pos + 1, <<Node.locals[i]>>)]
       IN  /\ sp_items' = sp_items \o new
           /\ declarations' = [key \in DOMAIN declarations \cup {v.key : v \in ToSet(new)} |->
                                 IF \E v \in ToSet(new) : v.key = key
                                 THEN CHOOSE v \in ToSet(new) : v.key = key ELSE declarations[key]]
    /\ UNCHANGED <<comments, deprecated, anon_enum_counter, open>>

\* parse_define and parse_macro look for a comment on the row before it is
\* visited: what is there comes with the comment that follows.
ParseDefine ==
    /\ At({"define"}, FALSE)
    /\ LET item == Item(pos + 1, <<Node.name>>, FindTrailing(Node.row, comments))
       IN  PushItem(item) /\ Declare(item)
    /\ UNCHANGED <<comments, deprecated, anon_enum_counter>>

\* A mutation: the comments are not cleared.
ParseTypedefKeeping ==
    /\ At({"typedef"}, FALSE)
    /\ PushItem(Here(Node.name)) /\ Declare(Here(Node.name))
    /\ UNCHANGED <<comments, deprecated, anon_enum_counter>>

ParseTypedef ==
    /\ At({"typedef"}, FALSE)
    /\ PushItem(Here(Node.name)) /\ Declare(Here(Node.name))
    /\ comments' = <<>>
    /\ UNCHANGED <<deprecated, anon_enum_counter>>

ParseProperty ==
    /\ At({"property"}, TRUE) /\ text[open.node].kind = "methodmap"
    /\ PushItem(Here(Node.name)) /\ Declare(Here(Node.name))
    /\ comments' = <<>>
    /\ UNCHANGED <<deprecated, anon_enum_counter>>

\* parse_enum_struct, parse_methodmap and parse_typeset up to their members.
OpenContainer ==
    /\ At(Containers \ {"enum"}, FALSE)
    /\ open' = Here(Node.name)
    /\ comments' = <<>>
    /\ UNCHANGED <<deprecated, anon_enum_counter, sp_items, declarations>>

\* A mutation: all enums without a name have one number.
EnumNameUncounted(counter) == IF Node.name = "" THEN Label(0) ELSE Node.name

\* parse_enum up to its members, and get_enum_name_and_range: an enum without
\* a name is numbered.
EnumName(counter) == IF Node.name = "" THEN Label(counter) ELSE Node.name
OpenEnum ==
    /\ At({"enum"}, FALSE)
    /\ open' = Here(EnumName(anon_enum_counter))
    /\ anon_enum_counter' = anon_enum_counter + (IF Node.name = "" THEN 1 ELSE 0)
    /\ comments' = <<>>
    /\ UNCHANGED <<deprecated, sp_items, declarations>>

\* read_enum_entry: the key of a member is its name alone.
ReadEnumEntry ==
    /\ At({"entry"}, TRUE) /\ text[open.node].kind = "enum"
    /\ PushItem(Child(pos + 1, <<Node.name>>))
    /\ UNCHANGED <<comments, deprecated, anon_enum_counter, declarations>>

ParseEnumStructField ==
    /\ At({"field"}, TRUE) /\ text[open.node].kind = "enum_struct"
    /\ PushItem(Child(pos + 1, Append(open.key, Node.name)))
    /\ UNCHANGED <<comments, deprecated, anon_enum_counter, declarations>>

\* parse_typeset_expression documents a member from the row of the typeset.
ParseTypesetExpression ==
    /\ At({"expression"}, TRUE) /\ text[open.node].kind = "typeset"
    /\ PushItem(Item(pos + 1, <<Head(open.key), Len(open.children)>>, FindDoc(text[open.node].row)))
    /\ comments' = <<>>
    /\ UNCHANGED <<deprecated, anon_enum_counter, declarations>>

\* The end of these parsers: the item and its declaration.
CloseContainer ==
    /\ open # NoItem
    /\ pos < Len(text) => ~Node.inside
    /\ sp_items' = Append(sp_items, open) /\ Declare(open)
    /\ open' = NoItem
    /\ UNCHANGED <<text, pos, comments, deprecated, anon_enum_counter>>

Next ==
    \/ Comment \/ PushDeprecated \/ ParseFunction \/ ParseVariable \/ ParseDefine
    \/ ParseTypedef \/ ParseProperty \/ OpenContainer \/ OpenEnum \/ ReadEnumEntry
    \/ ParseEnumStructField \/ ParseTypesetExpression \/ CloseContainer

Spec == Init /\ [][Next]_vars

-----------------------------------------------------------------------------
AllItems == (UNION {{item} \cup ToSet(item.children) : item \in ToSet(sp_items)})
                \cup (IF open = NoItem THEN {} ELSE {open} \cup ToSet(open.children))
Row(i) == text[i].row
OnItsRow(item, c) == Row(c) = Row(item.node)

\* What documents a declaration is next to it: a comment on its own row, or
\* the comments right above it without a gap between them, whatever was
\* declared, commented and left behind before (find_doc).
DocIsAdjacent ==
    \A item \in AllItems : LET doc == item.doc.text IN
        \/ doc = <<>>
        \/ Len(doc) = 1 /\ OnItsRow(item, doc[1])
        \/ \A i \in DOMAIN doc :
             LET below == IF i = 1 THEN Row(item.node) ELSE Row(doc[i - 1])
             IN  below - text[doc[i]].last = IF item.doc.deprecated = 0 THEN 1 ELSE 2

\* A comment documents one declaration; only one that ends the row of a
\* variable, a define or an enum member may also be taken for what is
\* declared on the row below (comments.clear() in find_doc).
CommentsDocumentOnce ==
    \A a, b \in AllItems :
        a.node < b.node /\ ToSet(a.doc.text) \cap ToSet(b.doc.text) # {} =>
            /\ text[a.node].kind \in {"variable", "define", "entry"}
            /\ \A c \in ToSet(a.doc.text) : OnItsRow(a, c)

\* The deprecation of a declaration is of the row above it; that of a typeset
\* is also that of all of its members (deprecated is never cleared).
DeprecationIsAbove ==
    \A item \in AllItems : item.doc.deprecated # 0 =>
        LET p == item.doc.deprecated
        IN  \/ Row(item.node) = text[p].last + 1
            \/ /\ text[item.node].kind = "expression"
               /\ \E set \in ToSet(sp_items) \cup {open} :
                    set # NoItem /\ item \in ToSet(set.children) /\ set.doc.deprecated = p

\* Once a text is read, what it declares is declared, and a declaration that
\* is not found under its key gave way to a later one the text names the
\* same: enums without a name never take each other's place.
EveryItemIsDeclared ==
    Done => \A i \in 1..Len(text) :
        text[i].kind \in Declared =>
            \E key \in DOMAIN declarations :
                \/ declarations[key].node = i
                \/ text[i].name # "" /\ Last(key) = text[i].name /\ declarations[key].node > i
=============================================================================
