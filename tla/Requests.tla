------------------------------- MODULE Requests -------------------------------
(***************************************************************************)
(* The semantic tokens of a document (providers/semantic_tokens.rs and its *)
(* builder), read from the items and references of module References.      *)
(*                                                                         *)
(* Items are visited document by document, so that their tokens come in    *)
(* any order; the builder encodes each by its distance to the one before   *)
(* until one comes too early, takes that back, and sorts in the end.  A    *)
(* token stands for its place and type; lengths follow from the names,     *)
(* and the modifiers that are sent are always 0.                           *)
(***************************************************************************)
EXTENDS References

\* Two tokens of a text are not at one place, and each of its items has a key
\* of its own.
ASSUME PlacesAssumption ==
    \A d \in Doc : \A text \in Texts[d] :
        /\ IsFiniteSet(text.uses)
        /\ \A a, b \in text.uses : Written(a) /\ Written(b) /\ Seen(a) = Seen(b) => a = b
        /\ \A i, j \in DOMAIN text.items : text.items[i].key = text.items[j].key => i = j

Before(a, b) == a[1] < b[1] \/ (a[1] = b[1] /\ a[2] < b[2])

\* delta_line and delta_start, and back: a delta of lines makes the column
\* count from the start of the line.
Delta(prev, at) == <<at[1] - prev[1], IF at[1] = prev[1] THEN at[2] - prev[2] ELSE at[2]>>
Restored(prev, delta) ==
    <<prev[1] + delta[1], IF delta[1] = 0 THEN prev[2] + delta[2] ELSE delta[2]>>

Positions(data) == [i \in DOMAIN data |-> data[i].at]
WithPositions(data, at) == [i \in DOMAIN data |-> [data[i] EXCEPT !.at = at[i]]]
RemoveDeltas(data) ==
    WithPositions(data,
        FoldLeft(LAMBDA done, delta :
                    Append(done, Restored(IF done = <<>> THEN <<0, 0>> ELSE Last(done), delta)),
                 <<>>, Positions(data)))
DeltaEncode(data) ==
    WithPositions(data, [i \in DOMAIN data |->
        Delta(IF i = 1 THEN <<0, 0>> ELSE data[i - 1].at, data[i].at)])

NewBuilder == [prev |-> <<0, 0>>, sorted |-> TRUE, data |-> <<>>]

\* A mutation: what was encoded before a token that comes too early stays so.
PushEncodedOnly(b, token) ==
    LET sorted == b.sorted /\ ~Before(token.at, b.prev)
        at == IF sorted /\ b.data # <<>> THEN Delta(b.prev, token.at) ELSE token.at
    IN  [prev |-> token.at, sorted |-> sorted, data |-> Append(b.data, [token EXCEPT !.at = at])]

\* push_encoded
PushEncoded(b, token) ==
    LET sorted == b.sorted /\ ~Before(token.at, b.prev)
        data == IF b.sorted /\ ~sorted THEN RemoveDeltas(b.data) ELSE b.data
        at == IF sorted /\ data # <<>> THEN Delta(b.prev, token.at) ELSE token.at
    IN  [prev |-> token.at, sorted |-> sorted, data |-> Append(data, [token EXCEPT !.at = at])]

\* sort_and_delta_encode: pos.sort_by keeps the order of equal positions.
Sorted(data) ==
    LET place == [i \in DOMAIN data |->
                    Cardinality({j \in DOMAIN data : \/ Before(data[j].at, data[i].at)
                                                     \/ data[j].at = data[i].at /\ j <= i})]
    IN  [n \in DOMAIN data |-> data[CHOOSE i \in DOMAIN data : place[i] = n]]
Build(b) == IF b.sorted THEN b.data ELSE DeltaEncode(Sorted(b.data))

-----------------------------------------------------------------------------
\* The type an item is shown with: a method named as its methodmap is shown
\* as a class, the field of an enum struct as a property.
IsOf(id, kind) ==
    Len(id.key) > 1 /\ \E owner \in Live : owner = [id EXCEPT !.key = <<Head(id.key)>>] /\ Item(owner).kind = kind
TokenType(id) ==
    CASE Item(id).kind = "function" ->
           IF IsOf(id, "methodmap") /\ NameOf(id) = Head(id.key) THEN "class"
           ELSE IF Len(id.key) > 1 THEN "method" ELSE "function"
      [] Item(id).kind \in {"variable", "local"} ->
           IF IsOf(id, "enum_struct") /\ Len(id.key) = 2 THEN "property" ELSE "variable"
      [] Item(id).kind = "property" -> "property"
      [] Item(id).kind = "enum" -> "enum"
      [] Item(id).kind = "methodmap" -> "class"
      [] Item(id).kind = "enum_struct" -> "struct"
      [] Item(id).kind = "member" -> "enum_member"

\* Typedefs and typesets are passed over.
Shown(id) == Item(id).kind \notin {"typedef", "typeset"}

\* build_*: the declaration, if it is in the document, then the references
\* there, in the order they were pushed in (any).
Tokens(id, d) ==
    LET shown(place) == [at |-> place, type |-> TokenType(id)]
        refs == SetToSeq({ref \in references[id] : ref.doc = d})
    IN  IF Shown(id)
        THEN (IF id.doc = d THEN <<shown(VRangeOf(id))>> ELSE <<>>)
                \o [i \in DOMAIN refs |-> shown(refs[i].v_range)]
        ELSE <<>>

\* provide_semantic_tokens: an item before its children, as in get_sp_items_flat.
SemanticTokens(d, order) ==
    LET items == AllItems(order)
    IN  Build(FoldLeft(PushEncoded, NewBuilder,
                       FlattenSeq([i \in DOMAIN items |-> Tokens(items[i], d)])))

-----------------------------------------------------------------------------
\* The items in scope that a token declares or refers to, and that are shown.
Owners(d, token) ==
    {id \in Live : /\ id.doc \in InScope /\ Shown(id)
                   /\ \/ id.doc = d /\ token = TokenOf(Item(id))
                      \/ Refers(id, d, token)}

\* Whatever the documents went through, and in whatever order their items
\* come: what the client decodes is in the order of the text, each entry is
\* where a token is in the text as it is written now, and each token is
\* there once for each item it declares or refers to, but for typedefs and
\* typesets, as that item's type (push_encoded, build, purge_references,
\* build_v_range).  Of lines a macro is expanded on this is said until their
\* document is resolved again.  With main_path an item that was out of what
\* main includes while a document was edited, and is in it again, is still
\* shown where the document referred to it before.
HighlightsAreTheUses ==
    Quiet /\ main = NoMain => \A d \in InScope : \A order \in SetToSeqs(InScope) :
        LET shown == RemoveDeltas(SemanticTokens(d, order))
            At(token) == {i \in DOMAIN shown : shown[i].at = Seen(token)}
        IN  /\ \A i \in 2..Len(shown) : ~Before(shown[i].at, shown[i - 1].at)
            /\ \A i \in DOMAIN shown : Steady(d, shown[i].at[1]) =>
                 \E token \in store[d].text.uses : i \in At(token)
            /\ \A token \in store[d].text.uses : Steady(d, token.line) =>
                 /\ Cardinality(At(token)) = Cardinality(Owners(d, token))
                 /\ {shown[i].type : i \in At(token)} = {TokenType(id) : id \in Owners(d, token)}
=============================================================================
