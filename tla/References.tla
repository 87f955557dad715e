------------------------------ MODULE References ------------------------------
(***************************************************************************)
(* The references of the items of the store: find_references and the       *)
(* analyzer it runs (semantic_analyzer/), the life of the items and of     *)
(* their references when documents are opened, edited and removed          *)
(* (store.rs), and the requests that read them (providers/rename.rs,       *)
(* reference.rs, definition.rs).                                           *)
(*                                                                         *)
(* A text is what its tokens and items come to: `items` in the order of    *)
(* the file, each with its key, its lines and its type; `uses`, its        *)
(* tokens; `includes`; and `offsets`, the macros the preprocessor expanded *)
(* on its lines.  A token is known by its place in the preprocessed text,  *)
(* and says where it is in the text as written.  A line holds the tokens   *)
(* of one scope.  Parsing a text again makes new items: an item is known   *)
(* by its document, by the opening that made it, and by its key.           *)
(*                                                                         *)
(* Macros are left out: the items of #define, the tokens that name them    *)
(* (these keep their range), and the members of typesets.  Places are      *)
(* where ranges start.                                                     *)
(***************************************************************************)
EXTENDS Integers, FiniteSets, SequencesExt

CONSTANTS
    Doc,            \* documents
    Mains,          \* what main_path may be: documents, or NoMain
    NoMain,
    Texts,          \* [Doc -> the texts it may have]
    Removable,      \* documents that may be deleted
    MaxOpens        \* bound: openings and removals after the first parse

Kind == {"function", "variable", "methodmap", "property", "enum_struct", "enum", "typedef", "typeset",
         "local", "member"}

\* The column a token is written at: none, when a macro's body brings it in.
Unwritten == -1
Token == [line : Nat \ {0}, col : Nat, src : Nat \cup {Unwritten}, name : STRING, parent : STRING, new : BOOLEAN]
SPItem == [kind : Kind, key : Seq(STRING), col : Nat, src : Nat \cup {Unwritten}, first : Nat, last : Nat,
           type : STRING, inherits : STRING]
Offset == [col : Nat, diff : Int]
NoOffsets == [line \in {} |-> <<>>]

\* Well-formed texts: the name of an item is a token of its first line, a
\* token is where it is written unless a macro is expanded on its line, and
\* functions do not overlap, nor do methodmaps and enum structs.
TokenOf(item) == [line |-> item.first, col |-> item.col, src |-> item.src, name |-> Last(item.key), parent |-> "", new |-> FALSE]
ASSUME TextsAssumption ==
    /\ IsFiniteSet(Doc) /\ NoMain \notin Doc /\ Mains \subseteq Doc \cup {NoMain}
    /\ Removable \subseteq Doc
    /\ \A d \in Doc : \A text \in Texts[d] :
         /\ text = [items |-> text.items, uses |-> text.uses, includes |-> text.includes, offsets |-> text.offsets]
         /\ text.offsets \in [DOMAIN text.offsets -> Seq(Offset)]
         /\ \A token \in text.uses : token.line \notin DOMAIN text.offsets => token.src = token.col
         /\ text.includes \subseteq Doc /\ text.uses \subseteq Token /\ text.items \in Seq(SPItem)
         /\ \A item \in ToSet(text.items) :
              /\ item.key # <<>> /\ Last(item.key) # "" /\ item.first <= item.last
              /\ TokenOf(item) \in text.uses
         /\ \A i, j \in DOMAIN text.items : \A kinds \in {{"function"}, {"methodmap", "enum_struct"}} :
              i < j /\ text.items[i].kind \in kinds /\ text.items[j].kind \in kinds =>
                 text.items[i].last < text.items[j].first
    /\ MaxOpens \in Nat

Nothing == [items |-> <<>>, uses |-> {}, includes |-> {}, offsets |-> NoOffsets]

VARIABLES
    main,           \* the document of main_path
    store,          \* the documents: text, opening, includes, unresolved_tokens, offsets
    references,     \* of each item of the store: the Locations that refer to it
    parent,         \* MethodmapItem::parent, of those that have one
    job,            \* the find_references that runs
    queue,          \* documents to be resolved after it
    after,          \* what follows the queue: sync_references, and removal
    opens,
    lost,           \* history: names of a document's tokens that lost their item
    again           \* history: documents resolved last when their offsets were gone

vars == <<main, store, references, parent, job, queue, after, opens, lost, again>>

Idle == [doc |-> NoMain]
None == [doc |-> NoMain, sync |-> FALSE, previous |-> {}, remove |-> FALSE]
Quiet == job = Idle /\ queue = {} /\ after = None

-----------------------------------------------------------------------------
\* Items: an Arc<RwLock<SPItem>> of the store, and what its text says of it.
ItemsOf(d, doc) ==
    [i \in DOMAIN doc.text.items |-> [doc |-> d, opening |-> doc.opening, key |-> doc.text.items[i].key]]
Live == UNION {ToSet(ItemsOf(d, store[d])) : d \in DOMAIN store}
Item(id) == LET items == store[id.doc].text.items
            IN  items[SelectInSeq(items, LAMBDA i : i.key = id.key)]
NameOf(id) == Last(id.key)

\* Enum members, parameters and local variables are no declarations.
Declared(item) == item.kind \notin {"local", "member"}
Declarations(d) == {item.key : item \in {i \in ToSet(store[d].text.items) : Declared(i)}}
TopLevel(id) == Len(id.key) = 1 /\ Item(id).kind # "member"

\* SPItem::type_: an item that is a type is its own.
TypeName(id) ==
    IF Item(id).kind \in {"methodmap", "enum_struct", "enum", "typeset"} THEN NameOf(id) ELSE Item(id).type

(* get_included_files and get_all_items: the documents main includes, with *)
(* main_path, which is the least set that is closed under includes; all of *)
(* them, without.                                                          *)
Closed(docs) == \A d \in docs : store[d].includes \cap DOMAIN store \subseteq docs
InScope ==
    IF main = NoMain THEN DOMAIN store
    ELSE IF main \notin DOMAIN store THEN {}
    ELSE {d \in DOMAIN store :
            \A docs \in SUBSET DOMAIN store : main \in docs /\ Closed(docs) => d \in docs}

\* Hash maps: in an order of the documents that is any, and the same for all.
AllItems(order) == FlattenSeq([i \in DOMAIN order |-> ItemsOf(order[i], store[order[i]])])

\* tokens_map: of the items with a key, the last.
Lookup(items, key) ==
    LET i == SelectLastInSeq(items, LAMBDA id : id.key = key)
    IN  IF i = 0 THEN {} ELSE {items[i]}
FirstFound(items, keys) ==
    LET found == {i \in DOMAIN keys : Lookup(items, keys[i]) # {}}
    IN  IF found = {} THEN {} ELSE Lookup(items, keys[Min(found)])

TypeOK ==
    /\ main \in Mains
    /\ DOMAIN store \subseteq Doc
    /\ \A d \in DOMAIN store :
         /\ store[d].text \in Texts[d] \cup {Nothing}
         /\ store[d].includes \subseteq store[d].text.includes
    /\ DOMAIN references = Live
    /\ \A id \in Live : references[id] \subseteq
            [doc : Doc, token : UNION {t.uses : t \in UNION {Texts[d] : d \in Doc}}, v_range : Nat \X Nat]
    /\ job # Idle => job.doc \in DOMAIN store
    /\ queue \subseteq Doc /\ opens \in 0..MaxOpens /\ again \subseteq Doc

-----------------------------------------------------------------------------
\* reparse_all: the documents are parsed, with main_path those that main
\* includes, and find_all_references follows.
Open(text, opening) ==
    [text |-> text, opening |-> opening, includes |-> text.includes, unresolved |-> {}, offsets |-> text.offsets]

Init ==
    /\ main \in Mains
    /\ \E texts \in [Doc -> UNION {Texts[d] : d \in Doc}] :
         /\ \A d \in Doc : texts[d] \in Texts[d]
         /\ store = [d \in Doc |-> Open(texts[d], 0)]
    /\ InScope = Doc
    /\ references = [id \in Live |-> {}]
    /\ parent = [id \in {} |-> id]
    /\ job = Idle /\ queue = InScope /\ after = None /\ opens = 0 /\ lost = {} /\ again = {}

\* A mutation: what the tokens of the old text refer to is kept.
KeptReferences(refs, items, d) == refs

\* purge_references, by Analyzer::new, of all the items and their children.
Purged(refs, items, d) ==
    [id \in DOMAIN refs |->
        IF id \in items THEN {ref \in refs[id] : ref.doc # d} ELSE refs[id]]

NoScope == [func |-> "", funcs |-> 0, mm_es |-> "", mm_ess |-> 0]

\* find_references up to its loop over the tokens.
Resolve(d) ==
    /\ job = Idle /\ d \in queue
    /\ queue' = queue \ {d}
    /\ \E order \in SetToSeqs(InScope) :
         LET items == AllItems(order)
         IN  /\ references' = Purged(references, ToSet(items), d)
             /\ job' = [doc |-> d, items |-> items, todo |-> store[d].text.uses, line |-> 0,
                        previous |-> [name \in {} |-> name], scope |-> NoScope,
                        unresolved |-> {}, walk |-> <<>>]
    /\ again' = IF store[d].offsets = store[d].text.offsets THEN again \ {d} ELSE again \cup {d}
    /\ UNCHANGED <<main, store, parent, after, opens, lost>>

-----------------------------------------------------------------------------
Spans(item, line) == item.first <= line /\ line <= item.last

Beyond(items, kinds, at) == {i \in DOMAIN items : i > at /\ items[i].kind \in kinds}

\* A mutation: the scope does not go on to the next function of the file.
FollowingFirst(items, kinds, line, name, at) ==
    LET next == Beyond(items, kinds, at)
    IN  IF next # {} /\ Spans(items[Min(next)], line) THEN <<Last(items[Min(next)].key), at>>
        ELSE <<"", at>>

(* Scope::update_func and update_mm_es: the function the token before was  *)
(* in, or the next function of the file, or none; `at` is where the one    *)
(* before func_idx is among the items.                                     *)
Following(items, kinds, line, name, at) ==
    LET next == Beyond(items, kinds, at)
    IN  IF name # "" /\ Spans(items[at], line) THEN <<name, at>>
        ELSE IF next # {} /\ Spans(items[Min(next)], line)
             THEN <<Last(items[Min(next)].key), Min(next)>>
        ELSE <<"", at>>
\* funcs_in_file and mm_es_in_file are of the items of the scope.
Mine == IF job.doc \in {id.doc : id \in ToSet(job.items)} THEN store[job.doc].text.items ELSE <<>>
ScopeAt(line) ==
    LET f == Following(Mine, {"function"}, line, job.scope.func, job.scope.funcs)
        m == Following(Mine, {"methodmap", "enum_struct"}, line, job.scope.mm_es, job.scope.mm_ess)
    IN  [func |-> f[1], funcs |-> f[2], mm_es |-> m[1], mm_ess |-> m[2]]

\* update_line_context: what the line has resolved so far.
Previous(token) == IF token.line = job.line THEN job.previous ELSE [name \in {} |-> name]
With(previous, name, id) == [n \in DOMAIN previous \cup {name} |-> IF n = name THEN id ELSE previous[n]]

\* Tokens are sorted by line; of a line, extract_tokens gives the symbols first.
Turn(token) ==
    /\ job # Idle /\ token \in job.todo /\ job.walk = <<>>
    /\ \A other \in job.todo :
         /\ token.line <= other.line
         /\ token.line = other.line /\ other.parent = "" => token.parent = ""

Moved(token) == [job EXCEPT !.todo = @ \ {token}, !.line = token.line,
                            !.scope = ScopeAt(token.line), !.previous = Previous(token)]

(* build_v_range: where the user sees what the preprocessed text has at a  *)
(* column, undoing the expansions to the left of it one by one.            *)
BuildVRange(offsets, token) ==
    <<token.line,
      IF token.line \notin DOMAIN offsets THEN token.col
      ELSE FoldLeft(LAMBDA col, offset : IF offset.col < col THEN Max({col - offset.diff, 0}) ELSE col,
                    token.col, offsets[token.line])>>

\* The Location of a token; a declaration is no reference to itself
\* (push_reference).
Location(token) ==
    [doc |-> job.doc, token |-> token, v_range |-> BuildVRange(store[job.doc].offsets, token)]
Pushed(id, token) ==
    IF id.doc = job.doc /\ token = TokenOf(Item(id)) THEN references
    ELSE [references EXCEPT ![id] = @ \cup {Location(token)}]

Found(token, id) ==
    /\ references' = Pushed(id, token)
    /\ job' = [Moved(token) EXCEPT !.previous = With(@, token.name, id), !.walk = <<>>]

\* A mutation: a name that is not found is not remembered.
NotFoundForgotten(token) ==
    /\ job' = [Moved(token) EXCEPT !.walk = <<>>]
    /\ UNCHANGED references

NotFound(token) ==
    /\ job' = [Moved(token) EXCEPT !.unresolved = @ \cup {token.name}, !.walk = <<>>]
    /\ UNCHANGED references

\* resolve_this: the methodmap or enum struct of the document around it.
ResolveThis(token) ==
    /\ Turn(token) /\ token.name = "this" /\ token.parent = ""
    /\ LET around == SelectInSeq(job.items, LAMBDA id :
                        /\ id.doc = job.doc /\ Item(id).kind \in {"methodmap", "enum_struct"}
                        /\ Spans(Item(id), token.line))
       IN  job' = IF around = 0 THEN Moved(token)
                  ELSE [Moved(token) EXCEPT !.previous = With(@, "this", job.items[around])]
    /\ UNCHANGED <<main, store, references, parent, queue, after, opens, lost, again>>

\* A mutation: what no function and no methodmap holds is not looked for.
MeantLocally(token) ==
    UNION {FirstFound(job.items, << <<scope.mm_es, scope.func, token.name>>, <<scope.func, token.name>>,
                                    <<scope.mm_es, token.name>> >>) :
              scope \in {ScopeAt(token.line)}}

\* resolve_non_method_item: the item that a name means in its scope; `new`
\* before a methodmap means its constructor.
Meant(token) ==
    UNION {FirstFound(job.items, << <<scope.mm_es, scope.func, token.name>>, <<scope.func, token.name>>,
                                    <<scope.mm_es, token.name>>, <<token.name>> >>) :
              scope \in {ScopeAt(token.line)}}
Constructor(id) ==
    IF Item(id).kind = "methodmap" THEN {c \in Live : c = [id EXCEPT !.key = <<NameOf(id), NameOf(id)>>]}
    ELSE {}

ResolveSymbol(token) ==
    /\ Turn(token) /\ token.name # "this" /\ token.parent = ""
    /\ \/ Meant(token) = {} /\ NotFound(token)
       \/ \E id \in Meant(token) :
            LET ctor == IF token.new THEN Constructor(id) ELSE {}
            IN  \E target \in IF ctor = {} THEN {id} ELSE ctor : Found(token, target)
    /\ UNCHANGED <<main, store, parent, queue, after, opens, lost, again>>

(* resolve_method_item: a field of the type of a token met on the line, or *)
(* of one of the methodmaps this type inherits from, one at a time.        *)
Field(id, token) ==
    FirstFound(job.items, << <<TypeName(id), token.name>> >>)

ResolveField(token) ==
    /\ Turn(token) /\ token.parent # ""
    /\ LET previous == Previous(token)
           typed(id) == SelectInSeq(job.items, LAMBDA mm :
                          Item(mm).kind = "methodmap" /\ NameOf(mm) = TypeName(id))
       IN  \/ token.parent \notin DOMAIN previous /\ NotFound(token)
           \/ \E id \in {previous[name] : name \in DOMAIN previous \cap {token.parent}} :
                \/ \E field \in Field(id, token) : Found(token, field)
                \/ Field(id, token) = {} /\ typed(id) = 0 /\ NotFound(token)
                \/ /\ Field(id, token) = {} /\ typed(id) # 0
                   /\ job' = [job EXCEPT !.walk = <<token, job.items[typed(id)]>>]
                   /\ UNCHANGED references
    /\ UNCHANGED <<main, store, parent, queue, after, opens, lost, again>>

\* A mutation: the parent of the first methodmap is tried again and again.
WalkInheritOnce ==
    /\ job # Idle /\ job.walk # <<>>
    /\ LET token == job.walk[1]
           mm == job.walk[2]
       IN  \/ mm \notin DOMAIN parent /\ NotFound(token)
           \/ /\ mm \in DOMAIN parent
              /\ \E id \in Lookup(job.items, <<NameOf(parent[mm]), token.name>>) : Found(token, id)
    /\ UNCHANGED <<main, store, parent, queue, after, opens, lost, again>>

\* Inherit::next, over the parents that resolve_methodmap_inherits has set.
WalkInherit ==
    /\ job # Idle /\ job.walk # <<>>
    /\ LET token == job.walk[1]
           mm == job.walk[2]
       IN  \/ mm \notin DOMAIN parent /\ NotFound(token)
           \/ /\ mm \in DOMAIN parent
              /\ LET field == Lookup(job.items, <<NameOf(parent[mm]), token.name>>)
                 IN  \/ \E id \in field : Found(token, id)
                     \/ /\ field = {}
                        /\ job' = [job EXCEPT !.walk[2] = parent[mm]]
                        /\ UNCHANGED references
    /\ UNCHANGED <<main, store, parent, queue, after, opens, lost, again>>

(* resolve_methodmap_inherits, and the end of find_references.  A parent   *)
(* is looked for by name until it is found, then never again: tmp_parent   *)
(* is taken.  The offsets are dropped: when sync_references resolves the   *)
(* document again, they are not there.                                     *)
EndResolve ==
    /\ job # Idle /\ job.todo = {} /\ job.walk = <<>>
    /\ LET named(name) == SelectLastInSeq(job.items, LAMBDA id : Item(id).kind = "methodmap" /\ NameOf(id) = name)
           orphans == {id \in ToSet(job.items) \ DOMAIN parent :
                         Item(id).kind = "methodmap" /\ named(Item(id).inherits) # 0}
       IN  parent' = [id \in DOMAIN parent \cup orphans |->
                        IF id \in orphans THEN job.items[named(Item(id).inherits)] ELSE parent[id]]
    /\ store' = [store EXCEPT ![job.doc].unresolved = job.unresolved, ![job.doc].offsets = NoOffsets]
    /\ job' = Idle
    /\ lost' = {use \in lost : use[1] # job.doc}
    /\ UNCHANGED <<main, references, queue, after, opens, again>>

-----------------------------------------------------------------------------
\* handle_open_document up to find_references: new items, without references.
Reopen(d, text, remove) ==
    /\ Quiet /\ opens < MaxOpens
    /\ opens' = opens + 1
    /\ LET old == IF d \in DOMAIN store THEN ToSet(ItemsOf(d, store[d])) ELSE {}
           doc == Open(text, opens + 1)
           new == ToSet(ItemsOf(d, doc))
       IN  /\ store' = [o \in DOMAIN store \cup {d} |->
                          IF o = d THEN [doc EXCEPT !.includes = @ \cap (DOMAIN store \cup {d})] ELSE store[o]]
           /\ references' = [id \in (DOMAIN references \ old) \cup new |->
                               IF id \in new THEN {} ELSE references[id]]
           /\ after' = [doc |-> d, sync |-> TRUE, remove |-> remove,
                        previous |-> {[key |-> id.key, docs |-> {ref.doc : ref \in references[id]}] :
                                        id \in {i \in old : Declared(Item(i))}}]
           /\ lost' = lost \cup UNION {{<<ref.doc, NameOf(id)>> : ref \in references[id]} :
                          id \in {i \in old : Declared(Item(i)) => i.key \in {n.key : n \in new}}}
    /\ queue' = {d}
    /\ UNCHANGED <<main, parent, job, again>>

\* did_open, did_change and reloads from disk.
HandleOpen(d) ==
    \E text \in Texts[d] : Reopen(d, text, FALSE)

\* Store::remove opens the document as an empty one first.
RemoveDocument(d) ==
    /\ d \in DOMAIN store
    /\ Reopen(d, Nothing, TRUE)

\* A mutation: no other document is resolved again.
SyncNone ==
    /\ job = Idle /\ queue = {} /\ after.sync
    /\ after' = [after EXCEPT !.sync = FALSE]
    /\ UNCHANGED <<main, store, references, parent, job, queue, opens, lost, again>>

(* sync_references, first part: documents that have a name unresolved that *)
(* the document declares are resolved again.                               *)
Sync ==
    /\ job = Idle /\ queue = {} /\ after.sync
    /\ LET names == {Last(key) : key \in Declarations(after.doc)}
       IN  queue' = {d \in DOMAIN store : store[d].unresolved \cap names # {}}
    /\ after' = [after EXCEPT !.sync = FALSE]
    /\ UNCHANGED <<main, store, references, parent, job, opens, lost, again>>

(* sync_references, second part: the names of declarations that are gone   *)
(* are unresolved where the old items were referred to.  Then, of a        *)
(* removed document, Store::remove drops it, the includes of it and what   *)
(* references it still has in the items of the top level.                  *)
EndOpen ==
    /\ job = Idle /\ queue = {} /\ after # None /\ ~after.sync
    /\ LET d == after.doc
           deleted == {was \in after.previous : was.key \notin Declarations(d)}
           names(o) == {Last(was.key) : was \in {w \in deleted : o \in w.docs}}
           kept == IF after.remove THEN DOMAIN store \ {d} ELSE DOMAIN store
       IN  /\ store' = [o \in kept |->
                          [store[o] EXCEPT !.unresolved = @ \cup names(o),
                                           !.includes = IF after.remove THEN @ \ {d} ELSE @]]
           /\ references' = [id \in {i \in DOMAIN references : i.doc \in kept} |->
                               IF after.remove /\ TopLevel(id)
                               THEN {ref \in references[id] : ref.doc # d} ELSE references[id]]
    /\ after' = None
    /\ UNCHANGED <<main, parent, job, queue, opens, lost, again>>

\* What a handler does until it returns.
Handling ==
    \/ WalkInherit
    \/ EndResolve
    \/ Sync
    \/ EndOpen
    \/ job # Idle /\ \E token \in job.todo : ResolveThis(token) \/ ResolveSymbol(token) \/ ResolveField(token)
    \/ \E d \in Doc : Resolve(d)

Next ==
    \/ Handling
    \/ \E d \in Doc : HandleOpen(d)
    \/ \E d \in Removable : RemoveDocument(d)

Spec == Init /\ [][Next]_vars

\* The main thread never pauses within a handler.
FairSpec == Spec /\ WF_vars(Handling)
-----------------------------------------------------------------------------
(* get_items_from_position: the items at a place, which they are declared  *)
(* at or referred to from, as the user sees it.  Children of items are     *)
(* looked at only with main_path.                                          *)
Visible == {id \in Live : id.doc \in InScope /\ (main = NoMain => TopLevel(id))}
VRangeOf(id) == BuildVRange(store[id.doc].text.offsets, TokenOf(Item(id)))
ItemsAt(d, place) ==
    {id \in Visible : \/ id.doc = d /\ VRangeOf(id) = place
                      \/ \E ref \in references[id] : ref.doc = d /\ ref.v_range = place}

\* provide_rename: the edits, when the position is of one item only.
RenameEdits(d, place) ==
    IF Cardinality(ItemsAt(d, place)) # 1 THEN {}
    ELSE UNION {{[doc |-> ref.doc, at |-> ref.v_range] : ref \in references[id]}
                    \cup {[doc |-> id.doc, at |-> VRangeOf(id)]} :
                  id \in ItemsAt(d, place)}

Written(token) == token.src # Unwritten
Seen(token) == <<token.line, token.src>>
SeenAs(d, place, name) ==
    \E token \in store[d].text.uses : Written(token) /\ Seen(token) = place /\ token.name = name

\* A line whose tokens are where the offsets say: all of them are written
\* there, or no macro is expanded on it.
InPlace(d, line) ==
    \A token \in store[d].text.uses : token.line = line =>
        Written(token) /\ BuildVRange(store[d].text.offsets, token) = Seen(token)
Steady(d, line) ==
    line \notin DOMAIN store[d].text.offsets \/ (d \notin again /\ InPlace(d, line))

\* Whatever was opened, edited and removed before: a rename edits nothing
\* but what the texts have now as they are written, and only the name that
\* is renamed (purge_references, handle_open_document, build_v_range and
\* provide_rename together).  Of lines a macro is expanded on this is said
\* until sync_references resolves their document again, and not of tokens
\* that macro bodies bring in.  With main_path it fails once a document is
\* edited while one it refers to is out of what main includes: nothing
\* purges its references there.
RenameEditsTheName ==
    Quiet /\ main = NoMain => \A d \in DOMAIN store : \A token \in store[d].text.uses :
        Steady(d, token.line) => \A edit \in RenameEdits(d, Seen(token)) :
            /\ edit.doc \in DOMAIN store
            /\ Steady(edit.doc, edit.at[1]) => SeenAs(edit.doc, edit.at, token.name)

\* Location::v_range is the "user visible range": also of the tokens of a
\* document that is resolved again.  It is not (find_references has cleared
\* the offsets), which ReferencesAgain.cfg shows.
VRangesAreSeen ==
    Quiet /\ main = NoMain => \A id \in Live : \A ref \in references[id] :
        InPlace(ref.doc, ref.token.line) => ref.v_range = Seen(ref.token)

\* Every use of a name in a document is a reference of an item of that name,
\* or recorded as unresolved, or lost: its item was replaced when the document
\* of the item was opened again and still declared it (find_references and
\* sync_references look again only at names that were unresolved).
Plain(d) == {t \in store[d].text.uses : t.parent = "" /\ t.name # "this"}
Refers(id, d, token) == \E ref \in references[id] : ref.doc = d /\ ref.token = token
Linked(d, token) ==
    \E id \in Live : /\ NameOf(id) = token.name
                     /\ \/ id.doc = d /\ token = TokenOf(Item(id))
                        \/ Refers(id, d, token)
UsesAccounted ==
    Quiet => \A d \in DOMAIN store : \A token \in Plain(d) :
                \/ Linked(d, token)
                \/ token.name \in store[d].unresolved
                \/ <<d, token.name>> \in lost

\* The document that was opened last has its uses of what a document in scope
\* declares linked to a declaration of that name.
InScopeNames == {NameOf(id) : id \in {i \in Live : i.doc \in InScope /\ TopLevel(i)}}
OpenedIsLinked ==
    \A d \in DOMAIN store : Quiet /\ opens > 0 /\ store[d].opening = opens =>
        \A token \in Plain(d) : token.name \in InScopeNames => Linked(d, token)

\* When a document declares a name it did not declare before, the uses of it
\* in the documents in scope are linked once sync_references has resolved
\* them again, but for those lost: also when the name was declared earlier,
\* was deleted, and comes back.
Synced == job = Idle /\ queue = {} /\ after # None /\ ~after.sync
Added == {Last(key) : key \in {k \in Declarations(after.doc) : Len(k) = 1}}
            \ {Last(was.key) : was \in after.previous}
AddedIsLinked ==
    Synced /\ after.doc \in InScope =>
        \A d \in InScope : \A token \in Plain(d) :
            token.name \in Added /\ <<d, token.name>> \notin lost => Linked(d, token)

\* The function and the methodmap or enum struct that tokens are looked up in
\* are those around them, though Scope only ever tries the next of the file.
ScopeIsAround ==
    job # Idle /\ job.line > 0 =>
        LET around(kinds) == {Last(item.key) : item \in {i \in ToSet(Mine) : i.kind \in kinds /\ Spans(i, job.line)}}
        IN  /\ job.scope.func \in around({"function"}) \cup {""}
            /\ job.scope.func = "" => around({"function"}) = {}
            /\ job.scope.mm_es \in around({"methodmap", "enum_struct"}) \cup {""}
            /\ job.scope.mm_es = "" => around({"methodmap", "enum_struct"}) = {}

\* A handler returns: references are found in the end, as long as no
\* methodmap comes to inherit from itself (Inherit::next follows the parents
\* until one has none).
Cyclic == \E ids \in SUBSET DOMAIN parent : ids # {} /\ \A id \in ids : parent[id] \in ids
ResolutionEnds == []~Cyclic => []<>Quiet
=============================================================================
