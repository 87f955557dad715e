----------------------------- MODULE Preprocessor -----------------------------
(***************************************************************************)
(* The preprocessor over the documents of the store                        *)
(* (sourcepawn_preprocessor, preprocessor.rs, and preprocess_document,     *)
(* preprocess_document_by_uri and extend_macros of store.rs).  A document  *)
(* is read line by line; an include interrupts it and reads the included   *)
(* document first, so that what runs is a stack of preprocessors.          *)
(*                                                                         *)
(* A line is a record: its kind, the rows it takes (a line continuation, a *)
(* block comment or the arguments of a call may take several), the name it *)
(* is about, whether a condition wants the name defined, the document it   *)
(* includes.  A line that cannot be read has an unknown token, a #define   *)
(* whose parameters are none, or a call that does not expand.  What a line *)
(* of code says is left out, and so is a condition whose evaluation does   *)
(* not return (Evaluator): nothing happens after it.                       *)
(***************************************************************************)
EXTENDS Integers, Sequences, FiniteSets

CONSTANTS
    Doc,            \* documents
    Name,           \* names of macros
    Sourcemod,      \* the document read before any other, or none of Doc
    Projects,       \* the texts on disk: a set of functions [Doc -> text]
    Edits,          \* the texts the client may give it
    MaxOpens        \* bound: documents opened by the client

Kinds == {"code", "call", "define", "undef", "if", "elseif", "else", "endif", "include",
          "unreadable"}
Line == [kind : Kinds, rows : Nat \ {0}, name : Name, wants : BOOLEAN,
         target : Doc \cup {"missing"}]

ASSUME TextsAssumption ==
    /\ Projects \subseteq [Doc -> Seq(Line)]
    /\ Edits \in [Doc -> SUBSET Seq(Line)]
    /\ "missing" \notin Doc
    /\ MaxOpens \in Nat

VARIABLES
    store,          \* what the store keeps of each document
    stack,          \* the preprocessors that run, the last on top
    opens

vars == <<store, stack, opens>>

Kept == "kept"      \* a row of the preprocessed text with the code of the row
Blank == "blank"

Document == [text : Seq(Line), macros : SUBSET Name, out : Seq({Kept, Blank}),
             busy : BOOLEAN]

ConditionState == {"NotActivated", "Activated", "Active"}

(* One SourcepawnPreprocessor: pos is the line it reads, 0 for the include *)
(* of sourcemod; at remembers the macros each line was read with.          *)
Frame == [doc : Doc, opened : BOOLEAN, text : Seq(Line), pos : Nat,
          conds : Seq(ConditionState), macros : SUBSET Name,
          out : Seq({Kept, Blank}), skipped : SUBSET Nat, at : Seq(SUBSET Name)]

TypeOK ==
    /\ store \in [Doc -> Document]
    /\ stack \in Seq(Frame)
    /\ opens \in 0..MaxOpens

NewFrame(d, opened, text) ==
    [doc |-> d, opened |-> opened, text |-> text, pos |-> 0, conds |-> <<>>,
     macros |-> {}, out |-> <<>>, skipped |-> {}, at |-> <<>>]

Init ==
    /\ \E texts \in Projects :
          store = [d \in Doc |-> [text |-> texts[d], macros |-> {}, out |-> <<>>,
                                  busy |-> FALSE]]
    /\ stack = <<>>
    /\ opens = 0

-----------------------------------------------------------------------------
(* handle_open_document: a new Document, which the store does not know yet *)
(* while it is preprocessed.                                               *)
Open(d, text) ==
    /\ stack = <<>> /\ opens < MaxOpens
    /\ opens' = opens + 1
    /\ stack' = <<NewFrame(d, TRUE, text)>>
    /\ UNCHANGED store

Running == stack # <<>>
Top == stack[Len(stack)]
Reading == Running /\ Top.pos \in 1..Len(Top.text)
Current == Top.text[Top.pos]

\* A mutation: a branch after the one that was taken counts as active.
PositiveOnceTaken(conds) == conds # <<>> => conds[Len(conds)] # "NotActivated"

Positive(conds) == conds # <<>> => conds[Len(conds)] = "Active"
Popped(conds) == SubSeq(conds, 1, Len(conds) - 1)
Rows(n, row) == [i \in 1..n |-> row]

(* The line is done: what it leaves of the condition stack, of the macros  *)
(* and of the text, and whether it counts as disabled.                     *)
Advanced(f, conds, macros, rows, disabled) ==
    [f EXCEPT !.pos = @ + 1, !.conds = conds, !.macros = macros,
              !.out = @ \o rows,
              !.skipped = IF disabled THEN @ \cup {f.pos} ELSE @,
              !.at = Append(@, f.macros)]

Read(conds, macros, rows, disabled) ==
    /\ stack' = [stack EXCEPT ![Len(stack)] =
                    Advanced(Top, conds, macros, rows, disabled)]
    /\ UNCHANGED <<store, opens>>

\* A mutation: the newline is dropped with the line.
SkipWholly ==
    /\ Reading /\ ~Positive(Top.conds)
    /\ Current.kind \notin {"if", "elseif", "else", "endif"}
    /\ Read(Top.conds, Top.macros, <<>>, TRUE)

(* Any line of a branch that is not taken, but the directives of a         *)
(* condition: only its last newline is kept.                               *)
Skip ==
    /\ Reading /\ ~Positive(Top.conds)
    /\ Current.kind \notin {"if", "elseif", "else", "endif"}
    /\ Read(Top.conds, Top.macros, Rows(1, Blank), TRUE)

(* Code; the arguments of a macro lose the newlines between them.          *)
Code ==
    /\ Reading /\ Positive(Top.conds)
    /\ Current.kind \in {"code", "call"}
    /\ LET expanded == Current.kind = "call" /\ Current.name \in Top.macros
       IN  Read(Top.conds, Top.macros,
                Rows(IF expanded THEN 1 ELSE Current.rows, Kept), FALSE)

Define ==
    /\ Reading /\ Positive(Top.conds) /\ Current.kind = "define"
    /\ Read(Top.conds, Top.macros \cup {Current.name}, Rows(Current.rows, Kept), FALSE)

Undef ==
    /\ Reading /\ Positive(Top.conds) /\ Current.kind = "undef"
    /\ Read(Top.conds, Top.macros \ {Current.name}, Rows(Current.rows, Kept), FALSE)

Holds(line, macros) == (line.name \in macros) = line.wants

(* process_if_directive, which reads the line to its end.                  *)
ProcessIf(conds) ==
    Read(Append(conds, IF Holds(Current, Top.macros) THEN "Active" ELSE "NotActivated"),
         Top.macros, Rows(Current.rows, Blank), FALSE)

If ==
    /\ Reading /\ Current.kind = "if"
    /\ \/ Positive(Top.conds) /\ ProcessIf(Top.conds)
       \/ /\ ~Positive(Top.conds)
          /\ Read(Append(Top.conds, "Activated"), Top.macros, Rows(1, Blank), TRUE)

Elseif ==
    /\ Reading /\ Current.kind = "elseif" /\ Top.conds # <<>>
    /\ LET outer == Popped(Top.conds)
       IN  IF Top.conds[Len(Top.conds)] = "NotActivated"
           THEN ProcessIf(outer)
           ELSE Read(Append(outer, "Activated"), Top.macros, Rows(1, Blank), TRUE)

Else ==
    /\ Reading /\ Current.kind = "else" /\ Top.conds # <<>>
    /\ LET outer == Popped(Top.conds)
       IN  IF Top.conds[Len(Top.conds)] = "NotActivated"
           THEN Read(Append(outer, "Active"), Top.macros, Rows(1, Blank), FALSE)
           ELSE Read(Append(outer, "Activated"), Top.macros, Rows(1, Blank), TRUE)

Endif ==
    /\ Reading /\ Current.kind = "endif" /\ Top.conds # <<>>
    /\ LET outer == Popped(Top.conds)
       IN  Read(outer, Top.macros, Rows(1, Blank), ~Positive(outer))

-----------------------------------------------------------------------------
(* An include, the one of sourcemod too: extend_macros.                    *)
Target == IF Top.pos = 0 THEN Sourcemod ELSE Current.target
Including == \/ Running /\ Top.pos = 0
             \/ Reading /\ Positive(Top.conds) /\ Current.kind = "include"

PastInclude(macros) ==
    IF Top.pos = 0 THEN [Top EXCEPT !.pos = 1, !.macros = macros]
    ELSE Advanced(Top, Top.conds, macros, Rows(Current.rows, Kept), FALSE)

(* The text is empty when it has no row, or one that is blank.             *)
IsEmpty(out) == out = <<>> \/ out = <<Blank>>
\* A mutation: a document that is being read may be read again.
PreprocessedBefore(d) == ~IsEmpty(store[d].out)

Preprocessed(d) == ~IsEmpty(store[d].out) \/ store[d].busy

IncludeUnresolved ==
    /\ Including /\ Target \notin Doc
    /\ stack' = [stack EXCEPT ![Len(stack)] = PastInclude(Top.macros)]
    /\ UNCHANGED <<store, opens>>

IncludeDone ==
    /\ Including /\ Target \in Doc /\ Preprocessed(Target)
    /\ stack' = [stack EXCEPT ![Len(stack)] =
                    PastInclude(Top.macros \cup store[Target].macros)]
    /\ UNCHANGED <<store, opens>>

IncludeNew ==
    /\ Including /\ Target \in Doc /\ ~Preprocessed(Target)
    /\ store' = [store EXCEPT ![Target].busy = TRUE]
    /\ stack' = Append([stack EXCEPT ![Len(stack)] = PastInclude(Top.macros)],
                       NewFrame(Target, FALSE, store[Target].text))
    /\ UNCHANGED opens

(* The text of the document on top and its macros go to the store, and the *)
(* macros to the document that includes it.  Only a document that was      *)
(* opened stops being busy.                                                *)
Return(out) ==
    LET n == Len(stack)
    IN  /\ store' = [store EXCEPT ![Top.doc] =
                        [text |-> Top.text, macros |-> Top.macros, out |-> out,
                         busy |-> ~Top.opened]]
        /\ stack' = IF n = 1 THEN <<>>
                    ELSE [i \in 1..(n - 1) |->
                             IF i = n - 1
                             THEN [stack[i] EXCEPT !.macros = @ \cup Top.macros]
                             ELSE stack[i]]
        /\ UNCHANGED opens

(* The end of the file is not a row of its own in a branch not taken.      *)
Finish ==
    /\ Running /\ Top.pos = Len(Top.text) + 1
    /\ Return(IF Positive(Top.conds) THEN Append(Top.out, Blank) ELSE Top.out)

(* A directive without its #if, or a line that cannot be read: the text is *)
(* used as it is.                                                          *)
AllRows(text) == Rows(Len(text) + 1, Kept)
Fail ==
    /\ Reading
    /\ \/ Top.conds = <<>> /\ Current.kind \in {"elseif", "else", "endif"}
       \/ Positive(Top.conds) /\ Current.kind = "unreadable"
    /\ Return(AllRows(Top.text))

Step == \/ Skip \/ Code \/ Define \/ Undef \/ If \/ Elseif \/ Else \/ Endif
        \/ IncludeUnresolved \/ IncludeDone \/ IncludeNew \/ Finish \/ Fail

Next == Step \/ \E d \in Doc : \E text \in Edits[d] \cup {store[d].text} : Open(d, text)

Spec == Init /\ [][Next]_vars

-----------------------------------------------------------------------------
(* The lines of a text by their nesting: the #if that are open at line i,  *)
(* and the heads of the branches of one of them up to i.                   *)
Count(t, a, b, kind) == Cardinality({j \in a..b : t[j].kind = kind})
Inside(t, f, i) ==
    \A j \in f..(i - 1) : Count(t, f, j, "if") > Count(t, f, j, "endif")
Enclosing(t, i) == {f \in 1..(i - 1) : t[f].kind = "if" /\ Inside(t, f, i)}
Heads(t, f, i) ==
    {f} \cup {h \in (f + 1)..(i - 1) :
                 /\ t[h].kind \in {"elseif", "else"}
                 /\ Inside(t, f, h)
                 /\ Count(t, f, h, "if") = Count(t, f, h, "endif") + 1}

(* The branch of line i is the first of its #if whose condition holds.     *)
Selected(t, at, f, i) ==
    \E h \in Heads(t, f, i) :
        /\ \A g \in Heads(t, f, i) : g <= h
        /\ \A g \in Heads(t, f, i) :
              t[g].kind = "else" \/ Holds(t[g], at[g]) <=> g = h
IsActive(t, at, i) == \A f \in Enclosing(t, i) : Selected(t, at, f, i)

OneRow(text) == \A i \in DOMAIN text : text[i].rows = 1

(* A line that is not a condition is reported as disabled exactly when some *)
(* branch around it is not the selected one, for any nesting and with the  *)
(* macros as they were at each condition; and in a text whose lines take   *)
(* one row each, its code survives exactly when all are selected.          *)
SelectedLinesSurvive ==
    \A k \in DOMAIN stack :
        LET f == stack[k]
        IN  \A i \in 1..(f.pos - 1) :
               f.text[i].kind \notin {"if", "elseif", "else", "endif"} =>
                   /\ i \in f.skipped <=> ~IsActive(f.text, f.at, i)
                   /\ OneRow(f.text) =>
                         (f.out[i] = Kept <=> IsActive(f.text, f.at, i))

(* "Keep the newline to keep the line numbers in sync": what is read so    *)
(* far has as many rows as what is written so far.                         *)
SumRows[t \in Seq(Line)] ==
    IF t = <<>> THEN 0 ELSE Head(t).rows + SumRows[Tail(t)]
RowsInSync ==
    \A k \in DOMAIN stack :
        stack[k].pos > 0 =>
            Len(stack[k].out) = SumRows[SubSeq(stack[k].text, 1, stack[k].pos - 1)]

(* The same for texts whose lines take one row each.                       *)
LinesInSync ==
    \A k \in DOMAIN stack :
        OneRow(stack[k].text) /\ stack[k].pos > 0 =>
            /\ Len(stack[k].out) = stack[k].pos - 1
            /\ Len(stack[k].at) = stack[k].pos - 1

(* A document is read at most once at a time as an include, whatever the   *)
(* cycle of includes: the flag being_preprocessed is what stops it.        *)
ReadOnceAtATime ==
    \A j, k \in DOMAIN stack :
        /\ j # k /\ stack[j].doc = stack[k].doc => stack[j].opened \/ stack[k].opened
        /\ ~stack[k].opened => store[stack[k].doc].busy
=============================================================================
