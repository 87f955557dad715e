------------------------------- MODULE TextSync -------------------------------
(***************************************************************************)
(* The text of one document, as the client has it and as the store has it: *)
(* server/notifications.rs, utils::apply_document_edit and the positions   *)
(* of line_index.rs and line_index_ext.rs.                                 *)
(*                                                                         *)
(* A text is a sequence of characters, told apart by their lengths in      *)
(* UTF-8, in which the server counts, and in UTF-16, in which the client   *)
(* does.  `inbox` holds the client's notifications, in order; `events` the *)
(* changes of the file nobody has read yet, which come from two watchers   *)
(* and in no order with the notifications.                                 *)
(***************************************************************************)
EXTENDS SequencesExt, Integers

CONSTANTS
    DiskTexts,      \* the texts the file may be given
    Inserts,        \* the texts an edit may insert
    NoText,         \* in place of a text: the file or the document is unknown
    MaxLength,      \* bound on the characters of the client's text
    MaxChanges,     \* bound on the opens and the edits of the client
    MaxWrites       \* bound on the changes of the file by others

VARIABLES
    open,           \* the client shows the document
    text,           \* its text there
    disk,           \* the file
    inbox,          \* notifications: client to server
    events,         \* changes of the file not yet read
    store,          \* the text of the Document, or NoText
    parsed,         \* Document::parsed
    config_pulled,  \* Server::config_pulled
    crashed,        \* the main thread has panicked
    followed,       \* history: the client's text at the last one handled
    sent, written   \* history: the opens and edits sent, the files written

clientVars == <<open, text, inbox, sent>>
fileVars == <<disk, events, written>>
serverVars == <<store, parsed, config_pulled, crashed, followed>>
vars == <<clientVars, fileVars, serverVars>>

Utf8 == [ascii |-> 1, latin |-> 2, emoji |-> 4, newline |-> 1]
Utf16 == [ascii |-> 1, latin |-> 1, emoji |-> 2, newline |-> 1]
Char == DOMAIN Utf8
Text == Seq(Char)

ASSUME TextAssumption ==
    /\ DiskTexts \subseteq Text /\ Inserts \subseteq Text /\ NoText \notin Text
    /\ MaxLength \in Nat /\ MaxChanges \in Nat /\ MaxWrites \in Nat
    /\ \A t \in DiskTexts : Len(t) <= MaxLength

-----------------------------------------------------------------------------
(* line_index.rs: offsets are bytes; lines and columns count from 0.       *)

\* LineIndex::new: where each line starts, and the characters of each line
\* that are not ASCII, by the bytes before and after them.
NewIndex == [row |-> 0, col |-> 0, newlines |-> <<0>>, wide |-> <<<<>>>>]

AddChar(index, c) ==
    LET row == index.row + Utf8[c]
        col == index.col + Utf8[c]
        line == Len(index.wide)
    IN  IF c = "newline"
        THEN [row |-> row, col |-> 0, newlines |-> Append(index.newlines, row),
              wide |-> Append(index.wide, <<>>)]
        ELSE [index EXCEPT !.row = row, !.col = col,
              !.wide[line] = IF Utf8[c] = 1 THEN @
                             ELSE Append(@, [start |-> index.col, end |-> col])]

LineIndex(t) == FoldLeft(AddChar, NewIndex, t)

Utf16Len(w) == IF w.end - w.start = 4 THEN 2 ELSE 1

\* A mutation: columns are taken for bytes.
ColumnsAreBytes(index, line, column) == column

\* utf16_to_utf8_col: the column grows while it is passed over the line.
Utf16ToUtf8Col(index, line, column) ==
    FoldLeft(LAMBDA col, w : IF col > w.start THEN col + w.end - w.start - Utf16Len(w) ELSE col,
             column, index.wide[line + 1])

\* A mutation: a wide character that ends at the column is not counted.
Utf8ToUtf16ColBefore(index, line, column) ==
    FoldLeft(LAMBDA col, w : IF w.end < column THEN col - (w.end - w.start - Utf16Len(w)) ELSE col,
             column, index.wide[line + 1])

Utf8ToUtf16Col(index, line, column) ==
    FoldLeft(LAMBDA col, w : IF w.end <= column THEN col - (w.end - w.start - Utf16Len(w)) ELSE col,
             column, index.wide[line + 1])

\* partition_point for `it <= offset`: a binary search between two places.
PartitionPoint(newlines, offset) ==
    LET places == 0..Len(newlines)
        search[ends \in places \X places] ==
            LET left == ends[1]
                right == ends[2]
                mid == left + (right - left) \div 2
            IN  IF left = right THEN left
                ELSE IF newlines[mid + 1] <= offset THEN search[<<mid + 1, right>>]
                ELSE search[<<left, mid>>]
    IN  search[<<0, Len(newlines)>>]

LineCol(index, offset) ==
    LET line == PartitionPoint(index.newlines, offset) - 1
    IN  [line |-> line, character |-> offset - index.newlines[line + 1]]

LineColLsp(index, offset) ==
    LET at == LineCol(index, offset)
    IN  [at EXCEPT !.character = Utf8ToUtf16Col(index, at.line, @)]

OffsetLsp(index, position) ==
    index.newlines[position.line + 1]
        + Utf16ToUtf8Col(index, position.line, position.character)

-----------------------------------------------------------------------------
(* utils::apply_document_edit.                                             *)

Bytes(t) == FoldLeft(LAMBDA n, c : n + Utf8[c], 0, t)
Boundary(t, offset) == {i \in 0..Len(t) : Bytes(SubSeq(t, 1, i)) = offset}

\* String::replace_range: both ends of the range are in the text, between two
\* characters and in order, or it panics.
ReplaceRange(t, from, to, inserted) ==
    IF Boundary(t, from) = {} \/ Boundary(t, to) = {} \/ from > to THEN NoText
    ELSE LET first == CHOOSE i \in Boundary(t, from) : TRUE
             last == CHOOSE i \in Boundary(t, to) : TRUE
         IN  SubSeq(t, 1, first) \o inserted \o SubSeq(t, last + 1, Len(t))

\* One change; a line the index has not is a panic too.
ApplyChange(t, change) ==
    LET index == LineIndex(t)
    IN  IF t = NoText THEN NoText
        ELSE IF change.whole THEN change.text
        ELSE IF {change.start.line, change.end.line} \subseteq 0..Len(index.newlines) - 1
        THEN ReplaceRange(t, OffsetLsp(index, change.start), OffsetLsp(index, change.end),
                          change.text)
        ELSE NoText

\* A mutation: the changes of a batch are applied from the last one.
ApplyReversed(t, changes) == FoldRight(LAMBDA change, u : ApplyChange(u, change), changes, t)

\* The text after a batch of changes, NoText if one of them panics.
ApplyDocumentEdit(t, changes) == FoldLeft(ApplyChange, t, changes)

-----------------------------------------------------------------------------
(* The client: positions are places between two of its characters.         *)

\* The position of the place after the first n characters.
PositionAt(t, n) ==
    LET ends == {i \in 1..n : t[i] = "newline"}
        start == IF ends = {} THEN 0 ELSE CHOOSE i \in ends : \A j \in ends : j <= i
    IN  [line |-> Cardinality(ends),
         character |-> FoldLeft(LAMBDA k, c : k + Utf16[c], 0, SubSeq(t, start + 1, n))]

\* The changes that can be made to a text, and what each makes of it.
RangeEdit(t, m, n, s) ==
    [change |-> [whole |-> FALSE, start |-> PositionAt(t, m), end |-> PositionAt(t, n),
                 text |-> s],
     after |-> SubSeq(t, 1, m) \o s \o SubSeq(t, n + 1, Len(t))]
Ranged(t) ==
    {RangeEdit(t, r[1], r[2], s) :
        r \in {q \in (0..Len(t)) \X (0..Len(t)) : q[1] <= q[2]}, s \in Inserts}
Whole == {[change |-> [whole |-> TRUE, text |-> t], after |-> t] : t \in DiskTexts}
Edits(t) == {e \in Ranged(t) \cup Whole : e.after # t /\ Len(e.after) <= MaxLength}

Notify(opens, changes, after) ==
    /\ sent' = sent + IF opens THEN 1 ELSE Len(changes)
    /\ sent' <= MaxChanges
    /\ inbox' = Append(inbox, [opens |-> opens, changes |-> changes, text |-> after])
    /\ text' = after
    /\ UNCHANGED serverVars

Open ==
    /\ ~open /\ disk # NoText
    /\ open' = TRUE
    /\ Notify(TRUE, <<>>, disk)
    /\ UNCHANGED fileVars

\* A notification of one change, or of two: the second is made on what the
\* first has left.
Change ==
    /\ open
    /\ \E e \in Edits(text) :
        \/ Notify(FALSE, <<e.change>>, e.after)
        \/ \E f \in Edits(e.after) : Notify(FALSE, <<e.change, f.change>>, f.after)
    /\ UNCHANGED <<open, fileVars>>

\* Closing and saving send nothing the server listens to.
Close ==
    /\ open
    /\ open' = FALSE
    /\ UNCHANGED <<text, inbox, sent, fileVars, serverVars>>

FileChanges(t) ==
    /\ disk' = t
    /\ events' = events \cup {IF t = NoText THEN "deleted"
                              ELSE IF disk = NoText THEN "created" ELSE "changed"}

Save ==
    /\ open /\ disk # text
    /\ FileChanges(text)
    /\ UNCHANGED <<written, clientVars, serverVars>>

OutsideWrite ==
    /\ written < MaxWrites
    /\ written' = written + 1
    /\ \E t \in (DiskTexts \cup {NoText}) \ {disk} : FileChanges(t)
    /\ UNCHANGED <<clientVars, serverVars>>

-----------------------------------------------------------------------------
(* The main thread.                                                        *)

Running == ~crashed

\* handle_open_document, as far as this document goes.
HandleOpenDocument(t) == store' = t /\ parsed' = TRUE

Handled(m) ==
    /\ inbox' = Tail(inbox)
    /\ followed' = m.text
    /\ UNCHANGED <<open, text, sent, fileVars, config_pulled>>

\* Server::did_open: before the configuration the text is kept for later; a
\* document that was parsed keeps the text it has.
DidOpen ==
    /\ Running /\ inbox # <<>> /\ Head(inbox).opens
    /\ IF ~config_pulled THEN store' = Head(inbox).text /\ parsed' = FALSE
       ELSE IF store # NoText /\ parsed THEN UNCHANGED <<store, parsed>>
       ELSE HandleOpenDocument(Head(inbox).text)
    /\ Handled(Head(inbox))
    /\ UNCHANGED crashed

\* A mutation: a file that is not there counts as parsed.
ChangeUnknownAnyway ==
    /\ Running /\ inbox # <<>> /\ ~Head(inbox).opens /\ store = NoText
    /\ HandleOpenDocument(disk)
    /\ Handled(Head(inbox))
    /\ UNCHANGED crashed

\* Server::did_change of a document that is not known reads the file, and
\* the edit is lost; an error ends there.
ChangeUnknown ==
    /\ Running /\ inbox # <<>> /\ ~Head(inbox).opens /\ store = NoText
    /\ IF disk = NoText THEN UNCHANGED <<store, parsed>> ELSE HandleOpenDocument(disk)
    /\ Handled(Head(inbox))
    /\ UNCHANGED crashed

DidChange ==
    /\ Running /\ inbox # <<>> /\ ~Head(inbox).opens /\ store # NoText
    /\ LET edited == ApplyDocumentEdit(store, Head(inbox).changes)
       IN  IF edited = NoText
           THEN crashed' = TRUE /\ UNCHANGED <<clientVars, fileVars, store, parsed,
                                               config_pulled, followed>>
           ELSE /\ HandleOpenDocument(edited)
                /\ Handled(Head(inbox))
                /\ UNCHANGED crashed

\* did_change_watched_files and handle_file_event.
FileEvent ==
    /\ Running
    /\ \E e \in events :
        /\ events' = events \ {e}
        /\ CASE e = "deleted" -> store' = NoText /\ parsed' = FALSE
             [] e = "changed" /\ disk # NoText -> HandleOpenDocument(disk)
             [] e = "created" /\ disk # NoText /\ store = NoText -> HandleOpenDocument(disk)
             [] OTHER -> UNCHANGED <<store, parsed>>
    /\ UNCHANGED <<clientVars, disk, written, config_pulled, crashed, followed>>

\* find_documents and read_unscanned_document: a file that is not known is
\* read, when a directory is scanned or another document includes it.
ReadFile ==
    /\ Running /\ store = NoText /\ disk # NoText
    /\ store' = disk /\ parsed' \in BOOLEAN
    /\ UNCHANGED <<clientVars, fileVars, config_pulled, crashed, followed>>

\* The configuration is there and reparse_all parses what was only kept, if
\* the main file leads there.
Configured ==
    /\ Running
    /\ config_pulled' = TRUE
    /\ parsed' \in {parsed, store # NoText}
    /\ UNCHANGED <<clientVars, fileVars, store, crashed, followed>>

-----------------------------------------------------------------------------
Init ==
    /\ open = FALSE /\ text = <<>> /\ inbox = <<>> /\ sent = 0
    /\ disk \in DiskTexts /\ events = {} /\ written = 0
    /\ store \in {disk, NoText} /\ parsed = FALSE
    /\ config_pulled = FALSE /\ crashed = FALSE /\ followed = NoText

Next ==
    \/ Open \/ Change \/ Close \/ Save \/ OutsideWrite
    \/ DidOpen \/ ChangeUnknown \/ DidChange \/ FileEvent \/ ReadFile \/ Configured

Spec == Init /\ [][Next]_vars

-----------------------------------------------------------------------------
\* The types of the variables; only a document that is known is parsed.
TypeOK ==
    /\ open \in BOOLEAN /\ text \in Text /\ Len(text) <= MaxLength
    /\ disk \in Text \cup {NoText} /\ store \in Text \cup {NoText}
    /\ followed \in Text \cup {NoText}
    /\ events \subseteq {"changed", "created", "deleted"}
    /\ \A i \in DOMAIN inbox : inbox[i].opens \in BOOLEAN /\ inbox[i].text \in Text
    /\ {parsed, config_pulled, crashed} \subseteq BOOLEAN
    /\ parsed => store # NoText
    /\ sent \in 0..MaxChanges /\ written \in 0..MaxWrites

\* The notifications of a document, whatever their batches, their wide
\* characters and the files read in between, take a text of the store that is
\* the client's to the next one of the client, and only a document that was
\* parsed before may stay as it is when it is opened (did_open, did_change and
\* apply_document_edit implement Mirror).
M == INSTANCE Mirror WITH
        MirrorText <- Text, NoCopy <- NoText,
        ahead <- [i \in DOMAIN inbox |-> [opens |-> inbox[i].opens, text |-> inbox[i].text]],
        copy <- store,
        followed <- followed
MirrorsTheClient == M!MirrorSpec

\* The main thread does not panic on the edit of a text that it has as the
\* client had it: ends of ranges are then between two characters, in a line
\* that exists (String::replace_range, LineIndex::offset).
PanicsOnlyAfterLosingTrack == crashed => store # followed

\* Of every place between two characters of the store's text, line_col_lsp
\* gives the position the client knows it by, and offset_lsp finds it again.
PositionsAgree ==
    store # NoText =>
        \A n \in 0..Len(store) :
            LET index == LineIndex(store)
                offset == Bytes(SubSeq(store, 1, n))
            IN  /\ LineColLsp(index, offset) = PositionAt(store, n)
                /\ OffsetLsp(index, PositionAt(store, n)) = offset
=============================================================================
