# A verification development of sourcepawn-lsp

`sourcepawn-lsp` is a language server for SourcePawn. It keeps a store of
documents, parses and links them, answers the editor's requests on a pool of
threads, follows the disk with a file watcher, pulls its configuration from
the client, and runs the SourcePawn compiler (`spcomp`) for diagnostics. This
directory holds TLA+ modules of the parts where order matters, the TLC
configurations that check them on small instances, and TLAPS proofs that the
most important properties hold for any size. Paths are relative to the
repository root; `store.rs` and the like are below its `src/`.

## 1. Inventory

| Component | State | Operations | Hard behaviour | What makes it correct |
|---|---|---|---|---|
| Document store and include graph (`store.rs`, `parser/include_parser.rs`, `options.rs`, `document.rs`) | known documents, their text, whether parsed, `includes`, `missing_includes`, `first_parse` | `handle_open_document`, `load`, `reload`, `remove`, `find_documents`, `resolve_missing_includes`, `read_unscanned_imports` | recursion over unparsed includes; a file that goes away and comes back; resolution that depends on what is known and on the disk | no include of an unknown file (a panic later on), no directive lost, includes parsed, relinking on load |
| Main loop (`server/mod.rs`, `server/notifications.rs`, `server/files.rs`) | options, `config_pulled`, `indexing`, the store | one handler per message; `reparse_all` | messages of two channels in any order; handlers that run for long while the disk changes; failure in the middle of `reparse_all` | the editor's text is never lost to a scan; a legal setting does not stop the server |
| File watcher (`server/files/watching.rs`, `server/files/events.rs`) | the watcher, watched directories, events in the internal channel | `register_file_watching`, `handle_file_event` | the old watcher is gone before the new one watches; events are read late and say little: a rename is told from a removal by whether the path is known | once events are handled the store is the disk, but for what changed with no watcher |
| Threads, requests, configuration (`server/fork.rs`, `server/requests.rs`, `dispatch.rs`, `client.rs`, `main.rs`) | pool and its queue, two channels, `next_id`, `pending`, one reply channel per id | spawn of a job with a copy of the store, `send_request`, `recv_response`, `pull_config`, shutdown and exit | workers blocked on the client; responses racing registrations; two pulls at once; copies that share their items with the live store; shutdown with a pull under way | every feature request answered once, from the text it was about; responses always awaited; the options are the last settings unless an older answer was still on its way; the process ends |
| Diagnostics and spcomp (`server/diagnostics.rs`, `linter/`) | diagnostics of each document in three lists, what the client was sent | `reload_diagnostics`, `lint_all_documents`, `publish_diagnostics`, `get_spcomp_diagnostics`, `ingest_spcomp_diagnostics` | runs of the compiler failing, overtaking each other and the changes they compile; documents rebuilt in between; two watchers that report one change | no error lost unless the last run fails, nothing deleted brought back, the status settles |
| Preprocessor (`sourcepawn_preprocessor/`) | condition stack, macro table, line buffers, `being_preprocessed` | `preprocess_input`, `process_directive`, macro expansion, evaluation of conditions | nesting, unbalanced directives, recursive macros and includes, 32-bit overflow | the lines that survive are the ones of the selected branches; rows stay in step; conditions have the value of their grammar; cycles of includes end |
| Semantic analyzer and references (`semantic_analyzer/`, `document.rs`, `store.rs:235`) | items shared between documents as `Arc<RwLock<..>>`, `references`, `unresolved_tokens`, `offsets` | `find_references`, `sync_references`, `purge_references`, `build_v_range` | items replaced while others hold them; a name declared later, or elsewhere; offsets that are cleared when they were used once; inheritance of methodmaps | a reference points to text that exists; a token is resolved or recorded as unresolved; scopes are those around the token |
| Text synchronisation (`utils.rs`, `line_index.rs`, `line_index_ext.rs`) | the text, its line table | `apply_document_edit`, ranges in UTF-16 | batches of edits, ends of lines, wide characters, files read again under the edits | the text is the client's |
| Parsers of declarations (`parser/`) | a walker with pending comments and deprecations, a counter of enums without a name | one function per declaration | attribution of comments and of `#pragma deprecated`; keys that collide | what documents a declaration is next to it, once; every item is declared |
| Items (`spitem/`), feature providers (`providers/`) | none: they read a copy of the store | definition, hover, completion, rename, semantic tokens, ... | references that outlive their text; tokens in the order of a hash map, encoded by deltas | a rename edits the name and nothing else; what is highlighted are the uses (where offsets hold) |
| Lexer (`sourcepawn_preprocessor/src/lib.rs`), start-up, logging, telemetry, command line, tests (`main.rs`, `lsp_ext.rs`, `capabilities.rs`, `tests/`) | - | - | - | - |

How they interact: the client writes to the *inbox* of the main thread; the
watcher and the workers write to its *internal* channel; the main thread is
the only one that changes the store, and gives each job a copy; workers and
main thread write to the client's channel. `PROJECT.json` lists every
component with what is modelled of it, and under `hazards` what is hard to
test in this code, each at its line with the properties that watch it.

## 2. Modules

| Module | Models | Built on |
|---|---|---|
| `Includes` | the operations of the store on the include graph, as operators on documents, disk and options | |
| `Store` | main thread, watcher, disk and client, as they change the store | `Includes` |
| `StoreMC` | instances of `Store` | `Store` |
| `Store_proofs` | theorems | `Store`, TLAPS |
| `Answers` | what the server promises its client, without threads | |
| `Server` | main thread, workers, channels, the client's requests and settings | implements `Answers` |
| `ServerMC`, `Server_proofs` | instances, theorems | `Server` |
| `Diagnostics` | spcomp runs, linter, what is published | |
| `DiagnosticsMC`, `Diagnostics_proofs` | instances, theorems | `Diagnostics` |
| `Macros` | macro expansion: arguments, substitution, the stack of what is expanded | |
| `Evaluator` | the evaluation of a condition, symbol by symbol | `Macros` |
| `Grammar` | what a condition means, from its text: the reference for `Evaluator` | `Evaluator` |
| `EvaluatorMC` | conditions and macros | `Grammar` |
| `Preprocessor` | a document and its includes, line by line | |
| `PreprocessorMC` | instances | `Preprocessor` |
| `Preprocessor_proofs` | theorems about both | `Preprocessor`, `Evaluator`, `Induction` |
| `Declarations` | the parsers' walk over the nodes of a document | |
| `DeclarationsMC`, `Declarations_proofs` | instances, theorems | `Declarations`, `Induction` |
| `References` | items, their references, and the requests that read them | |
| `Requests` | semantic tokens | `References` |
| `ReferencesMC`, `References_proofs` | instances of both; theorems about both | `Requests`, `Induction` |
| `Mirror` | what the server promises of the client's text, without positions | |
| `TextSync` | positions, edits, the file and its watchers | implements `Mirror` |
| `TextSyncMC`, `TextSync_proofs` | instances, theorems | `TextSync`, `Induction` |
| `Induction` | lemmas: induction over numbers, finite sets of numbers and folds, for the proofs about algorithms | TLAPS |

The specifications cut the same program along what they tell apart. `Store`
has no threads but the watcher's lateness, for its handlers run to completion
on one thread; `Server` knows of the store only how many edits it has seen;
`Diagnostics` keeps of the include graph what decides which documents are
linted. What happens inside `handle_open_document` (`document.rs`, `store.rs`)
has modules of its own, in the order of the code: the text is edited
(`TextSync`), preprocessed (`Preprocessor`, whose conditions are `Evaluator`'s
and whose code lines are expanded with `Macros`), parsed into items
(`Declarations`), and its names are resolved (`References`). `Store` takes the
directives that survive preprocessing as given, `References` the items that
the parser makes. Recursive operators are declared in `Grammar` only, about
which nothing is proved; elsewhere recursion is a recursive function, a fold, or the least set closed under it (`Fresh`, for
`read_unscanned_imports`; `InScope`, for `get_included_files`).

### Includes and Store

A file is `<<directory, name>>` and stands for its path and its URI. A text is
known by the include directives that survive preprocessing, and a directive
by the file name it ends in once `add_include_extension` completed it.
`Resolve` is `resolve_import` with its order: a quoted include beside the main
file and nowhere else when there is one; otherwise beside the document or in
its `include` directory, whichever *exists on disk*, provided it is *known*;
then the include directories. `ResolveMissingIncludes` first looks for the
missing name in the URIs of the store (`Mentions`), where a name that URIs
encode, such as `b c.inc`, is not found. `Parsed`, `HandleOpenDocument`, `Load`,
`Reload`, `Remove`, `FindDocuments`, `ResolveMissingIncludes` follow
`store.rs` one by one.

In `Store`, each message of the client and each event is an action; a handler
that loops over files (`HandleDirEvent`, `HandleDirFile`) has an action per
iteration. `SetOptions` takes the options and drops the old watcher;
`register_file_watching` then watches the include directories one by one
(`WatchDirectory`), may fail at one of them, which ends the server
(`WatchFails`), and registers the watcher (`RegisterWatcher`, which is also what
happens when none can be made); `reparse_all` comes last. The disk may change
between any two of these steps. `missed` is history: the files that changed
while there was no watcher and whose change no scan is to see (`Unreported`);
`MaxMissed` bounds them. `reparse_all` has three outcomes: `ReparseMain`,
`ReparseWithoutMain`, `ReparseFails`. Everything the client sends, the disk
does and the user configures is nondeterministic.

Left out: `normalize_uri`, byte order marks, `.git` folders, files that
`is_sourcepawn_file` refuses, include paths with sub-directories, the
`add_include` of `sync_references` (which writes to a copy that is then
dropped), events that carry several paths, and the preprocessor, by which one
file's macros may switch another's directives on and off. A directory exists
when it holds a file or is in `OtherFiles`.

### Answers and Server

`Server` has the client (edits, requests, settings, shutdown), the main thread
(`Handle...`, `SetOptions`), the workers (`TakeJob`, `AnswerFeature`, and the
four steps of `pull_config` through `send_request`), and the channels. A text
is the number of edits made; 0 is the empty store, on which a feature request
is answered with an error. The reply channel of a request is `replies[id]`.
`main` tells a main thread that runs, waits for `exit`, returned, failed or
panicked; a process whose main thread returned lives until no job holds the
connection's sender (`main.rs:63`). External code is modelled by how the
server uses it: `lsp_server::Connection` (order of messages, shutdown and
exit), `threadpool` (a queue), the client (answers configuration requests with
the settings it has by then, or with an error if `Refuses`).

A job has the texts of the moment it was spawned, but its items are shared with
the live store (`server/fork.rs:92`): what `AnswerFeature` answers refers to items
of any texts from then to now. `late` is history: the options that what the
client answered earlier may still bring when it gives its last answer.

`Answers` says: a request is answered at most once, from the text the client
had when it sent it, with items of that text or later ones. `Contract == INSTANCE Answers WITH ...` maps the client's
text, the requests and the responses, and hides threads, queues, channels and
ids; `KeepsPromise` says that `Server` implements it.

### Diagnostics

One plugin, `Main`, that includes every other document with `#tryinclude`. A
document's diagnostics are whether spcomp found errors in it and how many
deprecation hints are listed; `shown` is what the client was last sent.
`ReloadDiagnostics` clears, lints, publishes and spawns a run; a run starts
(`StartRun`), reads the disk at one moment (`Compile`) or fails (`FailRun`: it
cannot be run, or writes to its error output; output that cannot be parsed is no
error, `parse_spcomp_errors` passes over it) and sends its result and its status
(`FinishRun`); `Ingest` takes results in the order they come. The changes of the
disk are reported by the client and, once it has options, by the server's own
watcher, in two queues that are read in any order; they treat unknown files
differently (`Changed`, `Modified`). The client opens what it likes, on disk or
not. `latest` and `failed` are history, which run was spawned last and whether it
failed; so is `unsaved`, what the client opened while it was not on disk.
Renames are `Store`'s subject.

### Macros and Evaluator

A symbol is a record with its kind. `Macros` follows `macros.rs`:
`CollectArguments` reads the arguments of a call from what is left of the
enclosing call, then from the lexer, and keeps what is nested for later;
`ExpandMacro` substitutes `%n`, `#%n` and `%%`; `ExpandTop` is one turn of the
loop of `expand_symbol` over its stack, which drops what is nested five deep. In
`Evaluator` each kind of symbol that `evaluate` meets is an action on
`operator_stack`, `output_queue` and the two flags. `Expand` calls
`expand_symbol`, whose stacks are `work` and `pending`, and `ExpandNext` is a turn
of it: the rest of the line may be taken away under `evaluate` by the arguments
of a call, and an error or an index that panics ends it. `turn` changes with
each turn of either loop, so that going on for ever differs from stopping; `PopsHigher` and the other operators called "a mutation" in
their comments are plausible mistakes, used to show that the properties notice
them. `status` tells the three panics (`unreachable!()`, a division, an index
that is no parameter) from an error, after which the code takes the condition
for false. A `\` that continues the line is a symbol too, which `evaluate` expands
like a name and `expand_symbol` drops. Integers have `Width` bits (32 in the code) and wrap.

The reference, `Grammar`, is independent of the stacks: `Text` expands the macros of a
condition as text, `Meaning` reads the result with the grammar of expressions,
level by level of precedence, and `ValueOfExpression` compares. The columns
between symbols (`Delta`) are left out. Symbols that expand to themselves are
`Stray`; they matter in the condition and in the bodies of the macros it
reaches (`Reached`).

### Preprocessor

What runs is a stack of preprocessors, one for each document that is read
because another includes it (`extend_macros`, `preprocess_document_by_uri`).
Each line is one action by its kind and by whether its branch is taken; a line
has the rows it takes, the name it is about, whether a condition wants this
name defined, and the document it includes. A row of the output is kept or
blank. A line is "unreadable" when the code gives the whole text up for it: an
unknown token, an expansion that fails, a `#define` it cannot read (`Fail`). The
`at` of a preprocessor is history: the macros each line was read with; only the
properties look at it. What `#pragma`, `#assert` and the other kept directives
say, the disabled ranges' columns and macro offsets are left out. That the
preprocessor ends is not claimed: it does not, when a condition keeps
`evaluate` for ever (`EvaluateReturns` says which).

### Declarations

`Store::parse` is a walk over the nodes under the root; a text is these nodes
with their rows, and an action is the parser of one kind of node with what it
calls: `find_doc` (`FindDoc`), `push_comment` and `push_inline_comment`
(`Inline`), the key it declares. The members of an enum, an enum struct, a
methodmap or a typeset are nodes of their own, between `OpenContainer` or
`OpenEnum` and `CloseContainer`. An item keeps which comments and which
`#pragma deprecated` it took. Types, dimensions, visibilities and the
formatting of comments are left out.

### References and Requests

A text is its items, its tokens (`uses`), its includes, and the `offsets` the
preprocessor recorded for the macros it expanded on its lines. A token has the
column `col` it has in the preprocessed text, and `src`, where it is in the text
as written, or `Unwritten` when a macro's body brings it in. `BuildVRange` is
`build_v_range`: from the one to the other, offset by offset. A reference keeps
the place this gave when its token was resolved (`v_range`); `EndResolve` clears
the offsets, so that a document `sync_references` resolves a second time has its
references at other places (`again`). Which offsets an expansion records is taken
as given: the properties ask for them to be right (`InPlace`), which those of
macros with arguments, say, need not be. It begins with every document just parsed and waiting to be resolved; with `main_path`, those the
main file includes, which are the ones `reparse_all` reads. `Reopen` is the part
of `handle_open_document` before `find_references`: new items take the place of
the old ones, and references that were theirs go with them. `Resolve`, the
three `Resolve...` actions, `WalkInherit` and `EndResolve` are
`find_references`, token by token; `Sync` and `EndOpen` are `sync_references`
and the end of `Store::remove`. Hash maps give the documents in any order
(`AllItems`). Of `Kind`, functions, variables, methodmaps, locals and members
have their own paths; properties follow those of methods, and enum structs,
which have the kind but are in no instance, those of methodmaps. Typedefs and
typesets are items that are referred to like the others, but no semantic tokens
(`Shown`). Left out are the items of `#define`, the tokens that name macros, which
keep the range they are written at, and the members of typesets. `lost` is history:
the names a document referred to when the item was replaced by a new one with
the same key, which `sync_references` does not look at again.

`ItemsAt` and `RenameEdits` are the requests of `providers/rename.rs`,
`definition.rs` and `reference.rs`; `Requests` is
`providers/semantic_tokens.rs` with its builder, whose encoding is undone when a
token comes before the last one. Left out: `push` of a range of several lines
(an error that drops the rest of the item's tokens), the lengths of tokens, and
their modifiers, which are sent as 0 (`(1 << n) >> (1 << n)`,
`providers/semantic_tokens/builder.rs:85`).

### Mirror and TextSync

A character is known by its length in UTF-8 and in UTF-16. `LineIndex` is
built as in `line_index.rs`; `Utf16ToUtf8Col` and `Utf8ToUtf16Col` are the two
conversions, with a column that grows while it is passed over the line;
`ApplyDocumentEdit` applies a batch, and a panic of `replace_range` or of the
index gives `NoText`. The client makes its edits on its own text (`Ranged`), one
or two to a notification. The file changes by the client's saves or by others,
and its events are read in no order with the notifications.

`Mirror` says what that is for: the copy the server has, when it is the text
last followed, becomes the next text of the client; only a document opened
again may keep the text it has, and the copy may be replaced by the file's.
`M == INSTANCE Mirror WITH ...` maps the inbox to the texts told; positions,
batches, encodings and the configuration are hidden. Left out: byte order
marks, which are stripped from files and shift the first line, and a lone
carriage return, which the client takes for the end of a line.

## 3. Runs

| Run | Instance | What it shows |
|---|---|---|
| `store_client` | plugin, `a.inc` beside it, `b c.inc`, whose URI does not have its name, in an include directory; every message of the client, two configurations, disk changes in between; no pull support, so that the server survives a failed `reparse_all` | `IncludesClosed`, `IncludesAccounted`, `ParsedClosed`, `RelinkedWhenLoaded`, `RescanKeepsTexts` |
| `store_disk` | two files of a watched include directory, four waiting events, two files that change while there is no watcher; the watcher is replaced, fails to be made or to watch | `StoreFollowsDisk` when files are written and deleted |
| `store_move` | a file and two directories of an include directory, one whose path continues the other's, renames in every order; `a.inc` plays `sourcemod.inc` | `TypeOK`, `IncludesAccounted` |
| `store_outside` (violation) | a main file that exists in no scanned directory | the main thread panics |
| `server_threads` | two workers, three kinds of requests, two edits, a change of settings, an invalid one, refusals | `TypeOK`, `ResponsesAwaited`, `ConfigurationSettles`, `KeepsPromise` |
| `server_live` | one worker, one request, two changes of settings, fairness | `FeaturesAnswered`, `StopsUnlessPulling` |
| `diagnostics` | two documents without deprecated declarations, two runs that may fail, one change waiting for the client and two for the server's watcher | `TypeOK`, `ErrorsReported`, `DeletedStaysForgotten`, `StatusSettles` |
| `evaluator` | every condition of up to five of 7 symbols and of up to three of 20; every operator on small and extreme operands; calls with up to three symbols of arguments, with parentheses or other calls among them, in parentheses and before an operator; names asked for with `defined` beside their calls; nine macros, among them one that is its own expansion, one that is a keyword, one with parentheses and one that uses its parameter twice; integers of 4 bits | `ValueOfExpression`, `BalancedIsSafe`, `EvaluateReturns` |
| `preprocessor` | two documents: any three lines, unreadable ones among them, or a nesting of up to five directives, beside an include that is empty, defines, includes back or includes itself; the include may be edited; two openings | `SelectedLinesSurvive`, `LinesInSync`, `ReadOnceAtATime` |
| `references` | three texts of a plugin (two with a line where macros are expanded), four of its include (one with a methodmap that inherits from itself, one with a typedef), with and without `main_path`; two openings or removals after the first parse; every order of the hash maps | `RenameEditsTheName`, `UsesAccounted`, `OpenedIsLinked`, `AddedIsLinked`, `ScopeIsAround`, `HighlightsAreTheUses`, `ResolutionEnds` |
| `declarations` | every text of up to three notes and declarations, two notes between two declarations, and every container with two inner nodes between a note and a declaration | `DocIsAdjacent`, `CommentsDocumentOnce`, `DeprecationIsAbove`, `EveryItemIsDeclared` |
| `text_sync` | texts of up to three characters of 1, 2 and 4 bytes and ends of line, three opens or edits, one or two to a batch, one change of the file by others besides the client's saves | `TypeOK`, `PanicsOnlyAfterLosingTrack`, `PositionsAgree`, `MirrorsTheClient` |

What the properties say, and when they hold only in part:

- `StoreFollowsDisk`: not of the files in `missed`, whose change fell into the time
  without a watcher. `RelinkedWhenLoaded`: not of names that URIs encode.
- `ConfigurationSettles`: with several workers the options that stay may come
  from an answer the client gave before its last one, but only if that answer had
  not reached the main thread when it gave the last (`late`); if the last answer
  is an error, from any. That they are always the last settings is false
  (`SettingsFollowed`, see 5).
- `ErrorsReported`: unless the run spawned last failed, for the errors are cleared
  before a run is spawned. `DeletedStaysForgotten`: what is known is on disk or in
  `unsaved`.
- `ValueOfExpression`: a condition that is an expression of the grammar has its
  value. `BalancedIsSafe`: `unreachable!()` is not reached when the
  parentheses of the condition match, macros with parameters are called
  (`CallsOnly`) and not among the arguments of others (`CallsApart`), and macros
  close the parentheses of their bodies and call none with parameters in them
  (`PlainBodies`); without one of the last two it is false (see 5). `EvaluateReturns`: unless a comma
  or a keyword is in the condition or in the body of a macro it reaches, which
  expands to itself for ever (see 5); or when none is left after expansion.
- `SelectedLinesSurvive`: a line of code or a definition is kept exactly when it
  is in the first branch that holds of each `#if` around it; that is defined
  from the text alone, by counting. `LinesInSync`: as many rows out as in, for
  texts of one row per line (see 5 for others). `ReadOnceAtATime`: no include is
  read within its own reading.
- `RenameEditsTheName`: without `main_path`, a rename from a token edits places
  where that name is written now; with it, see 5. It speaks of `Steady` lines:
  those without offsets, and those whose document was not resolved again and
  whose offsets are right. On the others the code does edit other text
  (`VRangesAreSeen`, see 5). `UsesAccounted`: a use is linked, recorded as
  unresolved, or `lost`; `OpenedIsLinked` and `AddedIsLinked` say where nothing
  may be lost. `ScopeIsAround`: `Scope`, which only ever tries the next function
  of the file, has the one around the token. `HighlightsAreTheUses`: without
  `main_path`, the decoded tokens are in order and, on `Steady` lines, the uses, each
  once for each item that is shown; with it, see 5. `ResolutionEnds`: while no methodmap inherits
  from itself.
- `DocIsAdjacent`, `CommentsDocumentOnce`, `DeprecationIsAbove`: which comment
  and which `#pragma deprecated` a declaration may take, and no other.
  `EveryItemIsDeclared`: enums without a name do not take each other's key.
- `MirrorsTheClient` is the refinement of `Mirror`; `PanicsOnlyAfterLosingTrack`
  says that the main thread panics on an edit only when the file was loaded under
  the edits; `PositionsAgree`: each conversion undoes the other.

**Bounds.** `MaxEvents` and `MaxReports` (of each watcher) bound the changes not yet handled,
`MaxMissed` the files that change without a watcher (as many as there are where it
matters, none elsewhere), `MaxResults` the results not yet ingested, `MaxEdits` and `MaxChanges` the
client's edits and settings. Each is large enough for its hazard: four events
are a change, another one before the first is read, and the pair of a second
file; a document that includes one that includes a third needs three files;
overtaking needs two runs, or two workers, and one change between them. Of the
server's watcher two changes may wait, of the client's one, so that the one may
report again what the other has not reported yet.
`MaxHints` is not a bound on behaviour: a list of that length stands for any
longer one. `server_threads` and `diagnostics` use symmetry of workers and of
runs (both safety only). `CHECK_DEADLOCK FALSE` is said of `Server`, which really stops, of `StoreMove.cfg`
and `StoreRename.cfg`, where a directory that cannot be watched stops it, of
`Preprocessor`, `References`, `Declarations` and `TextSync`,
which end when the document is read or when their bound on openings and edits
is reached.

`MaxOpens` bounds the documents opened by the client in `Preprocessor` and in
`References` (two: one that changes what is declared, one that meets the
change); `MaxChanges` and `MaxWrites` in `TextSync` the edits and the changes of
the file (a batch of two after an opening, one write under them); `MaxLength`
the characters, three being a wide one with one on either side. `Width = 4`
keeps every value of an integer, its overflow, the least one and the masking of
shifts. `MaxDepth`, five, is the code's.

**Fairness.** In `server_live`: weak fairness of the main thread on its inbox and
on the internal channel each: `crossbeam_channel::select!` picks at random
among the ready ones, so neither is passed over for ever. Weak fairness of
each worker, and of the client on the messages it receives; none on what the
client asks for, changes or whether it stops. `StopsUnlessPulling` is what is
true: a worker that waits for a response when the server shuts down waits for
ever, and `threads.join()` with it. In `evaluator` and
`references`: weak fairness of the steps of the handler that runs, for the main
thread does nothing else until it returns; none on what is opened or edited. In
`evaluator` the turns of the two loops are the steps of this handler
(`WF_turn`).

## 4. Theorems

All are proved for any directories, files, texts, options, workers, requests,
documents, runs and bounds. The only assumptions are the named `ASSUME`s on
the constants, which TLC evaluates in the runs, and the hypotheses of
`StoreAlwaysFollowsDisk`, explained below.

| Theorem | Says | Argument |
|---|---|---|
| `Store_proofs!TypeCorrect` | `Spec => []TypeOK` | inductive as it stands; a lemma per operator of `Includes` gives its result type |
| `IncludesAlwaysClosed` | `[]IncludesClosed` | inductive with `TypeOK`: `Resolve` returns known files only, opening only adds known files, and `Remove` takes the removed one out of every document |
| `IncludesAlwaysAccounted` | `[]IncludesAccounted` | inductive with `TypeOK`: a text is parsed into includes that carry the directive's name or into missing includes, and `Remove` turns the one into the other |
| `RescanAlwaysKeepsTexts` | the action property | from the lemmas that opening again and scanning keep texts |
| `ParsedAlwaysClosed` | `[]ParsedClosed` | `Fresh`, what `read_unscanned_imports` parses, is closed under includes: whatever a document that was parsed includes was parsed before or is parsed with it |
| `AlwaysRelinkedWhenLoaded` | the action property | every load ends with `resolve_missing_includes`; what it leaves missing has no candidate among the known files, or is in no URI |
| `StoreAlwaysFollowsDisk` | `DiskSpec => []StoreFollowsDisk`, under `WatchedDirectories` | `DiskInv`: while the watcher is made, each include directory is watched already or still to be watched (`Registering`); for each file of one that was not missed, if the disk and the store differ then an event that undoes the difference is in the queue, and behind the last event that would bring it back (`Follows`), or, for a file that is not known, the scan is to come (`Found`) |
| `Server_proofs!ThreadsTyped` | `[]TypeOK` | inductive |
| `ResponsesAlwaysAwaited` | `[]ResponsesAwaited` | `ResponsesAwaited` alone is not inductive; the invariant says where each id of `pending` is: with a worker that will send it, in the outbox, in the inbox as a response, each once, and all below `next_id` |
| `PromiseKept` | `Spec => Answers!ContractSpec` | the invariant says that each request is in exactly one place (inbox, queue, worker, answered or dropped) and that the message or the job carries the text it was asked about: the edits of the inbox before it, on top of the store's; neither the store nor a job is ahead of the client (`StaysBehind`), so that the items are of texts between the one asked about and the client's |
| `SettingsArrive` | `[]ConfigurationSettles` | with pull support, `SettleInv`: either the client is still to be asked since its settings changed (`StillToRead`), or what it answered last is on its way or delivered, and all that may still be delivered is the last settings or `late` (`LastArrives`); a worker waits for each request and response (`Awaited`). Without, `PushInv`: the last `didChangeConfiguration` in the inbox carries the client's settings (`ToldSettingsArrive`, a lemma) |
| `Diagnostics_proofs!DiagnosticsTyped` | `[]TypeOK` | inductive |
| `StatusAlwaysSettles` | `[]StatusSettles` | a run that is started has sent FALSE and sends TRUE when it ends |
| `DeletedAlwaysForgotten` | `[]DeletedStaysForgotten` | `Queue`: each queue of reports agrees with the disk at its end; a known document that is neither on disk nor opened unsaved has its deletion waiting in one of them, and one on disk that is not known its creation |
| `ErrorsAlwaysReported` | `[]ErrorsReported` | with no report waiting and the last run not failed, a document that has errors on disk is shown with them, or the run spawned last will see them or has, or a result names it, after which nothing clears it (`ErrorsComing`): whatever changes the disk or clears the errors spawns a run after it |
| `Preprocessor_proofs!TypeCorrect` | `[]TypeOK` | part of the invariant below |
| `ReadOnce` | `[]ReadOnceAtATime` | `Inv`: only the first preprocessor of the stack is of an opened document (`OpenedFirst`), every other one keeps its document busy (`BusyBelow`), one each (`OneEach`); a new one is pushed only for a document that is not busy, and a document stops being busy only when the opened one returns, which is then alone |
| `InSync` | `[]LinesInSync` | `AllInSync`: each line adds one entry to `at` and as many rows as it takes; without the bound on `pos` it is not inductive |
| `StackIsTheNesting` | `[]AllNested` | the condition stack has an entry for each `#if` that is open around the next line, in their order, and the entry says what its branches have come to (`BranchState`); by induction on the lines, for each kind of directive |
| `OnlySelectedLinesSurvive` | `[]SelectedLinesSurvive` | from `StackIsTheNesting`: the lines skipped so far are those with a branch around them that is not the selected one; that a line is inside an `#if` is a matter of counting between the two (`Enclosing`), so a later line changes nothing of it |
| `BalancedAlwaysSafe` | `EvaluatorSpec => []BalancedIsSafe` | `Following`, see below |
| `TextSync_proofs!TypeCorrect` | `[]TypeOK` | inductive |
| `NeverPanicsOnTrack` | `[]PanicsOnlyAfterLosingTrack` | `TextInv`: the notifications in the inbox form a chain, each made on the text the one before it left; as long as the store has the text the first one was made on, `ApplyDocumentEdit` finds each range between two characters and makes the text the second one starts from |
| `PositionsAlwaysAgree` | `[]PositionsAgree` | the line table of a text lists where its lines start (the index of a prefix is a prefix of the index), the binary search finds the line, and the columns passed over a line count its units |
| `MirrorsAlways` | `Spec => Mirror!MirrorSpec` | from the same chain |
| `Declarations_proofs!DocsAreAdjacent` | `[]DocIsAdjacent` | `WalkInv`: what `find_doc` returns is a chain of rows (an induction over the comments it folds over), and stays next to its item |
| `CommentsAreUsedOnce` | `[]CommentsDocumentOnce` | `WalkInv`: a comment that is still kept is shared with none but what is on its row |
| `DeprecatedFromAbove` | `[]DeprecationIsAbove` | `WalkInv`: of the pragmas kept, those of earlier rows are never the one looked for, which ends on the row above |
| `ItemsAreDeclared` | `[]EveryItemIsDeclared` | `DeclarationsInv`: the numbers of the unnamed enums read are below the counter; a key of one name that is in the map was declared before the container being read, so that it is the later declaration that stays |
| `References_proofs!TypeCorrect` | `[]TypeOK` | `Types`: also that the items the analyzer was given are those in scope, that what is to be resolved is in the store, and that the document being opened is the one opened last |
| `RenameIsOfTheName` | `[]RenameEditsTheName` | `PlacesInv`, of which the first part is `RefsInv`: a reference has its item's name (`Named`) and, without `main_path`, is of a token its document has now or of a document that waits to be resolved (`Current`), whose references `purge_references` takes from every item. The second, `Located`: its place is the one `build_v_range` gives its token with the offsets of its document's text, or, of a document resolved again, with none; for while a document is resolved its offsets are there or it is `again` (`OffsetsThere`). On a steady line the two are where the token is written |
| `UsesAreAccounted` | `[]UsesAccounted` | `UsesInv`: a document that does not wait has its uses accounted for (`AllAccounted`), of the one that is resolved those the loop has passed (`JobAccounts`); between the opening and `EndOpen` a use may also be of a name that is to become unresolved (`Gone`) |
| `LastOpenedIsLinked`, `AddedNamesAreLinked` | `[]OpenedIsLinked`, `[]AddedIsLinked` | `LinkInv`: what the loop has passed is linked if an item in scope has the name (`JobLinks`); of the documents that do not wait, so is the one opened last, and each in scope as to the names just added (`DoneLinks`), for it either had the name unresolved and was resolved again, or lost it; that a name which is declared is found is a lemma about `Lookup` and `FirstFound` |
| `ScopesAreAround` | `[]ScopeIsAround` | `ScopeInv`: tokens come by line (`InOrder`), and of the functions of the file the last that begins by the line is where `Scope` is (`Around`); from one line to the next at most one function begins, for each has its name as a token on its first line (`FollowingIsAround`) |
| `HighlightsAreUses` | `[]HighlightsAreTheUses` | `OnceInv`: `PlacesInv`, and no item refers to its own declaration (`NotItself`), so that an item pushes each of its tokens once, on a steady line at the place it is written at (`TokensMark`); `PushesAre`: as long as the tokens pushed come in the order of the text the builder has their deltas, afterwards the tokens themselves; sorting by place is a permutation (`PlacesAre`) and decoding undoes the deltas (`RemoveDeltasUndoes`), hence what is decoded are the entries pushed, in order (`DecodesWhatIsPushed`); those at a token are then as many as its items, by a bijection |

**Hypotheses.** `StoreAlwaysFollowsDisk` needs `WatchedDirectories`: the client
supports pulling, and the include directories exist when they are configured
and are the same in every configuration. The code promises no more:
`register_file_watching` watches the directories that exist when the options
arrive (`server/files/watching.rs:19`), and those of other options are no longer
watched. The files that changed without a watcher are excepted in the property
itself (`missed`). `store_disk` is an instance. No other theorem has a hypothesis;
`RenameIsOfTheName` and `HighlightsAreUses` speak of steady lines, as their
properties do.

**Assumptions on the constants.** `TextsAssumption` of `References` says what
parsing gives: finitely many documents; an item has a name, which is a token of
its first line; functions do not overlap, nor do methodmaps and enum structs;
as lines stand for positions, none begins on the line another ends on; and a
token is at its place in the text unless a macro is expanded on its line.
`PlacesAssumption` of `Requests` adds that a text has finitely many tokens, no two
that were written at one place, and that its items have different keys: the model knows an item by
its key, so that two local variables of one name in one function, which the code
keeps apart, are in no text. `NodesAssumption` and `NamesAssumption` of
`Declarations` say what tree-sitter gives: nodes in the order of their rows, a
name for each declaration but an enum; and that `Enum#n`, the name an unnamed
enum gets (`Label`), is spelt like no name of the text and differs for
different n. `SelectedLinesSurvive` says of the kept code only in texts whose
lines take one row each, for the others see `RowsInSync` in 5.

**Conditions.** That the parentheses of a condition match says nothing of the
stack of operators, which `process_op` must never find a parenthesis in: between
the two are macros, whose symbols come before the rest of the line, and calls,
which take symbols away from it. `Following` is the invariant of `evaluate` and
`expand_symbol` together, as long as they run. Its heart, `Matched`, looks at one
sequence, `Unread`: the parentheses open on the stack of operators, then the
symbols on `expand_symbol`'s stack, then those on the expansion stack, then the
rest of the line; its parentheses match. A symbol that is read closes exactly
what the stack of operators opens (`Covers`): in particular a `)` always finds a
`(` there, and what lies above it is processed in order (`ProcessAboveIs`). A
macro is replaced by what matches too: that `expand_macro` keeps it so,
whatever `%n`, `#%n` and `%%` of the body do, is a fold over the body
(`ExpandMacroIs`). A call takes the symbols up to the parenthesis that closes it,
no more and no less (`CollectIs`, `CallCloses`), and these match with it. The
other parts of `Following` say where calls may be: the only macro with
parameters on `expand_symbol`'s stack is the name just read (`OneCall`), alone,
with the rest of the line after it (`RestIsTail`); what is expanded has no names
left (`NamesGone`); and a name after `defined` is asked for (`NameAsked`). At the
end nothing is unread, so that no parenthesis is left on the stack. This is how
the hypotheses of `BalancedIsSafe` were found: with a call nested in the
arguments of another, or in the body of a macro, `OneCall` is not inductive, and
TLC showed that the property fails there as well (`EvaluatorNested.cfg`).

**Induction over data.** The library's induction theorems take operators,
which the provers do not instantiate. `Induction` states induction with *sets*
(the set of the numbers that have a property contains 0 and, with each number,
the next) from the well-foundedness of `<`, and derives from it what the folds
of the community modules compute, one element at a time. The proofs about
`TextSync`, `Preprocessor`, `Declarations` and `References` rest on it or on the
steps of their specifications.

**Only model-checked.** The liveness properties (`FeaturesAnswered`,
`StopsUnlessPulling`, `EvaluateReturns`, `ResolutionEnds`): liveness under
fairness and ENABLED are beyond this prover. `ValueOfExpression`: it says of an
algorithm that it computes what a grammar says, by induction on conditions of any
length, and `Grammar` declares recursive operators, with which the SMT backend is
not available. `EvaluatorTypeOK` holds in every state of `Evaluator.cfg`; that the
values on the queue have `Width` bits rests on powers of two, of which the provers
know nothing.

## 5. Known disagreements

`store_outside` is a run of `PROJECT.json`; each of the others is shown by a
configuration of its own, `tlc -config <cfg> <module>`, that finds the
property violated.

| Configuration, module, property | What the code does |
|---|---|
| `StoreOutside.cfg`, `StoreMC`, `ReparseNeverFails` | a `mainPath` that exists but is in no workspace folder nor include directory panics the server: `reparse_all().expect(..)` (`server/mod.rs:231`) |
| `StoreRename.cfg`, `StoreMC`, `StoreFollowsDisk` | rename events are told apart by whether the path is known (`server/files/events.rs:70-78`): a file renamed over a known one is dropped, though `CHANGELOG.md:268` announces renames |
| `ServerTwoWorkers.cfg`, `ServerMC`, `SettingsFollowed` | two `didChangeConfiguration` in a row start two pulls (`server/notifications.rs:112`), delivered in any order: the older settings may stay |
| `DiagnosticsStale.cfg`, `DiagnosticsMC`, `ErrorsDisappear` | errors of spcomp that a late, older run reports are never cleared (`linter/spcomp.rs:183-192`; `CHANGELOG.md:233`: "Fixed diagnostics not disappearing.") |
| `DiagnosticsRemoved.cfg`, `DiagnosticsMC`, `PublishOverridesAll` | diagnostics of removed documents are never withdrawn, though the comment says they all are overridden (`server/diagnostics.rs:47-50`) |
| `DiagnosticsHints.cfg`, `DiagnosticsMC`, `HintsCleared` | deprecation hints grow with every lint, though the comment says that all diagnostics are cleared (`linter/mod.rs:13-19, 40, 55`) |
| `EvaluatorNested.cfg`, `EvaluatorMC`, `NestedIsSafe` | `1 + (TWICE(TWICE(2)))`, where `TWICE` uses its parameter twice, reaches the `unreachable!()` of `process_op` although its parentheses match: the arguments of the nested call are kept once (`macros.rs:209-267`), so that its second expansion reads on in the condition and takes a `)` |
| `EvaluatorUnreachable.cfg`, `EvaluatorMC`, `UnreachableIsUnreachable` | a parenthesis never closed, with two values on the queue, reaches the `unreachable!()` of `process_op` |
| `PreprocessorRows.cfg`, `PreprocessorMC`, `RowsInSync` | a comment or a continued line of two rows in a branch that is not taken loses a row, though the comment says "Keep the newline to keep the line numbers in sync" |
| `ReferencesAgain.cfg`, `ReferencesMC`, `VRangesAreSeen` | `v_range` is the "User visible range of the location." (`spitem/mod.rs:44`), but `find_references` clears the offsets it is made from (`semantic_analyzer/mod.rs:69`): when `sync_references` resolves the document again, tokens on a line with a macro are kept at their place in the preprocessed text |

Seen while modelling, and part of the models, without a property of their own:

- A comma, a keyword or a semicolon in a condition, or in the body of a macro
  that it names, is expanded to itself for ever; a methodmap that inherits from itself, once its parent is set, makes
  `Inherit::next` go round for ever (`semantic_analyzer/inherit.rs:17`);
  `EvaluateReturns` and `ResolutionEnds` exclude the two.
- A macro called in the arguments of another takes arguments in the order they
  were left; a closing parenthesis below the second level is kept twice; a `%2`
  that is no parameter, a division by zero and the least integer by -1 panic;
  what is nested five deep is dropped.
- `being_preprocessed` stays set once an include was read (`store.rs:341, 372`):
  an include whose text is empty is not read again.
- References to an item are lost when the document that declares it is opened
  again and still declares it: `sync_references` resolves only names that were
  unresolved (`store.rs:243-256`; `CHANGELOG.md:253` announces "support for
  refreshing semantic analysis outside of the edited file").
- With `main_path`, references of a document edited while what it refers to is
  not included by the main file stay as they were: once it is included again, a
  rename edits and semantic tokens show places of the old text.
  `RenameEditsTheName` and `HighlightsAreTheUses` are therefore about a store
  without `main_path`.
- A comment at the end of a row is taken for the documentation of what is
  declared below it too; with a deprecation only the last of a chain of line
  comments is kept; members of a typeset take the typeset's deprecation.
- The event of a save may be handled before the edits it saves: they are then
  applied to a text that has them (`server/notifications.rs:76`). An edit of a
  document that is not known is dropped (`server/notifications.rs:57`).

- `?` on the result of `register_file_watching` ends the server when a
  directory cannot be watched (`server/files/watching.rs:20`,
  `server/mod.rs:230`). What changes in a known file while the watcher is
  replaced is not noticed: no event reports it, and the scan skips what is known
  (`store.rs:182`).
- A missing include whose name URIs encode is not linked when the file
  comes (`store.rs:153`).
- The errors of all documents are cleared before spcomp runs
  (`server/diagnostics.rs:12-25`); when the run fails they are not
  there, until a later one succeeds.

## 6. Not modelled

- Tree-sitter and the lexer: a grammar and a token table, without state of
  their own. The models take nodes and tokens as given.
- Hover, completion, signature help, document symbols and the call hierarchy
  (`providers/`), and most of `spitem/`: they format what they read of a copy of
  the store, and change nothing. The copy shares its items with the live store
  (`server/fork.rs:92`); `References` models the live one.
- Types, dimensions, visibilities and ranges in the parsers of declarations;
  `#pragma` other than `deprecated`; the output of spcomp and its arguments.
- Logging, telemetry, the command line, and the tests.

What could be added: the composition of `References` with the copies of
`Server`; properties and enum structs in `References`.
