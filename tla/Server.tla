-------------------------------- MODULE Server --------------------------------
(***************************************************************************)
(* The threads of the language server and the channels between them        *)
(* (server/mod.rs, server/fork.rs, server/requests.rs, client.rs): the     *)
(* main thread, the workers of the pool, and the client at the other end.  *)
(*                                                                         *)
(* The main thread takes messages of the client from `inbox` and messages  *)
(* of the workers from `internal`, whichever select! picks; it answers no  *)
(* request itself but spawns a job with a copy of the store, which holds    *)
(* the texts of that moment but shares its items with the store.  A worker *)
(* that pulls the configuration sends a request to the client and blocks   *)
(* until the main thread hands it the response.                            *)
(*                                                                         *)
(* A text is known by the number of edits made to it; 0 is an empty store. *)
(* What the handlers do to the store is module Store's subject.            *)
(***************************************************************************)
EXTENDS Integers, Sequences

CONSTANTS
    Worker,             \* threads of the pool
    Request,            \* requests the client may send, by their ids
    Feature,            \* those a provider answers
    Unanswered,         \* those whose handler fails or whose params are invalid
    Settings,           \* what the client may have as settings
    Valid,              \* the settings that are valid Options
    DefaultOptions,     \* Options::default()
    Refused,            \* an error instead of the settings
    Refuses,            \* whether the client may answer with an error
    PullConfiguration,  \* has_pull_configuration_support
    MaxEdits,           \* bounds on what the client does
    MaxChanges

VARIABLES
    \* the client
    text,           \* edits it has made
    asked,          \* requests it has sent, each with the text at that moment
    settings,       \* its settings
    changes,        \* how often they changed
    client,         \* "open", "shutdown" requested or "exit" sent
    late,           \* history: the options that what it answered before its last
                    \* answer may still bring
    \* the channels
    inbox,          \* Connection::receiver: client to main thread
    outbox,         \* Connection::sender: what the client reacts to
    answers,        \* the responses sent to each request
    internal,       \* internal_tx to internal_rx: SetOptions messages
    jobs,           \* the queue of the thread pool
    \* the server
    main,           \* what the main thread is doing
    version,        \* the text in the store
    options,        \* Store::environment.options
    config_pulled,  \* Server::config_pulled
    next_id,        \* RawClient::next_id
    pending,        \* RawClient::pending: the ids someone waits for
    replies,        \* the channels of capacity one those ids lead to
    worker          \* what each worker is doing

clientVars == <<text, asked, settings, changes, client, late>>
mainVars   == <<main, version, options, config_pulled>>
rpcVars    == <<next_id, pending, replies>>
vars == <<clientVars, inbox, outbox, answers, internal, jobs, mainVars, rpcVars, worker>>

Contract == INSTANCE Answers WITH
    Request <- Request, text <- text, asked <- asked, answers <- answers

ASSUME ServerAssumption ==
    /\ Worker # {}
    /\ Feature \subseteq Request /\ Unanswered \subseteq Request
    /\ Feature \cap Unanswered = {}
    /\ Valid \subseteq Settings
    /\ Refused \notin Settings
    /\ Refuses \in BOOLEAN /\ PullConfiguration \in BOOLEAN
    /\ MaxEdits \in Nat /\ MaxChanges \in Nat

Option == Valid \cup {DefaultOptions}

\* ServerFork::parse_options: settings that are no Options give the default.
ParseOptions(s) == IF s \in Valid THEN s ELSE DefaultOptions

\* Messages of the client; `text` is not sent, it says what the client had
\* when it sent the message.
Message ==
    [kind : {"edit", "shutdown", "exit"}, text : Nat]
        \cup [kind : {"request"}, text : Nat, id : Request]
        \cup [kind : {"configuration"}, text : Nat, settings : Settings]
        \cup [kind : {"response"}, text : Nat, id : Nat, settings : Settings \cup {Refused}]

\* Jobs, and what a worker is doing: nothing, a request with the copy of the
\* store it was given, or a step of pull_config.
Idle == [at |-> "idle"]
Pull == [at |-> "pull"]
Job == {Pull} \cup [at : {"answer"}, id : Request, text : Nat]
Activity == {Idle} \cup Job
                \cup [at : {"send", "wait"}, id : Nat]
                \cup [at : {"deliver"}, settings : Settings]

Empty == [r \in {} |-> 0]

\* The process is gone when main fails, or when it has returned and no job
\* holds the sender of the connection any more (main.rs joins the threads).
Dead == main \in {"failed", "panicked"}
Exited ==
    \/ Dead
    \/ main = "returned" /\ jobs = <<>> /\ \A w \in Worker : worker[w] = Idle

-----------------------------------------------------------------------------
\* Server::new and Server::initialize: the first job pulls the configuration.
Init ==
    /\ text = 0 /\ asked = Empty /\ settings \in Settings /\ changes = 0 /\ client = "open"
    /\ inbox = <<>> /\ outbox = <<>> /\ internal = <<>>
    /\ answers = [r \in Request |-> <<>>]
    /\ jobs = <<Pull>>
    /\ main = "running" /\ version = 0 /\ options = DefaultOptions /\ config_pulled = FALSE
    /\ next_id = 1 /\ pending = {} /\ replies = Empty
    /\ worker = [w \in Worker |-> Idle]
    /\ late = {}

-----------------------------------------------------------------------------
(* The client.                                                             *)

Send(m) == inbox' = Append(inbox, m)

\* textDocument/didOpen or didChange.
ClientEdits ==
    /\ client = "open" /\ text < MaxEdits
    /\ text' = text + 1
    /\ Send([kind |-> "edit", text |-> text + 1])
    /\ UNCHANGED <<asked, settings, changes, client, outbox, answers, internal, jobs,
                   mainVars, rpcVars, worker, late>>

ClientAsks(r) ==
    /\ client = "open" /\ r \notin DOMAIN asked
    /\ asked' = [q \in DOMAIN asked \cup {r} |-> IF q = r THEN text ELSE asked[q]]
    /\ Send([kind |-> "request", text |-> text, id |-> r])
    /\ UNCHANGED <<text, settings, changes, client, outbox, answers, internal, jobs,
                   mainVars, rpcVars, worker, late>>

ClientChangesSettings(s) ==
    /\ client = "open" /\ changes < MaxChanges /\ s # settings
    /\ settings' = s
    /\ changes' = changes + 1
    /\ Send([kind |-> "configuration", text |-> text, settings |-> s])
    /\ UNCHANGED <<text, asked, client, outbox, answers, internal, jobs, mainVars,
                   rpcVars, worker, late>>

ClientShutsDown ==
    /\ client = "open"
    /\ client' = "shutdown"
    /\ Send([kind |-> "shutdown", text |-> text])
    /\ UNCHANGED <<text, asked, settings, changes, outbox, answers, internal, jobs,
                   mainVars, rpcVars, worker, late>>

\* What the client answered is on its way to the options: in a response, in
\* the channel of the worker that waits for it, or with that worker.
OnTheWay(s) ==
    \/ \E i \in DOMAIN inbox : inbox[i].kind = "response" /\ inbox[i].settings = s
    \/ \E n \in DOMAIN replies : replies[n] = s
    \/ \E w \in Worker : worker[w].at = "deliver" /\ worker[w].settings = s

Underway == {ParseOptions(s) : s \in {t \in Settings : OnTheWay(t)}}

\* The client reads its messages in order: it answers a request for its
\* settings with those it has by then, and exits once shutdown is answered.
ClientReceives ==
    /\ outbox # <<>> /\ client # "exit" /\ ~Dead
    /\ outbox' = Tail(outbox)
    /\ LET m == Head(outbox)
       IN  \/ /\ m.kind = "configuration"
              /\ \E s \in {settings} \cup IF Refuses THEN {Refused} ELSE {} :
                    /\ Send([kind |-> "response", text |-> text, id |-> m.id,
                             settings |-> s])
                    /\ late' = IF s = Refused THEN Option ELSE Underway
              /\ UNCHANGED client
           \/ /\ m.kind = "shutdown"
              /\ Send([kind |-> "exit", text |-> text])
              /\ client' = "exit"
              /\ UNCHANGED late
    /\ UNCHANGED <<text, asked, settings, changes, answers, internal, jobs, mainVars,
                   rpcVars, worker>>

-----------------------------------------------------------------------------
(* The main thread: Server::process_messages.                              *)

Take(kind) ==
    /\ main = "running"
    /\ inbox # <<>> /\ Head(inbox).kind = kind
    /\ inbox' = Tail(inbox)

Respond(r, ok, n, items) ==
    answers' = [answers EXCEPT ![r] = Append(@, [ok |-> ok, text |-> n, items |-> items])]

Spawn(job) == jobs' = Append(jobs, job)

\* Server::did_open, Server::did_change: the edit is applied to the text in
\* the store.
HandleEdit ==
    /\ Take("edit")
    /\ version' = version + 1
    /\ UNCHANGED <<clientVars, outbox, answers, internal, jobs, main, options,
                   config_pulled, rpcVars, worker>>

\* Server::handle_request: a request for a feature becomes a job with a copy
\* of the store; a method nobody knows is answered at once; invalid params and
\* a handler that fails leave the request without an answer.
HandleRequest ==
    /\ Take("request")
    /\ LET r == Head(inbox).id
       IN  /\ IF r \in Feature \cup Unanswered
              THEN UNCHANGED answers
              ELSE Respond(r, FALSE, 0, {})
           /\ IF r \in Feature
              THEN Spawn([at |-> "answer", id |-> r, text |-> version])
              ELSE UNCHANGED jobs
    /\ UNCHANGED <<clientVars, outbox, internal, mainVars, rpcVars, worker>>

\* A wrong did_change_configuration, that takes the options it has for final.
ConfigureOnce ==
    /\ Take("configuration")
    /\ IF config_pulled
       THEN UNCHANGED <<jobs, options, config_pulled>>
       ELSE IF PullConfiguration
       THEN /\ Spawn(Pull)
            /\ UNCHANGED <<options, config_pulled>>
       ELSE /\ options' = ParseOptions(Head(inbox).settings)
            /\ config_pulled' = TRUE
            /\ UNCHANGED jobs
    /\ UNCHANGED <<clientVars, outbox, answers, internal, main, version, rpcVars, worker>>

\* Server::did_change_configuration.
HandleConfiguration ==
    /\ Take("configuration")
    /\ IF PullConfiguration
       THEN /\ Spawn(Pull)
            /\ UNCHANGED <<options, config_pulled>>
       ELSE /\ options' = ParseOptions(Head(inbox).settings)
            /\ config_pulled' = TRUE
            /\ UNCHANGED jobs
    /\ UNCHANGED <<clientVars, outbox, answers, internal, main, version, rpcVars, worker>>

\* A wrong recv_response, that forgets who waits.
DropResponse ==
    /\ Take("response")
    /\ pending' = pending \ {Head(inbox).id}
    /\ main' = IF Head(inbox).id \in pending THEN main ELSE "panicked"
    /\ UNCHANGED <<clientVars, outbox, answers, internal, jobs, version, options,
                   config_pulled, next_id, replies, worker>>

\* LspClient::recv_response: the worker that waits for the response gets it;
\* without one the main thread panics.
HandleResponse ==
    /\ Take("response")
    /\ LET m == Head(inbox)
       IN  IF m.id \in pending
           THEN /\ pending' = pending \ {m.id}
                /\ replies' = [i \in DOMAIN replies \cup {m.id} |->
                                    IF i = m.id THEN m.settings ELSE replies[i]]
                /\ UNCHANGED main
           ELSE /\ main' = "panicked"
                /\ UNCHANGED <<pending, replies>>
    /\ UNCHANGED <<clientVars, outbox, answers, internal, jobs, version, options,
                   config_pulled, next_id, worker>>

\* Connection::handle_shutdown answers and waits for exit.
HandleShutdown ==
    /\ Take("shutdown")
    /\ outbox' = Append(outbox, [kind |-> "shutdown"])
    /\ main' = "closing"
    /\ UNCHANGED <<clientVars, answers, internal, jobs, version, options, config_pulled,
                   rpcVars, worker>>

\* Any other message, or none for thirty seconds, is an error.
HandleExit ==
    /\ main = "closing"
    /\ main' = IF inbox # <<>> /\ Head(inbox).kind = "exit" THEN "returned" ELSE "failed"
    /\ inbox' = IF inbox = <<>> THEN inbox ELSE Tail(inbox)
    /\ UNCHANGED <<clientVars, outbox, answers, internal, jobs, version, options,
                   config_pulled, rpcVars, worker>>

\* InternalMessage::SetOptions.
SetOptions ==
    /\ main = "running" /\ internal # <<>>
    /\ internal' = Tail(internal)
    /\ options' = Head(internal)
    /\ config_pulled' = TRUE
    /\ UNCHANGED <<clientVars, inbox, outbox, answers, jobs, main, version, rpcVars, worker>>

-----------------------------------------------------------------------------
(* The workers.                                                            *)

At(w, step) == worker[w].at = step /\ ~Dead

Become(w, activity) == worker' = [worker EXCEPT ![w] = activity]

TakeJob(w) ==
    /\ At(w, "idle") /\ jobs # <<>>
    /\ jobs' = Tail(jobs)
    /\ Become(w, Head(jobs))
    /\ UNCHANGED <<clientVars, inbox, outbox, answers, internal, mainVars, rpcVars>>

\* A wrong job, that reads the store when it runs.
AnswerFromStore(w) ==
    /\ At(w, "answer")
    /\ Respond(worker[w].id, version > 0, version, {})
    /\ Become(w, Idle)
    /\ UNCHANGED <<clientVars, inbox, outbox, internal, jobs, mainVars, rpcVars>>

\* The job of Server::handle_feature_request: the provider runs on the copy
\* of the store the job was given; an empty one is an error.  The items it
\* reads are those of any edits made since: an item is as the main thread has
\* it by then, or as it was when an edit of its document left it to the copy.
AnswerFeature(w) ==
    /\ At(w, "answer")
    /\ \E items \in SUBSET (worker[w].text .. version) :
          IF worker[w].text > 0
          THEN Respond(worker[w].id, TRUE, worker[w].text, items)
          ELSE Respond(worker[w].id, FALSE, 0, {})
    /\ Become(w, Idle)
    /\ UNCHANGED <<clientVars, inbox, outbox, internal, jobs, mainVars, rpcVars>>

\* A wrong send_request, that reads next_id and increments it later.
RegisterRequestUnique(w) ==
    /\ At(w, "pull")
    /\ IF PullConfiguration
       THEN /\ pending' = pending \cup {next_id}
            /\ Become(w, [at |-> "send", id |-> next_id])
       ELSE /\ Become(w, Idle)
            /\ UNCHANGED pending
    /\ UNCHANGED <<clientVars, inbox, outbox, answers, internal, jobs, mainVars,
                   replies, next_id>>

\* ServerFork::pull_config without pull support ends here; with it,
\* LspClient::send_request takes an id and registers it before it sends.
RegisterRequest(w) ==
    /\ At(w, "pull")
    /\ IF PullConfiguration
       THEN /\ next_id' = next_id + 1
            /\ pending' = pending \cup {next_id}
            /\ Become(w, [at |-> "send", id |-> next_id])
       ELSE /\ Become(w, Idle)
            /\ UNCHANGED <<next_id, pending>>
    /\ UNCHANGED <<clientVars, inbox, outbox, answers, internal, jobs, mainVars, replies>>

SendRequest(w) ==
    /\ At(w, "send")
    /\ outbox' = Append(outbox, [kind |-> "configuration", id |-> worker[w].id])
    /\ Become(w, [worker[w] EXCEPT !.at = "wait"])
    /\ UNCHANGED <<clientVars, inbox, answers, internal, jobs, mainVars, rpcVars>>

\* A wrong pull_config, that takes an error for settings.
DeliverRefusal(w) ==
    /\ At(w, "wait") /\ worker[w].id \in DOMAIN replies
    /\ Become(w, [at |-> "deliver", settings |-> replies[worker[w].id]])
    /\ replies' = [i \in DOMAIN replies \ {worker[w].id} |-> replies[i]]
    /\ UNCHANGED <<clientVars, inbox, outbox, answers, internal, jobs, mainVars,
                   next_id, pending>>

\* The response has come: an error ends the job.
ReceiveResponse(w) ==
    /\ At(w, "wait") /\ worker[w].id \in DOMAIN replies
    /\ LET s == replies[worker[w].id]
       IN  Become(w, IF s = Refused THEN Idle ELSE [at |-> "deliver", settings |-> s])
    /\ replies' = [i \in DOMAIN replies \ {worker[w].id} |-> replies[i]]
    /\ UNCHANGED <<clientVars, inbox, outbox, answers, internal, jobs, mainVars,
                   next_id, pending>>

\* A wrong delivery, that waits for the main thread to take the options.
DeliverWhileRunning(w) ==
    /\ At(w, "deliver") /\ main = "running"
    /\ internal' = Append(internal, ParseOptions(worker[w].settings))
    /\ Become(w, Idle)
    /\ UNCHANGED <<clientVars, inbox, outbox, answers, jobs, mainVars, rpcVars>>

\* The options go to the main thread; when it has returned the send fails and
\* the job panics, which ends it as well.
DeliverOptions(w) ==
    /\ At(w, "deliver")
    /\ internal' = IF main = "returned" THEN internal
                   ELSE Append(internal, ParseOptions(worker[w].settings))
    /\ Become(w, Idle)
    /\ UNCHANGED <<clientVars, inbox, outbox, answers, jobs, mainVars, rpcVars>>

-----------------------------------------------------------------------------
Client ==
    \/ ClientEdits
    \/ \E r \in Request : ClientAsks(r)
    \/ \E s \in Settings : ClientChangesSettings(s)
    \/ ClientShutsDown
    \/ ClientReceives

MainInbox ==
    HandleEdit \/ HandleRequest \/ HandleConfiguration \/ HandleResponse \/ HandleShutdown

Work(w) ==
    TakeJob(w) \/ AnswerFeature(w) \/ RegisterRequest(w) \/ SendRequest(w)
        \/ ReceiveResponse(w) \/ DeliverOptions(w)

Next == Client \/ MainInbox \/ HandleExit \/ SetOptions \/ (\E w \in Worker : Work(w))

\* The threads and the client make progress; select! picks fairly between the
\* two channels; what the client asks for, and whether it stops, is its choice.
Fairness ==
    /\ WF_vars(MainInbox)
    /\ WF_vars(HandleExit)
    /\ WF_vars(SetOptions)
    /\ \A w \in Worker : WF_vars(Work(w))
    /\ WF_vars(ClientReceives)

Spec == Init /\ [][Next]_vars
FairSpec == Spec /\ Fairness

\* A client that never stops.
OpenSpec == Init /\ [][Next /\ client' = "open"]_vars

-----------------------------------------------------------------------------
(* Properties.                                                             *)

\* Every channel carries messages of its type only, and what a worker is given
\* or delivers is a request, settings or options, never an error in their place.
TypeOK ==
    /\ text \in Nat /\ settings \in Settings /\ changes \in Nat
    /\ DOMAIN asked \subseteq Request /\ asked \in [DOMAIN asked -> Nat]
    /\ client \in {"open", "shutdown", "exit"}
    /\ inbox \in Seq(Message)
    /\ outbox \in Seq([kind : {"shutdown"}] \cup [kind : {"configuration"}, id : Nat])
    /\ answers \in [Request -> Seq(Contract!Response)]
    /\ internal \in Seq(Option)
    /\ jobs \in Seq(Job)
    /\ main \in {"running", "closing", "returned", "failed", "panicked"}
    /\ version \in Nat /\ options \in Option /\ config_pulled \in BOOLEAN
    /\ next_id \in Nat /\ pending \subseteq Nat
    /\ DOMAIN replies \subseteq Nat /\ replies \in [DOMAIN replies -> Settings \cup {Refused}]
    /\ worker \in [Worker -> Activity]
    /\ late \subseteq Option

\* However the workers interleave, a response of the client is one somebody
\* waits for, so recv_response never panics.
ResponsesAwaited == main # "panicked"

\* The server keeps the promise of module Answers: a request is answered at
\* most once, from the text the client had when it sent it and from items of
\* no earlier text, whichever worker runs it and whatever is edited meanwhile
\* (server/mod.rs:172-184, server/requests.rs).
KeepsPromise == Contract!ContractSpec

\* Every request that has a provider is answered, even when all the workers
\* are pulling the configuration, unless the process ends first.
FeaturesAnswered ==
    \A r \in Feature : r \in DOMAIN asked ~> (answers[r] # <<>> \/ main # "running")

\* A server asked to stop does, unless a worker waits for a response of the
\* client that will not come, which keeps the process alive for ever.
StopsUnlessPulling ==
    client = "exit" ~> (Exited \/ \E w \in Worker : worker[w].at = "wait")

Pulling == (\E i \in DOMAIN jobs : jobs[i] = Pull)
             \/ (\E w \in Worker : worker[w].at \in {"pull", "send", "wait", "deliver"})
Quiet == inbox = <<>> /\ outbox = <<>> /\ internal = <<>> /\ ~Pulling

\* When nothing is on its way any more, the options are the client's settings,
\* whichever workers pulled them: an earlier answer stays only if it had not
\* reached the main thread when the client gave its last one, or if that was
\* an error (notifications.rs:108-125, fork.rs:25-56).
ConfigurationSettles ==
    main = "running" /\ config_pulled /\ Quiet =>
        options \in {ParseOptions(settings)} \cup late

\* When nothing is on its way any more, the options are the client's settings.
\* Refuted: two workers deliver what they pulled in any order.
SettingsFollowed ==
    main = "running" /\ config_pulled /\ Quiet => options = ParseOptions(settings)
=============================================================================
