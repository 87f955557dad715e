---------------------------- MODULE Server_proofs ----------------------------
(***************************************************************************)
(* Proofs about Server, for every set of workers, requests and settings    *)
(* and whatever the client sends: the state is well-typed, the threads     *)
(* keep the promise of module Answers, no response of the client finds     *)
(* nobody waiting for it, and the settings arrive.                         *)
(***************************************************************************)
EXTENDS Server, TLAPS

-----------------------------------------------------------------------------
(* Queues.                                                                 *)

\* Taking the head of a queue shifts what is left by one.
LEMMA TakeHead ==
    ASSUME NEW S, NEW q \in Seq(S), q # <<>>
    PROVE  /\ Head(q) = q[1] /\ Head(q) \in S /\ 1 \in DOMAIN q
           /\ Tail(q) \in Seq(S)
           /\ \A i \in DOMAIN Tail(q) : i + 1 \in DOMAIN q /\ Tail(q)[i] = q[i + 1]
           /\ \A i \in DOMAIN Tail(q) : i # 1 => i - 1 \in DOMAIN Tail(q)
           /\ DOMAIN Tail(q) = 1..(Len(q) - 1)
  OBVIOUS

\* Adding at the end leaves what is there.
LEMMA AddLast ==
    ASSUME NEW S, NEW q \in Seq(S), NEW e \in S
    PROVE  /\ Append(q, e) \in Seq(S)
           /\ DOMAIN Append(q, e) = DOMAIN q \cup {Len(q) + 1}
           /\ Append(q, e)[Len(q) + 1] = e
           /\ Len(q) + 1 \notin DOMAIN q
           /\ \A i \in DOMAIN q : Append(q, e)[i] = q[i]
           /\ Len(Append(q, e)) = Len(q) + 1
  OBVIOUS

-----------------------------------------------------------------------------
(* Types.                                                                  *)

\* What a worker holds is of the type its step needs.
LEMMA WorkerKinds ==
    ASSUME TypeOK, NEW w \in Worker
    PROVE  /\ worker[w].at = "answer" => worker[w].id \in Request /\ worker[w].text \in Nat
           /\ worker[w].at \in {"send", "wait"} => worker[w].id \in Nat
           /\ worker[w].at = "deliver" => worker[w].settings \in Settings
<1>1. worker[w] \in Activity
  BY DEF TypeOK
<1> QED BY <1>1 DEF Activity, Job, Idle, Pull

\* The fields of a message of the client are of the type its handler needs.
LEMMA MessageKinds ==
    ASSUME NEW m \in Message
    PROVE  /\ m.text \in Nat
           /\ m.kind = "request" => m.id \in Request
           /\ m.kind = "configuration" => m.settings \in Settings
           /\ m.kind = "response" => m.id \in Nat /\ m.settings \in Settings \cup {Refused}
  BY DEF Message

\* Options are read from any settings.
LEMMA ParsedOption == \A s : ParseOptions(s) \in Option
  BY DEF ParseOptions, Option

\* Appending a response keeps the answers typed.
LEMMA RespondTyped ==
    ASSUME TypeOK, NEW r \in Request, NEW ok \in BOOLEAN, NEW n \in Nat,
           NEW items \in SUBSET Nat, Respond(r, ok, n, items)
    PROVE  answers' \in [Request -> Seq(Contract!Response)]
<1>1. [ok |-> ok, text |-> n, items |-> items] \in Contract!Response
  BY DEF Contract!Response
<1>2. answers[r] \in Seq(Contract!Response)
  BY DEF TypeOK
<1>3. Append(answers[r], [ok |-> ok, text |-> n, items |-> items]) \in Seq(Contract!Response)
  BY <1>1, <1>2
<1> QED BY <1>3 DEF Respond, TypeOK

\* The client keeps the state well-typed.
LEMMA ClientTyped ==
    ASSUME ServerAssumption, TypeOK, Client
    PROVE  TypeOK'
<1>1. CASE ClientEdits
  <2>1. [kind |-> "edit", text |-> text + 1] \in Message
    BY DEF TypeOK, Message
  <2>2. inbox' \in Seq(Message)
    BY <1>1, <2>1, AddLast DEF ClientEdits, Send, TypeOK
  <2> QED BY <1>1, <2>2 DEF ClientEdits, TypeOK, mainVars, rpcVars
<1>2. ASSUME NEW r \in Request, ClientAsks(r) PROVE TypeOK'
  <2>1. [kind |-> "request", text |-> text, id |-> r] \in Message
    BY DEF TypeOK, Message
  <2>2. inbox' \in Seq(Message)
    BY <1>2, <2>1, AddLast DEF ClientAsks, Send, TypeOK
  <2>3. /\ DOMAIN asked' \subseteq Request
        /\ asked' \in [DOMAIN asked' -> Nat]
    BY <1>2 DEF ClientAsks, TypeOK
  <2> QED BY <1>2, <2>2, <2>3 DEF ClientAsks, TypeOK, mainVars, rpcVars
<1>3. ASSUME NEW s \in Settings, ClientChangesSettings(s) PROVE TypeOK'
  <2>1. [kind |-> "configuration", text |-> text, settings |-> s] \in Message
    BY DEF TypeOK, Message
  <2>2. inbox' \in Seq(Message)
    BY <1>3, <2>1, AddLast DEF ClientChangesSettings, Send, TypeOK
  <2> QED BY <1>3, <2>2 DEF ClientChangesSettings, TypeOK, mainVars, rpcVars
<1>4. CASE ClientShutsDown
  <2>1. [kind |-> "shutdown", text |-> text] \in Message
    BY DEF TypeOK, Message
  <2>2. inbox' \in Seq(Message)
    BY <1>4, <2>1, AddLast DEF ClientShutsDown, Send, TypeOK
  <2> QED BY <1>4, <2>2 DEF ClientShutsDown, TypeOK, mainVars, rpcVars
<1>5. CASE ClientReceives
  <2> DEFINE Out == [kind : {"shutdown"}] \cup [kind : {"configuration"}, id : Nat]
  <2>1. outbox' \in Seq(Out) /\ Head(outbox) \in Out
    BY <1>5, TakeHead DEF ClientReceives, TypeOK
  <2>2. CASE Head(outbox).kind = "configuration"
    <3>1. Head(outbox).id \in Nat
      BY <2>1, <2>2
    <3>2. PICK s \in {settings} \cup (IF Refuses THEN {Refused} ELSE {}) :
              Send([kind |-> "response", text |-> text, id |-> Head(outbox).id,
                    settings |-> s])
      BY <1>5, <2>2 DEF ClientReceives
    <3>3. [kind |-> "response", text |-> text, id |-> Head(outbox).id, settings |-> s]
            \in Message
      BY <3>1, <3>2 DEF TypeOK, Message
    <3>4. inbox' \in Seq(Message)
      BY <3>2, <3>3, AddLast DEF Send, TypeOK
    <3>5. late' \subseteq Option
      <4>1. \E t : late' = IF t = Refused THEN Option ELSE Underway
        BY <1>5, <2>2 DEF ClientReceives
      <4>2. Underway \subseteq Option
        BY ParsedOption DEF Underway
      <4> QED BY <4>1, <4>2
    <3> QED BY <1>5, <2>1, <2>2, <3>4, <3>5 DEF ClientReceives, TypeOK, mainVars, rpcVars
  <2>3. CASE Head(outbox).kind = "shutdown"
    <3>1. [kind |-> "exit", text |-> text] \in Message
      BY DEF TypeOK, Message
    <3>2. Send([kind |-> "exit", text |-> text]) /\ client' = "exit" /\ UNCHANGED late
      BY <1>5, <2>3 DEF ClientReceives
    <3>3. inbox' \in Seq(Message)
      BY <3>1, <3>2, AddLast DEF Send, TypeOK
    <3> QED BY <1>5, <2>1, <3>2, <3>3 DEF ClientReceives, TypeOK, mainVars, rpcVars
  <2> QED BY <1>5, <2>2, <2>3 DEF ClientReceives
<1> QED BY <1>1, <1>2, <1>3, <1>4, <1>5 DEF Client

\* The main thread keeps the state well-typed.
LEMMA MainTyped ==
    ASSUME ServerAssumption, TypeOK, MainInbox \/ HandleExit \/ SetOptions
    PROVE  TypeOK'
<1> DEFINE m == Head(inbox)
<1>1. inbox # <<>> => Tail(inbox) \in Seq(Message) /\ m \in Message
  BY TakeHead DEF TypeOK
<1>2. CASE HandleEdit
  BY <1>1, <1>2 DEF HandleEdit, Take, TypeOK, clientVars, rpcVars
<1>3. CASE HandleRequest
  <2>1. inbox' \in Seq(Message) /\ m.id \in Request
    BY <1>1, <1>3, MessageKinds DEF HandleRequest, Take
  <2>0. {} \in SUBSET Nat /\ FALSE \in BOOLEAN /\ 0 \in Nat
    OBVIOUS
  <2>2. answers' \in [Request -> Seq(Contract!Response)]
    BY <1>3, <2>1, <2>0, RespondTyped DEF HandleRequest, TypeOK
  <2>3. [at |-> "answer", id |-> m.id, text |-> version] \in Job
    BY <2>1 DEF Job, TypeOK
  <2>4. jobs' \in Seq(Job)
    <3>1. jobs \in Seq(Job)
      BY DEF TypeOK
    <3>2. Append(jobs, [at |-> "answer", id |-> m.id, text |-> version]) \in Seq(Job)
      BY <2>3, <3>1, AddLast
    <3> QED BY <1>3, <3>1, <3>2 DEF HandleRequest, Spawn
  <2> QED BY <1>3, <2>1, <2>2, <2>4 DEF HandleRequest, TypeOK, clientVars, mainVars, rpcVars
<1>4. CASE HandleConfiguration
  <2>1. inbox' \in Seq(Message)
    BY <1>1, <1>4 DEF HandleConfiguration, Take
  <2>2. jobs' \in Seq(Job)
    <3>1. jobs \in Seq(Job) /\ Pull \in Job
      BY DEF TypeOK, Job
    <3>2. Append(jobs, Pull) \in Seq(Job)
      BY <3>1, AddLast
    <3> QED BY <1>4, <3>1, <3>2 DEF HandleConfiguration, Spawn
  <2>3. options' \in Option /\ config_pulled' \in BOOLEAN
    BY <1>4, ParsedOption DEF HandleConfiguration, TypeOK
  <2> QED BY <1>4, <2>1, <2>2, <2>3 DEF HandleConfiguration, TypeOK, clientVars, rpcVars
<1>5. CASE HandleResponse
  <2>1. inbox' \in Seq(Message) /\ m.id \in Nat /\ m.settings \in Settings \cup {Refused}
    BY <1>1, <1>5, MessageKinds DEF HandleResponse, Take
  <2>2. main' \in {"running", "closing", "returned", "failed", "panicked"}
    BY <1>5 DEF HandleResponse, TypeOK
  <2>3. pending' \subseteq Nat
    BY <1>5, <2>1 DEF HandleResponse, TypeOK
  <2>4. /\ DOMAIN replies' \subseteq Nat
        /\ replies' \in [DOMAIN replies' -> Settings \cup {Refused}]
    <3>1. CASE m.id \in pending
      <4>1. replies' = [i \in DOMAIN replies \cup {m.id} |->
                            IF i = m.id THEN m.settings ELSE replies[i]]
        BY <1>5, <3>1 DEF HandleResponse
      <4> QED BY <2>1, <4>1 DEF TypeOK
    <3>2. CASE m.id \notin pending
      BY <1>5, <3>2 DEF HandleResponse, TypeOK
    <3> QED BY <3>1, <3>2
  <2> QED BY <1>5, <2>1, <2>2, <2>3, <2>4 DEF HandleResponse, TypeOK, clientVars
<1>6. CASE HandleShutdown
  <2> DEFINE Out == [kind : {"shutdown"}] \cup [kind : {"configuration"}, id : Nat]
  <2>1. inbox' \in Seq(Message)
    BY <1>1, <1>6 DEF HandleShutdown, Take
  <2>2. outbox' \in Seq(Out)
    BY <1>6, AddLast DEF HandleShutdown, TypeOK
  <2> QED BY <1>6, <2>1, <2>2 DEF HandleShutdown, TypeOK, clientVars, rpcVars
<1>7. CASE HandleExit
  BY <1>1, <1>7 DEF HandleExit, TypeOK, clientVars, rpcVars
<1>8. CASE SetOptions
  <2>1. internal' \in Seq(Option) /\ options' \in Option
    BY <1>8, TakeHead DEF SetOptions, TypeOK
  <2> QED BY <1>8, <2>1 DEF SetOptions, TypeOK, clientVars, rpcVars
<1> QED BY <1>2, <1>3, <1>4, <1>5, <1>6, <1>7, <1>8 DEF MainInbox

\* A worker that goes on to another activity keeps the workers well-typed.
LEMMA BecomeTyped ==
    ASSUME TypeOK, NEW w \in Worker, NEW a \in Activity, Become(w, a)
    PROVE  worker' \in [Worker -> Activity]
  BY DEF Become, TypeOK

\* The workers keep the state well-typed.
LEMMA WorkTyped ==
    ASSUME ServerAssumption, TypeOK, NEW w \in Worker, Work(w)
    PROVE  TypeOK'
<1> DEFINE Out == [kind : {"shutdown"}] \cup [kind : {"configuration"}, id : Nat]
<1>0. Idle \in Activity /\ Pull \in Activity
  BY DEF Activity, Job
<1>1. CASE TakeJob(w)
  <2>1. jobs' \in Seq(Job) /\ Head(jobs) \in Job
    <3>1. jobs \in Seq(Job) /\ jobs # <<>> /\ jobs' = Tail(jobs)
      BY <1>1 DEF TakeJob, TypeOK
    <3> QED BY <3>1, TakeHead
  <2>3. Head(jobs) \in Activity
    BY <2>1 DEF Activity
  <2>4. Become(w, Head(jobs))
    BY <1>1 DEF TakeJob
  <2>5. worker' \in [Worker -> Activity]
    BY <2>3, <2>4, BecomeTyped
  <2> QED BY <1>1, <2>1, <2>5 DEF TakeJob, TypeOK, clientVars, mainVars, rpcVars
<1>2. CASE AnswerFeature(w)
  <2>1. worker[w].id \in Request /\ worker[w].text \in Nat
    BY <1>2, WorkerKinds DEF AnswerFeature, At
  <2>2. answers' \in [Request -> Seq(Contract!Response)]
    <3> DEFINE r == worker[w].id
               n == worker[w].text
    <3>1. PICK items \in SUBSET (n .. version) :
              Respond(r, TRUE, n, items) \/ Respond(r, FALSE, 0, {})
      BY <1>2 DEF AnswerFeature
    <3>2. items \in SUBSET Nat /\ {} \in SUBSET Nat /\ 0 \in Nat
      BY <2>1
    <3>3. TRUE \in BOOLEAN /\ FALSE \in BOOLEAN
      OBVIOUS
    <3> QED BY <2>1, <3>1, <3>2, <3>3, RespondTyped
  <2>3. worker' \in [Worker -> Activity]
    BY <1>2, <1>0, BecomeTyped DEF AnswerFeature
  <2> QED BY <1>2, <2>2, <2>3 DEF AnswerFeature, TypeOK, clientVars, mainVars, rpcVars
<1>3. CASE RegisterRequest(w)
  <2>1. [at |-> "send", id |-> next_id] \in Activity
    BY DEF Activity, TypeOK
  <2>2. worker' \in [Worker -> Activity]
    BY <1>3, <1>0, <2>1, BecomeTyped DEF RegisterRequest
  <2>3. next_id' \in Nat /\ pending' \subseteq Nat
    BY <1>3 DEF RegisterRequest, TypeOK
  <2> QED BY <1>3, <2>2, <2>3 DEF RegisterRequest, TypeOK, clientVars, mainVars
<1>4. CASE SendRequest(w)
  <2>1. worker[w].at = "send" /\ worker[w].id \in Nat
    BY <1>4, WorkerKinds DEF SendRequest, At
  <2>2. [kind |-> "configuration", id |-> worker[w].id] \in Out
    BY <2>1
  <2>3. outbox' \in Seq(Out)
    BY <1>4, <2>2, AddLast DEF SendRequest, TypeOK
  <2>4. [worker[w] EXCEPT !.at = "wait"] \in Activity
    <3>1. worker[w] \in Activity
      BY DEF TypeOK
    <3>2. worker[w] \in [at : {"send", "wait"}, id : Nat]
      BY <2>1, <3>1 DEF Activity, Job, Idle, Pull
    <3>3. [worker[w] EXCEPT !.at = "wait"] \in [at : {"send", "wait"}, id : Nat]
      BY <3>2
    <3> QED BY <3>3 DEF Activity
  <2>5. worker' \in [Worker -> Activity]
    BY <1>4, <2>4, BecomeTyped DEF SendRequest
  <2> QED BY <1>4, <2>3, <2>5 DEF SendRequest, TypeOK, clientVars, mainVars, rpcVars
<1>5. CASE ReceiveResponse(w)
  <2> DEFINE s == replies[worker[w].id]
  <2>1. s \in Settings \cup {Refused}
    BY <1>5 DEF ReceiveResponse, TypeOK
  <2>2. s # Refused => [at |-> "deliver", settings |-> s] \in Activity
    BY <2>1 DEF Activity
  <2>3. worker' \in [Worker -> Activity]
    BY <1>5, <1>0, <2>2, BecomeTyped DEF ReceiveResponse
  <2>4. /\ DOMAIN replies' \subseteq Nat
        /\ replies' \in [DOMAIN replies' -> Settings \cup {Refused}]
    BY <1>5 DEF ReceiveResponse, TypeOK
  <2> QED BY <1>5, <2>3, <2>4 DEF ReceiveResponse, TypeOK, clientVars, mainVars
<1>6. CASE DeliverOptions(w)
  <2>1. internal' \in Seq(Option)
    BY <1>6, AddLast, ParsedOption DEF DeliverOptions, TypeOK
  <2>2. worker' \in [Worker -> Activity]
    BY <1>6, <1>0, BecomeTyped DEF DeliverOptions
  <2> QED BY <1>6, <2>1, <2>2 DEF DeliverOptions, TypeOK, clientVars, mainVars, rpcVars
<1> QED BY <1>1, <1>2, <1>3, <1>4, <1>5, <1>6 DEF Work

\* The initial state is well-typed.
LEMMA InitTyped == ASSUME ServerAssumption, Init PROVE TypeOK
<1>1. DOMAIN asked = {} /\ DOMAIN replies = {}
  BY DEF Init, Empty
<1>2. jobs \in Seq(Job)
  BY DEF Init, Job
<1>3. answers \in [Request -> Seq(Contract!Response)]
  BY DEF Init
<1>4. worker \in [Worker -> Activity]
  BY DEF Init, Activity
<1>5. asked \in [DOMAIN asked -> Nat] /\ replies \in [DOMAIN replies -> Settings \cup {Refused}]
  BY DEF Init, Empty
<1>6. /\ inbox \in Seq(Message) /\ internal \in Seq(Option)
      /\ outbox \in Seq([kind : {"shutdown"}] \cup [kind : {"configuration"}, id : Nat])
  BY DEF Init
<1>7. /\ text \in Nat /\ settings \in Settings /\ changes \in Nat
      /\ client = "open" /\ main = "running" /\ version \in Nat
      /\ options \in Option /\ config_pulled \in BOOLEAN
      /\ next_id \in Nat /\ pending \subseteq Nat /\ late \subseteq Option
  BY DEF Init, Option
<1> QED BY <1>1, <1>2, <1>3, <1>4, <1>5, <1>6, <1>7 DEF TypeOK

\* A step that changes nothing keeps the state well-typed.
LEMMA StutterTyped == ASSUME TypeOK, UNCHANGED vars PROVE TypeOK'
  BY DEF TypeOK, vars, clientVars, mainVars, rpcVars

\* Every step keeps the state well-typed.
LEMMA NextTyped == ASSUME ServerAssumption, TypeOK, [Next]_vars PROVE TypeOK'
<1>1. CASE Client
  BY <1>1, ClientTyped
<1>2. CASE MainInbox \/ HandleExit \/ SetOptions
  BY <1>2, MainTyped
<1>3. ASSUME NEW w \in Worker, Work(w) PROVE TypeOK'
  BY <1>3, WorkTyped
<1>4. CASE UNCHANGED vars
  BY <1>4, StutterTyped
<1> QED BY <1>1, <1>2, <1>3, <1>4 DEF Next

\* The state of the threads and of the channels is well-typed.
THEOREM ThreadsTyped == Spec => []TypeOK
<1>1. Init => TypeOK
  BY InitTyped, ServerAssumption
<1>2. TypeOK /\ [Next]_vars => TypeOK'
  BY NextTyped, ServerAssumption
<1> QED BY <1>1, <1>2, PTL DEF Spec

-----------------------------------------------------------------------------
(* Every response of the client is awaited.  A pull of the configuration   *)
(* is in one place only: with the worker that is about to send it, on its  *)
(* way to the client or back as a response; and as long as it is, its id   *)
(* is pending.                                                             *)

AllPending ==
    /\ \A n \in pending : n < next_id
    /\ \A w \in Worker : worker[w].at = "send" => worker[w].id \in pending
    /\ \A i \in DOMAIN outbox : outbox[i].kind = "configuration" => outbox[i].id \in pending
    /\ \A i \in DOMAIN inbox : inbox[i].kind = "response" => inbox[i].id \in pending

\* No two workers, messages of the outbox or of the inbox have the same id.
PullOnce ==
    /\ \A v, w \in Worker :
          worker[v].at = "send" /\ worker[w].at = "send" /\ worker[v].id = worker[w].id => v = w
    /\ \A i, j \in DOMAIN outbox :
          /\ outbox[i].kind = "configuration" /\ outbox[j].kind = "configuration"
          /\ outbox[i].id = outbox[j].id
          => i = j
    /\ \A i, j \in DOMAIN inbox :
          inbox[i].kind = "response" /\ inbox[j].kind = "response" /\ inbox[i].id = inbox[j].id
          => i = j

PullApart ==
    /\ \A w \in Worker, i \in DOMAIN outbox :
          worker[w].at = "send" /\ outbox[i].kind = "configuration"
          => worker[w].id # outbox[i].id
    /\ \A w \in Worker, i \in DOMAIN inbox :
          worker[w].at = "send" /\ inbox[i].kind = "response" => worker[w].id # inbox[i].id
    /\ \A i \in DOMAIN outbox, j \in DOMAIN inbox :
          outbox[i].kind = "configuration" /\ inbox[j].kind = "response"
          => outbox[i].id # inbox[j].id

PullInv == TypeOK /\ ResponsesAwaited /\ AllPending /\ PullOnce /\ PullApart

\* Nothing is lost when the client sends something else than a response.
LEMMA PullSend ==
    ASSUME PullInv, NEW m \in Message, m.kind # "response", Send(m),
           UNCHANGED <<main, outbox, worker, pending, next_id>>
    PROVE  (ResponsesAwaited /\ AllPending /\ PullOnce /\ PullApart)'
<1>1. /\ DOMAIN inbox' = DOMAIN inbox \cup {Len(inbox) + 1}
      /\ inbox'[Len(inbox) + 1] = m
      /\ \A i \in DOMAIN inbox : inbox'[i] = inbox[i]
  BY AddLast DEF Send, PullInv, TypeOK
<1>2. \A i \in DOMAIN inbox' : inbox'[i].kind = "response" => i \in DOMAIN inbox
  BY <1>1
<1>3. ResponsesAwaited' /\ AllPending'
  BY <1>1, <1>2 DEF PullInv, ResponsesAwaited, AllPending
<1>4. PullOnce'
  BY <1>1, <1>2 DEF PullInv, PullOnce
<1>5. PullApart'
  BY <1>1, <1>2 DEF PullInv, PullApart
<1> QED BY <1>3, <1>4, <1>5

\* Nothing is lost when the main thread takes something else than a response,
\* and puts nothing but an answer to shutdown in the outbox.
LEMMA PullTake ==
    ASSUME PullInv, inbox # <<>>, inbox' = Tail(inbox), main' # "panicked",
           UNCHANGED <<worker, pending, next_id>>,
           outbox' = outbox \/ outbox' = Append(outbox, [kind |-> "shutdown"])
    PROVE  (ResponsesAwaited /\ AllPending /\ PullOnce /\ PullApart)'
<1> DEFINE Out == [kind : {"shutdown"}] \cup [kind : {"configuration"}, id : Nat]
<1>1. \A i \in DOMAIN inbox' : i + 1 \in DOMAIN inbox /\ inbox'[i] = inbox[i + 1] /\ i \in Nat
  BY TakeHead DEF PullInv, TypeOK
<1>2. \A i \in DOMAIN outbox' : outbox'[i].kind = "configuration"
                                  => i \in DOMAIN outbox /\ outbox'[i] = outbox[i]
  <2>1. outbox \in Seq(Out)
    BY DEF PullInv, TypeOK
  <2>2. [kind |-> "shutdown"] \in Out
    OBVIOUS
  <2> QED BY <2>1, <2>2, AddLast
<1>3. ResponsesAwaited' /\ AllPending'
  BY <1>1, <1>2 DEF PullInv, ResponsesAwaited, AllPending
<1>4. PullOnce'
  BY <1>1, <1>2 DEF PullInv, PullOnce
<1>5. PullApart'
  BY <1>1, <1>2 DEF PullInv, PullApart
<1> QED BY <1>3, <1>4, <1>5

\* Nothing is lost when a worker goes on to an activity that sends nothing.
LEMMA PullBecome ==
    ASSUME PullInv, NEW w \in Worker, NEW a, a.at # "send", Become(w, a),
           UNCHANGED <<main, inbox, outbox, pending, next_id>>
    PROVE  (ResponsesAwaited /\ AllPending /\ PullOnce /\ PullApart)'
<1>1. \A v \in Worker : worker'[v].at = "send" => worker'[v] = worker[v]
  BY DEF Become, PullInv, TypeOK
<1>2. ResponsesAwaited' /\ AllPending'
  BY <1>1 DEF PullInv, ResponsesAwaited, AllPending
<1>3. PullOnce'
  BY <1>1 DEF PullInv, PullOnce
<1>4. PullApart'
  BY <1>1 DEF PullInv, PullApart
<1> QED BY <1>2, <1>3, <1>4

\* The client keeps every pull in one place.
LEMMA PullClient ==
    ASSUME PullInv, Client
    PROVE  (ResponsesAwaited /\ AllPending /\ PullOnce /\ PullApart)'
<1>0. text \in Nat /\ settings \in Settings
  BY DEF PullInv, TypeOK
<1>1. CASE ClientEdits
  <2>1. [kind |-> "edit", text |-> text + 1] \in Message
    BY <1>0 DEF Message
  <2> QED BY <1>1, <2>1, PullSend DEF ClientEdits, mainVars, rpcVars
<1>2. ASSUME NEW r \in Request, ClientAsks(r)
      PROVE  (ResponsesAwaited /\ AllPending /\ PullOnce /\ PullApart)'
  <2>1. [kind |-> "request", text |-> text, id |-> r] \in Message
    BY <1>0 DEF Message
  <2> QED BY <1>2, <2>1, PullSend DEF ClientAsks, mainVars, rpcVars
<1>3. ASSUME NEW s \in Settings, ClientChangesSettings(s)
      PROVE  (ResponsesAwaited /\ AllPending /\ PullOnce /\ PullApart)'
  <2>1. [kind |-> "configuration", text |-> text, settings |-> s] \in Message
    BY <1>0 DEF Message
  <2> QED BY <1>3, <2>1, PullSend DEF ClientChangesSettings, mainVars, rpcVars
<1>4. CASE ClientShutsDown
  <2>1. [kind |-> "shutdown", text |-> text] \in Message
    BY <1>0 DEF Message
  <2> QED BY <1>4, <2>1, PullSend DEF ClientShutsDown, mainVars, rpcVars
<1>5. CASE ClientReceives
  <2> DEFINE Out == [kind : {"shutdown"}] \cup [kind : {"configuration"}, id : Nat]
             h == Head(outbox)
  <2>1. outbox \in Seq(Out) /\ outbox # <<>> /\ outbox' = Tail(outbox)
    BY <1>5 DEF ClientReceives, PullInv, TypeOK
  <2>2. /\ h = outbox[1] /\ 1 \in DOMAIN outbox /\ h \in Out
        /\ \A i \in DOMAIN outbox' : /\ i + 1 \in DOMAIN outbox /\ i + 1 # 1
                                      /\ outbox'[i] = outbox[i + 1] /\ i \in Nat
    BY <2>1, TakeHead
  <2>3. UNCHANGED <<main, worker, pending, next_id>>
    BY <1>5 DEF ClientReceives, mainVars, rpcVars
  <2>4. PICK m \in Message :
            /\ Send(m)
            /\ m.kind = "response" => h.kind = "configuration" /\ m.id = h.id
    <3>1. CASE h.kind = "configuration"
      <4>1. PICK s \in {settings} \cup (IF Refuses THEN {Refused} ELSE {}) :
                Send([kind |-> "response", text |-> text, id |-> h.id, settings |-> s])
        BY <1>5, <3>1 DEF ClientReceives
      <4>2. [kind |-> "response", text |-> text, id |-> h.id, settings |-> s] \in Message
        BY <1>0, <2>2, <3>1, <4>1 DEF Message
      <4> QED BY <3>1, <4>1, <4>2
    <3>2. CASE h.kind = "shutdown"
      <4>1. [kind |-> "exit", text |-> text] \in Message
        BY <1>0 DEF Message
      <4> QED BY <1>5, <3>2, <4>1 DEF ClientReceives
    <3> QED BY <1>5, <3>1, <3>2 DEF ClientReceives
  <2>5. /\ DOMAIN inbox' = DOMAIN inbox \cup {Len(inbox) + 1}
        /\ inbox'[Len(inbox) + 1] = m
        /\ \A i \in DOMAIN inbox : inbox'[i] = inbox[i]
    BY <2>4, AddLast DEF Send, PullInv, TypeOK
  <2>6. \A i \in DOMAIN inbox' : i \in DOMAIN inbox \/ i = Len(inbox) + 1
    BY <2>5
  <2>7. ResponsesAwaited' /\ AllPending'
    BY <2>2, <2>3, <2>4, <2>5, <2>6 DEF PullInv, ResponsesAwaited, AllPending
  <2>8. PullOnce'
    <3>1. \A i, j \in DOMAIN inbox' :
            /\ inbox'[i].kind = "response" /\ inbox'[j].kind = "response"
            /\ inbox'[i].id = inbox'[j].id
            => i = j
      BY <2>2, <2>4, <2>5, <2>6 DEF PullInv, PullOnce, PullApart
    <3>2. \A i, j \in DOMAIN outbox' :
            /\ outbox'[i].kind = "configuration" /\ outbox'[j].kind = "configuration"
            /\ outbox'[i].id = outbox'[j].id
            => i = j
      BY <2>2 DEF PullInv, PullOnce
    <3> QED BY <3>1, <3>2, <2>3 DEF PullInv, PullOnce
  <2>9. PullApart'
    <3>1. \A i \in DOMAIN outbox', j \in DOMAIN inbox' :
            outbox'[i].kind = "configuration" /\ inbox'[j].kind = "response"
            => outbox'[i].id # inbox'[j].id
      BY <2>2, <2>4, <2>5, <2>6 DEF PullInv, PullOnce, PullApart
    <3>2. \A w \in Worker, i \in DOMAIN inbox' :
            worker[w].at = "send" /\ inbox'[i].kind = "response" => worker[w].id # inbox'[i].id
      BY <2>2, <2>4, <2>5, <2>6 DEF PullInv, PullApart
    <3>3. \A w \in Worker, i \in DOMAIN outbox' :
            worker[w].at = "send" /\ outbox'[i].kind = "configuration"
            => worker[w].id # outbox'[i].id
      BY <2>2 DEF PullInv, PullApart
    <3> QED BY <3>1, <3>2, <3>3, <2>3 DEF PullApart
  <2> QED BY <2>7, <2>8, <2>9
<1> QED BY <1>1, <1>2, <1>3, <1>4, <1>5 DEF Client

\* The main thread finds the response it takes among the pending ones.
LEMMA PullMain ==
    ASSUME PullInv, MainInbox \/ HandleExit \/ SetOptions
    PROVE  (ResponsesAwaited /\ AllPending /\ PullOnce /\ PullApart)'
<1>1. CASE HandleEdit
  BY <1>1, PullTake DEF HandleEdit, Take, rpcVars
<1>2. CASE HandleRequest
  BY <1>2, PullTake DEF HandleRequest, Take, mainVars, rpcVars
<1>3. CASE HandleConfiguration
  BY <1>3, PullTake DEF HandleConfiguration, Take, rpcVars
<1>4. CASE HandleShutdown
  BY <1>4, PullTake DEF HandleShutdown, Take, rpcVars
<1>5. CASE HandleExit
  <2>1. CASE inbox = <<>>
    BY <1>5, <2>1 DEF HandleExit, PullInv, ResponsesAwaited, AllPending, PullOnce, PullApart,
                      rpcVars
  <2>2. CASE inbox # <<>>
    BY <1>5, <2>2, PullTake DEF HandleExit, rpcVars
  <2> QED BY <2>1, <2>2
<1>6. CASE SetOptions
  BY <1>6 DEF SetOptions, PullInv, ResponsesAwaited, AllPending, PullOnce, PullApart, rpcVars
<1>7. CASE HandleResponse
  <2> DEFINE h == Head(inbox)
  <2>1. /\ h = inbox[1] /\ 1 \in DOMAIN inbox /\ h.kind = "response"
        /\ \A i \in DOMAIN inbox' : /\ i + 1 \in DOMAIN inbox /\ i + 1 # 1
                                     /\ inbox'[i] = inbox[i + 1] /\ i \in Nat
    BY <1>7, TakeHead DEF HandleResponse, Take, PullInv, TypeOK
  <2>2. h.id \in pending
    BY <2>1 DEF PullInv, AllPending
  <2>3. pending' = pending \ {h.id} /\ UNCHANGED <<main, outbox, worker, next_id>>
    BY <1>7, <2>2 DEF HandleResponse
  <2>4. \A i \in DOMAIN inbox' : inbox'[i].kind = "response" => inbox'[i].id # h.id
    BY <2>1 DEF PullInv, PullOnce
  <2>5. ResponsesAwaited' /\ AllPending'
    BY <2>1, <2>3, <2>4 DEF PullInv, ResponsesAwaited, AllPending, PullApart
  <2>6. PullOnce'
    BY <2>1, <2>3 DEF PullInv, PullOnce
  <2>7. PullApart'
    BY <2>1, <2>3 DEF PullInv, PullApart
  <2> QED BY <2>5, <2>6, <2>7
<1> QED BY <1>1, <1>2, <1>3, <1>4, <1>5, <1>6, <1>7 DEF MainInbox

\* A worker registers its request under a new id before it sends it.
LEMMA PullWork ==
    ASSUME PullInv, NEW w \in Worker, Work(w)
    PROVE  (ResponsesAwaited /\ AllPending /\ PullOnce /\ PullApart)'
<1>0. Idle.at # "send" /\ Pull.at # "send"
  BY DEF Idle, Pull
<1>1. CASE TakeJob(w)
  <2>1. jobs \in Seq(Job) /\ jobs # <<>>
    BY <1>1 DEF TakeJob, PullInv, TypeOK
  <2>2. Head(jobs) \in Job
    BY <2>1, TakeHead
  <2>3. Head(jobs).at # "send"
    BY <2>2 DEF Job, Pull
  <2> QED BY <1>1, <2>3, PullBecome DEF TakeJob, mainVars, rpcVars
<1>2. CASE AnswerFeature(w)
  BY <1>2, <1>0, PullBecome DEF AnswerFeature, mainVars, rpcVars
<1>3. CASE ReceiveResponse(w)
  BY <1>3, <1>0, PullBecome DEF ReceiveResponse, mainVars
<1>4. CASE DeliverOptions(w)
  BY <1>4, <1>0, PullBecome DEF DeliverOptions, mainVars, rpcVars
<1>5. CASE RegisterRequest(w) /\ ~PullConfiguration
  BY <1>5, <1>0, PullBecome DEF RegisterRequest, mainVars
<1>6. CASE RegisterRequest(w) /\ PullConfiguration
  <2>1. /\ next_id' = next_id + 1 /\ pending' = pending \cup {next_id}
        /\ UNCHANGED <<main, inbox, outbox>>
    BY <1>6 DEF RegisterRequest, mainVars
  <2>2. /\ worker'[w] = [at |-> "send", id |-> next_id]
        /\ \A v \in Worker : v # w => worker'[v] = worker[v]
    BY <1>6 DEF RegisterRequest, Become, PullInv, TypeOK
  <2>3. next_id \notin pending /\ next_id \in Nat /\ pending \subseteq Nat
    BY DEF PullInv, TypeOK, AllPending
  <2>4. ResponsesAwaited' /\ AllPending'
    BY <2>1, <2>2, <2>3 DEF PullInv, ResponsesAwaited, AllPending
  <2>5. PullOnce'
    BY <2>1, <2>2, <2>3 DEF PullInv, AllPending, PullOnce
  <2>6. PullApart'
    BY <2>1, <2>2, <2>3 DEF PullInv, AllPending, PullApart
  <2> QED BY <2>4, <2>5, <2>6
<1>7. CASE SendRequest(w)
  <2> DEFINE Out == [kind : {"shutdown"}] \cup [kind : {"configuration"}, id : Nat]
             e == [kind |-> "configuration", id |-> worker[w].id]
  <2>1. worker[w].at = "send" /\ worker[w].id \in pending /\ worker[w].id \in Nat
    BY <1>7 DEF SendRequest, At, PullInv, AllPending, TypeOK
  <2>2. /\ outbox \in Seq(Out) /\ e \in Out /\ outbox' = Append(outbox, e)
        /\ UNCHANGED <<main, inbox, pending, next_id>>
    BY <1>7, <2>1 DEF SendRequest, PullInv, TypeOK, mainVars, rpcVars
  <2>3. /\ DOMAIN outbox' = DOMAIN outbox \cup {Len(outbox) + 1}
        /\ outbox'[Len(outbox) + 1] = e
        /\ \A i \in DOMAIN outbox : outbox'[i] = outbox[i]
    BY <2>2, AddLast
  <2>4. \A i \in DOMAIN outbox' : i \in DOMAIN outbox \/ i = Len(outbox) + 1
    BY <2>3
  <2>5. \A v \in Worker : worker'[v].at = "send" => v # w /\ worker'[v] = worker[v]
    <3>1. worker' = [worker EXCEPT ![w] = [worker[w] EXCEPT !.at = "wait"]]
      BY <1>7 DEF SendRequest, Become
    <3>2. worker[w] \in [at : {"send", "wait"}, id : Nat]
      BY <2>1 DEF PullInv, TypeOK, Activity, Job, Idle, Pull
    <3>3. worker'[w].at = "wait"
      BY <3>1, <3>2 DEF PullInv, TypeOK
    <3> QED BY <3>1, <3>3 DEF PullInv, TypeOK
  <2>6. ResponsesAwaited' /\ AllPending'
    BY <2>1, <2>2, <2>3, <2>4, <2>5 DEF PullInv, ResponsesAwaited, AllPending
  <2>7. PullOnce'
    BY <2>1, <2>2, <2>3, <2>4, <2>5 DEF PullInv, PullOnce, PullApart
  <2>8. PullApart'
    BY <2>1, <2>2, <2>3, <2>4, <2>5 DEF PullInv, PullOnce, PullApart
  <2> QED BY <2>6, <2>7, <2>8
<1> QED BY <1>1, <1>2, <1>3, <1>4, <1>5, <1>6, <1>7 DEF Work

\* However the workers interleave, the main thread never panics on a response
\* (client.rs expects "response with known request id received").
THEOREM ResponsesAlwaysAwaited == Spec => []ResponsesAwaited
<1>1. Init => PullInv
  <2> SUFFICES ASSUME Init PROVE PullInv
    OBVIOUS
  <2>1. TypeOK
    BY InitTyped, ServerAssumption
  <2>2. /\ pending = {} /\ inbox = <<>> /\ outbox = <<>> /\ main = "running"
        /\ \A w \in Worker : worker[w].at = "idle"
    BY DEF Init, Idle
  <2> QED BY <2>1, <2>2 DEF PullInv, ResponsesAwaited, AllPending, PullOnce, PullApart
<1>2. PullInv /\ [Next]_vars => PullInv'
  <2> SUFFICES ASSUME PullInv, [Next]_vars PROVE PullInv'
    OBVIOUS
  <2>1. TypeOK'
    BY NextTyped, ServerAssumption DEF PullInv
  <2>2. CASE Client
    BY <2>1, <2>2, PullClient DEF PullInv
  <2>3. CASE MainInbox \/ HandleExit \/ SetOptions
    BY <2>1, <2>3, PullMain DEF PullInv
  <2>4. ASSUME NEW w \in Worker, Work(w) PROVE PullInv'
    BY <2>1, <2>4, PullWork DEF PullInv
  <2>5. CASE UNCHANGED vars
    BY <2>1, <2>5 DEF PullInv, ResponsesAwaited, AllPending, PullOnce, PullApart, vars,
                      mainVars, rpcVars
  <2> QED BY <2>2, <2>3, <2>4, <2>5 DEF Next
<1>3. PullInv => ResponsesAwaited
  BY DEF PullInv
<1> QED BY <1>1, <1>2, <1>3, PTL DEF Spec

-----------------------------------------------------------------------------
(* The promise of module Answers.  While the main thread runs, the texts   *)
(* the messages of the inbox were sent with go up by one at each edit,     *)
(* from the text in the store to the client's own: so a request is taken   *)
(* when the store holds the text it was sent with.  An unanswered request  *)
(* is in one place only, and carries that text.                            *)

TextBefore(i) == IF i = 1 THEN version ELSE inbox[i - 1].text

Counted(m) == IF m.kind = "edit" THEN 1 ELSE 0

InOrder ==
    main = "running" =>
        /\ \A i \in DOMAIN inbox : inbox[i].text = TextBefore(i) + Counted(inbox[i])
        /\ text = IF inbox = <<>> THEN version ELSE inbox[Len(inbox)].text

\* Request r waits for an answer and was sent with text n.
Waits(r, n) == r \in DOMAIN asked /\ asked[r] = n /\ answers[r] = <<>>

AllWait ==
    /\ \A r \in Request : r \notin DOMAIN asked => answers[r] = <<>>
    /\ \A i \in DOMAIN inbox : inbox[i].kind = "request" => Waits(inbox[i].id, inbox[i].text)
    /\ \A j \in DOMAIN jobs : jobs[j].at = "answer" => Waits(jobs[j].id, jobs[j].text)
    /\ \A w \in Worker : worker[w].at = "answer" => Waits(worker[w].id, worker[w].text)

\* No two messages, jobs or workers have the same request, nor a message, a
\* job and a worker.
AskOnce ==
    /\ \A i, j \in DOMAIN inbox :
          inbox[i].kind = "request" /\ inbox[j].kind = "request" /\ inbox[i].id = inbox[j].id
          => i = j
    /\ \A i, j \in DOMAIN jobs :
          jobs[i].at = "answer" /\ jobs[j].at = "answer" /\ jobs[i].id = jobs[j].id => i = j
    /\ \A v, w \in Worker :
          worker[v].at = "answer" /\ worker[w].at = "answer" /\ worker[v].id = worker[w].id
          => v = w

AskApart ==
    /\ \A i \in DOMAIN inbox, j \in DOMAIN jobs :
          inbox[i].kind = "request" /\ jobs[j].at = "answer" => inbox[i].id # jobs[j].id
    /\ \A i \in DOMAIN inbox, w \in Worker :
          inbox[i].kind = "request" /\ worker[w].at = "answer" => inbox[i].id # worker[w].id
    /\ \A j \in DOMAIN jobs, w \in Worker :
          jobs[j].at = "answer" /\ worker[w].at = "answer" => jobs[j].id # worker[w].id

AskInv == TypeOK /\ InOrder /\ AllWait /\ AskOnce /\ AskApart

AskKept == AllWait /\ AskOnce /\ AskApart

\* A message sent with the client's text keeps the texts in order.
LEMMA OrderSend ==
    ASSUME AskInv, NEW m \in Message, Send(m), UNCHANGED <<main, version>>,
           text' = text + Counted(m), m.text = text'
    PROVE  InOrder'
<1> SUFFICES ASSUME main = "running"
             PROVE  /\ \A i \in DOMAIN inbox' :
                         inbox'[i].text = TextBefore(i)' + Counted(inbox'[i])
                    /\ text' = IF inbox' = <<>> THEN version' ELSE inbox'[Len(inbox')].text
  BY DEF InOrder
<1>1. /\ DOMAIN inbox' = DOMAIN inbox \cup {Len(inbox) + 1}
      /\ inbox'[Len(inbox) + 1] = m
      /\ \A i \in DOMAIN inbox : inbox'[i] = inbox[i]
      /\ Len(inbox') = Len(inbox) + 1
      /\ DOMAIN inbox = 1..Len(inbox) /\ Len(inbox) \in Nat
      /\ inbox' # <<>>
      /\ inbox = <<>> <=> Len(inbox) = 0
  BY AddLast DEF Send, AskInv, TypeOK
<1>2. text = IF inbox = <<>> THEN version ELSE inbox[Len(inbox)].text
  BY DEF AskInv, InOrder
<1>3. \A n \in Nat : n = Len(inbox) + 1 => TextBefore(n)' = text
  <2> SUFFICES ASSUME NEW n \in Nat, n = Len(inbox) + 1 PROVE TextBefore(n)' = text
    OBVIOUS
  <2>1. CASE inbox = <<>>
    <3>1. n = 1
      BY <1>1, <2>1
    <3> QED BY <1>2, <2>1, <3>1 DEF TextBefore
  <2>2. CASE inbox # <<>>
    <3>1. n # 1 /\ n - 1 = Len(inbox) /\ n - 1 \in DOMAIN inbox
      BY <1>1, <2>2
    <3>2. inbox'[n - 1].text = text
      BY <1>1, <1>2, <2>2, <3>1
    <3> QED BY <3>1, <3>2 DEF TextBefore
  <2> QED BY <2>1, <2>2
<1>4. \A i \in DOMAIN inbox : TextBefore(i)' = TextBefore(i)
  BY <1>1 DEF TextBefore
<1>5. \A i \in DOMAIN inbox : inbox[i].text = TextBefore(i) + Counted(inbox[i])
  BY DEF AskInv, InOrder
<1>6. inbox'[Len(inbox) + 1].text = text' /\ text' = text + Counted(inbox'[Len(inbox) + 1])
  BY <1>1
<1>7. \A i \in DOMAIN inbox' : inbox'[i].text = TextBefore(i)' + Counted(inbox'[i])
  <2> SUFFICES ASSUME NEW i \in DOMAIN inbox'
               PROVE  inbox'[i].text = TextBefore(i)' + Counted(inbox'[i])
    OBVIOUS
  <2>1. CASE i \in DOMAIN inbox
    BY <1>1, <1>4, <1>5, <2>1
  <2>2. CASE i = Len(inbox) + 1
    <3>1. i \in Nat
      BY <1>1, <2>2
    <3>2. TextBefore(i)' = text
      BY <1>3, <2>2, <3>1
    <3> QED BY <1>6, <2>2, <3>2
  <2> QED BY <1>1, <2>1, <2>2
<1> QED BY <1>1, <1>6, <1>7

\* The first message of the inbox was sent with the text in the store, or is
\* the next edit of it.
LEMMA OrderHead ==
    ASSUME AskInv, main = "running", inbox # <<>>
    PROVE  Head(inbox).text = version + Counted(Head(inbox))
<1>1. Head(inbox) = inbox[1] /\ 1 \in DOMAIN inbox
  BY TakeHead DEF AskInv, TypeOK
<1> QED BY <1>1 DEF AskInv, InOrder, TextBefore

\* Taking a message keeps the texts in order when edits are applied.
LEMMA OrderTake ==
    ASSUME AskInv, main = "running", inbox # <<>>, inbox' = Tail(inbox), UNCHANGED text,
           version' = version + Counted(Head(inbox))
    PROVE  InOrder'
<1>1. /\ \A i \in DOMAIN inbox' : i + 1 \in DOMAIN inbox /\ inbox'[i] = inbox[i + 1]
      /\ \A i \in DOMAIN inbox' : i # 1 => i - 1 \in DOMAIN inbox'
      /\ DOMAIN inbox' = 1..(Len(inbox) - 1)
      /\ Head(inbox) = inbox[1]
  BY TakeHead DEF AskInv, TypeOK
<1>2. version' = inbox[1].text
  BY <1>1, OrderHead
<1>3. \A i \in DOMAIN inbox' : TextBefore(i)' = inbox[i].text
  <2> SUFFICES ASSUME NEW i \in DOMAIN inbox' PROVE TextBefore(i)' = inbox[i].text
    OBVIOUS
  <2>1. CASE i = 1
    BY <1>2, <2>1 DEF TextBefore
  <2>2. CASE i # 1
    <3>1. i - 1 \in DOMAIN inbox' /\ (i - 1) + 1 = i
      BY <1>1, <2>2
    <3>2. inbox'[i - 1] = inbox[i]
      BY <1>1, <3>1
    <3> QED BY <2>2, <3>2 DEF TextBefore
  <2> QED BY <2>1, <2>2
<1>4. \A i \in DOMAIN inbox' : TextBefore(i + 1) = inbox[i].text
  BY <1>1 DEF TextBefore
<1>5. \A i \in DOMAIN inbox : inbox[i].text = TextBefore(i) + Counted(inbox[i])
  BY DEF AskInv, InOrder
<1>6. \A i \in DOMAIN inbox' : inbox'[i].text = TextBefore(i)' + Counted(inbox'[i])
  BY <1>1, <1>3, <1>4, <1>5
<1>7. text' = IF inbox' = <<>> THEN version' ELSE inbox'[Len(inbox')].text
  <2>1. text = inbox[Len(inbox)].text
    BY DEF AskInv, InOrder
  <2>2. inbox \in Seq(Message) /\ inbox # <<>>
    BY DEF AskInv, TypeOK
  <2>3. CASE Len(inbox) = 1
    <3>1. inbox' = <<>>
      BY <2>2, <2>3
    <3> QED BY <1>2, <2>1, <2>3, <3>1
  <2>4. CASE Len(inbox) # 1
    <3>1. inbox' # <<>> /\ Len(inbox') = Len(inbox) - 1 /\ Len(inbox') \in DOMAIN inbox'
      <4>1. Len(inbox) \in Nat /\ Len(inbox) > 1
        <5>1. 1 \in DOMAIN inbox
          BY <2>2, TakeHead
        <5>2. Len(inbox) \in Nat /\ DOMAIN inbox = 1..Len(inbox)
          BY <2>2
        <5> QED BY <2>4, <5>1, <5>2
      <4>2. Len(Tail(inbox)) = Len(inbox) - 1
        BY <2>2
      <4>3. Len(inbox') \in 1..(Len(inbox) - 1)
        BY <4>1, <4>2
      <4>4. inbox' # <<>>
        BY <1>1, <4>3
      <4> QED BY <1>1, <4>2, <4>3, <4>4
    <3>2. inbox'[Len(inbox')] = inbox[Len(inbox)]
      BY <1>1, <2>2, <3>1
    <3> QED BY <2>1, <3>1, <3>2
  <2> QED BY <2>3, <2>4
<1> QED BY <1>6, <1>7 DEF InOrder

\* Nothing is asked or answered when another message than a request is sent.
LEMMA AskSend ==
    ASSUME AskInv, NEW m \in Message, m.kind # "request", Send(m),
           UNCHANGED <<asked, answers, jobs, worker>>
    PROVE  AskKept'
<1>1. /\ DOMAIN inbox' = DOMAIN inbox \cup {Len(inbox) + 1}
      /\ inbox'[Len(inbox) + 1] = m
      /\ \A i \in DOMAIN inbox : inbox'[i] = inbox[i]
  BY AddLast DEF Send, AskInv, TypeOK
<1>2. \A i \in DOMAIN inbox' : inbox'[i].kind = "request" => i \in DOMAIN inbox
  BY <1>1
<1>3. AllWait'
  BY <1>1, <1>2 DEF AskInv, AllWait, Waits
<1>4. AskOnce'
  BY <1>1, <1>2 DEF AskInv, AskOnce
<1>5. AskApart'
  BY <1>1, <1>2 DEF AskInv, AskApart
<1> QED BY <1>3, <1>4, <1>5 DEF AskKept

\* Nor when a message is taken and at most a pull is spawned.
LEMMA AskTake ==
    ASSUME AskInv, inbox # <<>>, inbox' = Tail(inbox),
           UNCHANGED <<asked, answers, worker>>,
           jobs' = jobs \/ jobs' = Append(jobs, Pull)
    PROVE  AskKept'
<1>1. \A i \in DOMAIN inbox' : i + 1 \in DOMAIN inbox /\ inbox'[i] = inbox[i + 1] /\ i \in Nat
  BY TakeHead DEF AskInv, TypeOK
<1>2. \A j \in DOMAIN jobs' : jobs'[j].at = "answer" => j \in DOMAIN jobs /\ jobs'[j] = jobs[j]
  <2>1. jobs \in Seq(Job) /\ Pull \in Job /\ Pull.at # "answer"
    BY DEF AskInv, TypeOK, Job, Pull
  <2> QED BY <2>1, AddLast
<1>3. AllWait'
  BY <1>1, <1>2 DEF AskInv, AllWait, Waits
<1>4. AskOnce'
  BY <1>1, <1>2 DEF AskInv, AskOnce
<1>5. AskApart'
  BY <1>1, <1>2 DEF AskInv, AskApart
<1> QED BY <1>3, <1>4, <1>5 DEF AskKept

\* Nor when a worker goes on with a pull.
LEMMA AskBecome ==
    ASSUME AskInv, NEW w \in Worker, NEW a, a.at # "answer", Become(w, a),
           UNCHANGED <<inbox, asked, answers, jobs>>
    PROVE  AskKept'
<1>1. \A v \in Worker : worker'[v].at = "answer" => worker'[v] = worker[v]
  BY DEF Become, AskInv, TypeOK
<1>2. AllWait'
  BY <1>1 DEF AskInv, AllWait, Waits
<1>3. AskOnce'
  BY <1>1 DEF AskInv, AskOnce
<1>4. AskApart'
  BY <1>1 DEF AskInv, AskApart
<1> QED BY <1>2, <1>3, <1>4 DEF AskKept

\* The client asks for something once.
LEMMA AskClient ==
    ASSUME AskInv, Client
    PROVE  InOrder' /\ AskKept'
<1>0. text \in Nat /\ settings \in Settings
  BY DEF AskInv, TypeOK
<1>1. CASE ClientEdits
  <2> DEFINE m == [kind |-> "edit", text |-> text + 1]
  <2>1. m \in Message /\ m.kind = "edit" /\ m.text = text + 1 /\ Counted(m) = 1
    BY <1>0 DEF Message, Counted
  <2>2. /\ Send(m) /\ text' = text + 1
        /\ UNCHANGED <<main, version, asked, answers, jobs, worker>>
    BY <1>1 DEF ClientEdits, mainVars
  <2> HIDE DEF m
  <2> QED BY <2>1, <2>2, OrderSend, AskSend
<1>2. ASSUME NEW r \in Request, ClientAsks(r)
      PROVE  InOrder' /\ AskKept'
  <2> DEFINE m == [kind |-> "request", text |-> text, id |-> r]
  <2>1. /\ m \in Message /\ m.kind = "request" /\ m.text = text /\ m.id = r
        /\ Counted(m) = 0
    BY <1>0 DEF Message, Counted
  <2>2. /\ Send(m) /\ text' = text + 0 /\ r \notin DOMAIN asked
        /\ UNCHANGED <<text, main, version, answers, jobs, worker>>
    BY <1>0, <1>2 DEF ClientAsks, mainVars
  <2>3. /\ DOMAIN asked' = DOMAIN asked \cup {r} /\ asked'[r] = text
        /\ \A q \in DOMAIN asked : asked'[q] = asked[q]
    BY <1>2 DEF ClientAsks
  <2> HIDE DEF m
  <2>4. InOrder'
    BY <1>0, <2>1, <2>2, OrderSend
  <2>5. /\ DOMAIN inbox' = DOMAIN inbox \cup {Len(inbox) + 1}
        /\ inbox'[Len(inbox) + 1] = m
        /\ \A i \in DOMAIN inbox : inbox'[i] = inbox[i]
    BY <2>1, <2>2, AddLast DEF Send, AskInv, TypeOK
  <2>6. \A i \in DOMAIN inbox' : i \in DOMAIN inbox \/ i = Len(inbox) + 1
    BY <2>5
  <2>7. \A q, n : Waits(q, n) => Waits(q, n)' /\ q # r
    BY <2>2, <2>3 DEF Waits
  <2>8. Waits(r, text)'
    BY <2>2, <2>3 DEF AskInv, AllWait, Waits
  <2>9. AllWait'
    BY <2>1, <2>2, <2>3, <2>5, <2>6, <2>7, <2>8 DEF AskInv, AllWait
  <2>10. AskOnce'
    BY <2>1, <2>2, <2>5, <2>6, <2>7 DEF AskInv, AllWait, AskOnce
  <2>11. AskApart'
    BY <2>1, <2>2, <2>5, <2>6, <2>7 DEF AskInv, AllWait, AskApart
  <2> QED BY <2>4, <2>9, <2>10, <2>11 DEF AskKept
<1>3. ASSUME NEW s \in Settings, ClientChangesSettings(s)
      PROVE  InOrder' /\ AskKept'
  <2> DEFINE m == [kind |-> "configuration", text |-> text, settings |-> s]
  <2>1. m \in Message /\ m.kind = "configuration" /\ m.text = text /\ Counted(m) = 0
    BY <1>0 DEF Message, Counted
  <2>2. /\ Send(m) /\ text' = text + 0
        /\ UNCHANGED <<main, version, text, asked, answers, jobs, worker>>
    BY <1>0, <1>3 DEF ClientChangesSettings, mainVars
  <2> HIDE DEF m
  <2> QED BY <1>0, <2>1, <2>2, OrderSend, AskSend
<1>4. CASE ClientShutsDown
  <2> DEFINE m == [kind |-> "shutdown", text |-> text]
  <2>1. m \in Message /\ m.kind = "shutdown" /\ m.text = text /\ Counted(m) = 0
    BY <1>0 DEF Message, Counted
  <2>2. /\ Send(m) /\ text' = text + 0
        /\ UNCHANGED <<main, version, text, asked, answers, jobs, worker>>
    BY <1>0, <1>4 DEF ClientShutsDown, mainVars
  <2> HIDE DEF m
  <2> QED BY <1>0, <2>1, <2>2, OrderSend, AskSend
<1>5. CASE ClientReceives
  <2> DEFINE Out == [kind : {"shutdown"}] \cup [kind : {"configuration"}, id : Nat]
             h == Head(outbox)
  <2>1. h \in Out
    BY <1>5, TakeHead DEF ClientReceives, AskInv, TypeOK
  <2>2. PICK m \in Message : /\ Send(m) /\ m.text = text
                             /\ m.kind # "request" /\ m.kind # "edit"
    <3>1. CASE h.kind = "configuration"
      <4>1. PICK s \in {settings} \cup (IF Refuses THEN {Refused} ELSE {}) :
                Send([kind |-> "response", text |-> text, id |-> h.id, settings |-> s])
        BY <1>5, <3>1 DEF ClientReceives
      <4>2. [kind |-> "response", text |-> text, id |-> h.id, settings |-> s] \in Message
        BY <1>0, <2>1, <3>1, <4>1 DEF Message
      <4> QED BY <4>1, <4>2
    <3>2. CASE h.kind = "shutdown"
      <4>1. [kind |-> "exit", text |-> text] \in Message
        BY <1>0 DEF Message
      <4> QED BY <1>5, <3>2, <4>1 DEF ClientReceives
    <3> QED BY <1>5, <3>1, <3>2 DEF ClientReceives
  <2>3. UNCHANGED <<main, version, text, asked, answers, jobs, worker>>
    BY <1>5 DEF ClientReceives, mainVars
  <2>4. Counted(m) = 0 /\ text' = text + 0
    BY <1>0, <2>2, <2>3 DEF Counted
  <2> QED BY <2>2, <2>3, <2>4, OrderSend, AskSend
<1> QED BY <1>1, <1>2, <1>3, <1>4, <1>5 DEF Client

\* The main thread turns a request into one job or one answer, and hands the
\* job the text the request was sent with.
LEMMA AskMain ==
    ASSUME ServerAssumption, AskInv, MainInbox \/ HandleExit \/ SetOptions
    PROVE  InOrder' /\ AskKept'
<1> DEFINE h == Head(inbox)
<1>0. version \in Nat
  BY DEF AskInv, TypeOK
<1>1. CASE HandleEdit
  <2>1. Counted(h) = 1
    BY <1>1 DEF HandleEdit, Take, Counted
  <2> QED BY <1>1, <2>1, OrderTake, AskTake DEF HandleEdit, Take, clientVars
<1>2. CASE HandleConfiguration
  <2>1. version' = version + Counted(h) /\ UNCHANGED text
    BY <1>0, <1>2 DEF HandleConfiguration, Take, Counted, clientVars
  <2>2. InOrder'
    BY <1>2, <2>1, OrderTake DEF HandleConfiguration, Take
  <2>3. AskKept'
    BY <1>2, AskTake DEF HandleConfiguration, Take, Spawn, clientVars
  <2> QED BY <2>2, <2>3
<1>3. CASE HandleResponse
  <2>1. version' = version + Counted(h) /\ UNCHANGED text
    BY <1>0, <1>3 DEF HandleResponse, Take, Counted, clientVars
  <2>2. InOrder'
    BY <1>3, <2>1, OrderTake DEF HandleResponse, Take
  <2>3. AskKept'
    BY <1>3, AskTake DEF HandleResponse, Take, clientVars
  <2> QED BY <2>2, <2>3
<1>4. CASE HandleShutdown
  <2>1. InOrder'
    BY <1>4 DEF HandleShutdown, InOrder
  <2>2. AskKept'
    BY <1>4, AskTake DEF HandleShutdown, Take, clientVars
  <2> QED BY <2>1, <2>2
<1>5. CASE HandleExit
  <2>1. InOrder'
    BY <1>5 DEF HandleExit, InOrder
  <2>2. AskKept'
    <3>1. CASE inbox = <<>>
      BY <1>5, <3>1 DEF HandleExit, AskInv, AskKept, AllWait, Waits, AskOnce, AskApart,
                        clientVars
    <3>2. CASE inbox # <<>>
      BY <1>5, <3>2, AskTake DEF HandleExit, clientVars
    <3> QED BY <3>1, <3>2
  <2> QED BY <2>1, <2>2
<1>6. CASE SetOptions
  BY <1>6 DEF SetOptions, AskInv, AskKept, InOrder, TextBefore, AllWait, Waits, AskOnce,
              AskApart, clientVars
<1>7. CASE HandleRequest
  <2> DEFINE r == h.id
             job == [at |-> "answer", id |-> r, text |-> version]
  <2>1. /\ h = inbox[1] /\ 1 \in DOMAIN inbox /\ h.kind = "request" /\ h \in Message
        /\ \A i \in DOMAIN inbox' : /\ i + 1 \in DOMAIN inbox /\ i + 1 # 1
                                     /\ inbox'[i] = inbox[i + 1] /\ i \in Nat
    BY <1>7, TakeHead DEF HandleRequest, Take, AskInv, TypeOK
  <2>2. Counted(h) = 0 /\ r \in Request
    BY <2>1, MessageKinds DEF Counted
  <2>3. InOrder'
    BY <1>0, <1>7, <2>2, OrderTake DEF HandleRequest, Take, clientVars, mainVars
  <2>4. h.text = version
    BY <1>0, <1>7, <2>2, OrderHead DEF HandleRequest, Take
  <2>5. Waits(r, version)
    BY <2>1, <2>4 DEF AskInv, AllWait
  <2>6. UNCHANGED <<asked, worker>>
    BY <1>7 DEF HandleRequest, clientVars
  <2>7. \A i \in DOMAIN inbox' : inbox'[i].kind = "request" => inbox'[i].id # r
    BY <2>1 DEF AskInv, AskOnce
  <2>8. \A j \in DOMAIN jobs : jobs[j].at = "answer" => jobs[j].id # r
    BY <2>1 DEF AskInv, AskApart
  <2>9. \A w \in Worker : worker[w].at = "answer" => worker[w].id # r
    BY <2>1 DEF AskInv, AskApart
  <2>10. CASE r \in Feature
    <3>1. jobs' = Append(jobs, job) /\ UNCHANGED answers
      BY <1>7, <2>10 DEF HandleRequest, Spawn
    <3>2. jobs \in Seq(Job) /\ job \in Job
      BY <1>0, <2>2 DEF AskInv, TypeOK, Job
    <3>3. /\ DOMAIN jobs' = DOMAIN jobs \cup {Len(jobs) + 1}
          /\ jobs'[Len(jobs) + 1] = job
          /\ \A j \in DOMAIN jobs : jobs'[j] = jobs[j]
      BY <3>1, <3>2, AddLast
    <3>4. \A j \in DOMAIN jobs' : j \in DOMAIN jobs \/ j = Len(jobs) + 1
      BY <3>3
    <3>5. job.at = "answer" /\ job.id = r /\ job.text = version
      OBVIOUS
    <3> HIDE DEF job
    <3>6. \A q, n : Waits(q, n)' <=> Waits(q, n)
      BY <2>6, <3>1 DEF Waits
    <3>7. AllWait'
      BY <2>1, <2>5, <2>6, <3>1, <3>3, <3>4, <3>5, <3>6 DEF AskInv, AllWait
    <3>8. AskOnce'
      BY <2>1, <2>6, <2>8, <3>3, <3>4, <3>5 DEF AskInv, AskOnce
    <3>9. AskApart'
      BY <2>1, <2>6, <2>7, <2>9, <3>3, <3>4, <3>5 DEF AskInv, AskApart
    <3> QED BY <2>3, <3>7, <3>8, <3>9 DEF AskKept
  <2>11. CASE r \notin Feature
    <3>1. UNCHANGED jobs
      BY <1>7, <2>11 DEF HandleRequest
    <3>2. \A q \in Request : q # r => answers'[q] = answers[q]
      BY <1>7, <2>11 DEF HandleRequest, Respond, AskInv, TypeOK
    <3>3. \A q \in Request : \A n : q # r /\ Waits(q, n) => Waits(q, n)'
      BY <2>6, <3>2 DEF Waits
    <3>4. \A q \in Request : q \notin DOMAIN asked' => answers'[q] = <<>>
      BY <2>5, <2>6, <3>2 DEF Waits, AskInv, AllWait
    <3>5. /\ \A i \in DOMAIN inbox' : inbox'[i].kind = "request" => inbox'[i].id \in Request
          /\ \A j \in DOMAIN jobs : jobs[j].at = "answer" => jobs[j].id \in Request
          /\ \A w \in Worker : worker[w].at = "answer" => worker[w].id \in Request
      <4>1. DOMAIN asked \subseteq Request
        BY DEF AskInv, TypeOK
      <4>2. \A q, n : Waits(q, n) => q \in Request
        BY <4>1 DEF Waits
      <4> QED BY <2>1, <4>2 DEF AskInv, AllWait
    <3>6. AllWait'
      BY <2>1, <2>6, <2>7, <2>8, <2>9, <3>1, <3>3, <3>4, <3>5 DEF AskInv, AllWait
    <3>7. AskOnce'
      BY <2>1, <2>6, <3>1 DEF AskInv, AskOnce
    <3>8. AskApart'
      BY <2>1, <2>6, <3>1 DEF AskInv, AskApart
    <3> QED BY <2>3, <3>6, <3>7, <3>8 DEF AskKept
  <2> QED BY <2>10, <2>11
<1> QED BY <1>1, <1>2, <1>3, <1>4, <1>5, <1>6, <1>7 DEF MainInbox

\* A worker takes a request over from the queue, and answers it once.
LEMMA AskWork ==
    ASSUME AskInv, NEW w \in Worker, Work(w)
    PROVE  InOrder' /\ AskKept'
<1>0. Idle.at # "answer" /\ Pull.at # "answer"
  BY DEF Idle, Pull
<1>1. InOrder'
  BY DEF Work, TakeJob, AnswerFeature, RegisterRequest, SendRequest, ReceiveResponse,
         DeliverOptions, clientVars, mainVars, AskInv, InOrder, TextBefore
<1>2. CASE TakeJob(w)
  <2> DEFINE job == Head(jobs)
  <2>1. jobs \in Seq(Job) /\ jobs # <<>> /\ jobs' = Tail(jobs)
    BY <1>2 DEF TakeJob, AskInv, TypeOK
  <2>2. /\ job = jobs[1] /\ 1 \in DOMAIN jobs
        /\ \A j \in DOMAIN jobs' : /\ j + 1 \in DOMAIN jobs /\ j + 1 # 1
                                    /\ jobs'[j] = jobs[j + 1] /\ j \in Nat
    BY <2>1, TakeHead
  <2>3. worker'[w] = job /\ \A v \in Worker : v # w => worker'[v] = worker[v]
    BY <1>2 DEF TakeJob, Become, AskInv, TypeOK
  <2>4. UNCHANGED <<inbox, asked, answers>>
    BY <1>2 DEF TakeJob, clientVars
  <2> HIDE DEF job
  <2>5. \A q, n : Waits(q, n)' <=> Waits(q, n)
    BY <2>4 DEF Waits
  <2>6. AllWait'
    BY <2>2, <2>3, <2>4, <2>5 DEF AskInv, AllWait
  <2>7. AskOnce'
    BY <2>2, <2>3, <2>4 DEF AskInv, AskOnce, AskApart
  <2>8. AskApart'
    BY <2>2, <2>3, <2>4 DEF AskInv, AskOnce, AskApart
  <2> QED BY <1>1, <2>6, <2>7, <2>8 DEF AskKept
<1>3. CASE AnswerFeature(w)
  <2> DEFINE r == worker[w].id
  <2>1. worker[w].at = "answer" /\ r \in Request /\ Waits(r, worker[w].text)
    BY <1>3, WorkerKinds DEF AnswerFeature, At, AskInv, AllWait
  <2>2. \A v \in Worker : worker'[v].at = "answer" => v # w /\ worker'[v] = worker[v]
    BY <1>0, <1>3 DEF AnswerFeature, Become, AskInv, TypeOK
  <2>3. UNCHANGED <<inbox, asked, jobs>>
    BY <1>3 DEF AnswerFeature, clientVars
  <2>4. \A q \in Request : q # r => answers'[q] = answers[q]
    <3>1. \E ok, n, items : Respond(r, ok, n, items)
      BY <1>3 DEF AnswerFeature
    <3> QED BY <3>1 DEF Respond, AskInv, TypeOK
  <2>5. \A q \in Request : \A n : q # r /\ Waits(q, n) => Waits(q, n)'
    BY <2>3, <2>4 DEF Waits
  <2>6. DOMAIN asked \subseteq Request
    BY DEF AskInv, TypeOK
  <2>7. \A q, n : Waits(q, n) => q \in Request
    BY <2>6 DEF Waits
  <2>8. \A q \in Request : q \notin DOMAIN asked' => answers'[q] = <<>>
    BY <2>1, <2>3, <2>4 DEF Waits, AskInv, AllWait
  <2>9. \A i \in DOMAIN inbox : inbox[i].kind = "request" => inbox[i].id # r
    BY <2>1 DEF AskInv, AskApart
  <2>10. \A j \in DOMAIN jobs : jobs[j].at = "answer" => jobs[j].id # r
    BY <2>1 DEF AskInv, AskApart
  <2>11. \A v \in Worker : v # w /\ worker[v].at = "answer" => worker[v].id # r
    BY <2>1 DEF AskInv, AskOnce
  <2>12. AllWait'
    <3>1. \A i \in DOMAIN inbox' : inbox'[i].kind = "request"
                                   => Waits(inbox[i].id, inbox[i].text)'
      BY <2>3, <2>5, <2>7, <2>9 DEF AskInv, AllWait
    <3>2. \A j \in DOMAIN jobs' : jobs'[j].at = "answer" => Waits(jobs[j].id, jobs[j].text)'
      BY <2>3, <2>5, <2>7, <2>10 DEF AskInv, AllWait
    <3>3. \A v \in Worker : worker'[v].at = "answer" => Waits(worker[v].id, worker[v].text)'
      BY <2>2, <2>5, <2>7, <2>11 DEF AskInv, AllWait
    <3> QED BY <2>8, <3>1, <3>2, <3>3 DEF AllWait
  <2>13. AskOnce'
    BY <2>2, <2>3 DEF AskInv, AskOnce
  <2>14. AskApart'
    BY <2>2, <2>3 DEF AskInv, AskApart
  <2> QED BY <1>1, <2>12, <2>13, <2>14 DEF AskKept
<1>4. CASE RegisterRequest(w)
  <2>1. PICK a : a.at # "answer" /\ Become(w, a)
    BY <1>0, <1>4 DEF RegisterRequest
  <2> QED BY <1>1, <1>4, <2>1, AskBecome DEF RegisterRequest, clientVars
<1>5. CASE SendRequest(w)
  <2>1. worker[w].at = "send"
    BY <1>5 DEF SendRequest, At
  <2>2. worker[w] \in [at : {"send", "wait"}, id : Nat]
    BY <2>1 DEF AskInv, TypeOK, Activity, Job, Idle, Pull
  <2>3. [worker[w] EXCEPT !.at = "wait"].at # "answer"
    BY <2>2
  <2> QED BY <1>1, <1>5, <2>3, AskBecome DEF SendRequest, clientVars
<1>6. CASE ReceiveResponse(w)
  <2>1. PICK a : a.at # "answer" /\ Become(w, a)
    BY <1>0, <1>6 DEF ReceiveResponse
  <2> QED BY <1>1, <1>6, <2>1, AskBecome DEF ReceiveResponse, clientVars
<1>7. CASE DeliverOptions(w)
  BY <1>0, <1>1, <1>7, AskBecome DEF DeliverOptions, clientVars
<1> QED BY <1>2, <1>3, <1>4, <1>5, <1>6, <1>7 DEF Work

\* The store is not ahead of the client, nor is what it is told.
Behind == version <= text /\ \A i \in DOMAIN inbox : inbox[i].text <= text

\* A step of the server leaves the store behind the client, and so does one of
\* the client, which tells what it has.
LEMMA StaysBehind ==
    ASSUME AskInv, Behind, [Next]_vars
    PROVE  Behind'
<1>0. /\ text \in Nat /\ version \in Nat /\ settings \in Settings /\ inbox \in Seq(Message)
      /\ outbox \in Seq([kind : {"shutdown"}] \cup [kind : {"configuration"}, id : Nat])
  BY DEF AskInv, TypeOK
<1>1. ASSUME NEW m, inbox' = Append(inbox, m), m.text = text', UNCHANGED version,
             text' = text \/ text' = text + 1
      PROVE  Behind'
  <2>1. text' \in Nat /\ text <= text'
    BY <1>0, <1>1
  <2>2. \A i \in DOMAIN inbox' : inbox'[i] = m \/ (i \in DOMAIN inbox /\ inbox'[i] = inbox[i])
    BY <1>0, <1>1
  <2>3. \A i \in DOMAIN inbox : inbox[i].text \in Nat
    BY <1>0, MessageKinds
  <2>4. version <= text'
    BY <1>0, <2>1, <1>1 DEF Behind
  <2>5. \A i \in DOMAIN inbox : inbox[i].text <= text'
    BY <1>0, <2>1, <2>3 DEF Behind
  <2> QED BY <1>1, <2>1, <2>2, <2>4, <2>5 DEF Behind
<1>2. ASSUME UNCHANGED text, version' = version \/ version' <= text,
             inbox' = inbox \/ (inbox # <<>> /\ inbox' = Tail(inbox))
      PROVE  Behind'
  <2>1. \A i \in DOMAIN inbox' : \E j \in DOMAIN inbox : inbox'[i] = inbox[j]
    <3>1. CASE inbox' = inbox
      BY <3>1
    <3>2. CASE inbox # <<>> /\ inbox' = Tail(inbox)
      BY <1>0, <3>2, TakeHead
    <3> QED BY <1>2, <3>1, <3>2
  <2> QED BY <1>2, <2>1 DEF Behind
<1>3. CASE Client
  <2>1. CASE ClientEdits
    BY <1>1, <2>1 DEF ClientEdits, Send, mainVars
  <2>2. ASSUME NEW r \in Request, ClientAsks(r) PROVE Behind'
    BY <1>1, <2>2 DEF ClientAsks, Send, mainVars
  <2>3. ASSUME NEW t \in Settings, ClientChangesSettings(t) PROVE Behind'
    BY <1>1, <2>3 DEF ClientChangesSettings, Send, mainVars
  <2>4. CASE ClientShutsDown
    BY <1>1, <2>4 DEF ClientShutsDown, Send, mainVars
  <2>5. CASE ClientReceives
    <3>1. UNCHANGED <<text, version>>
      BY <2>5 DEF ClientReceives, mainVars
    <3>2. CASE Head(outbox).kind = "configuration"
      <4>1. PICK t : Send([kind |-> "response", text |-> text, id |-> Head(outbox).id,
                           settings |-> t])
        BY <2>5, <3>2 DEF ClientReceives
      <4> QED BY <1>1, <3>1, <4>1 DEF Send
    <3>3. CASE Head(outbox).kind = "shutdown"
      <4>1. Send([kind |-> "exit", text |-> text])
        BY <2>5, <3>3 DEF ClientReceives
      <4> QED BY <1>1, <3>1, <4>1 DEF Send
    <3> QED BY <2>5, <3>2, <3>3 DEF ClientReceives
  <2> QED BY <1>3, <2>1, <2>2, <2>3, <2>4, <2>5 DEF Client
<1>4. CASE HandleEdit
  <2>1. /\ main = "running" /\ inbox # <<>> /\ Head(inbox).kind = "edit"
        /\ inbox' = Tail(inbox) /\ UNCHANGED text /\ version' = version + 1
    BY <1>4 DEF HandleEdit, Take, clientVars
  <2>2. Head(inbox) = inbox[1] /\ 1 \in DOMAIN inbox
    BY <1>0, <2>1, TakeHead
  <2>3. inbox[1].text = version + 1
    BY <2>1, <2>2 DEF AskInv, InOrder, TextBefore, Counted
  <2> QED BY <1>2, <2>1, <2>2, <2>3 DEF Behind
<1>5. CASE HandleRequest \/ HandleConfiguration \/ HandleResponse \/ HandleShutdown
             \/ HandleExit \/ SetOptions
  BY <1>2, <1>5 DEF HandleRequest, HandleConfiguration, HandleResponse, HandleShutdown,
                    HandleExit, SetOptions, Take, clientVars, mainVars
<1>6. ASSUME NEW w \in Worker, Work(w) PROVE Behind'
  BY <1>2, <1>6 DEF Work, TakeJob, AnswerFeature, RegisterRequest, SendRequest,
                    ReceiveResponse, DeliverOptions, clientVars, mainVars
<1>7. CASE UNCHANGED vars
  BY <1>2, <1>7 DEF vars, clientVars, mainVars
<1> QED BY <1>3, <1>4, <1>5, <1>6, <1>7 DEF Next, MainInbox

\* Every step of the threads is a step of the promise, or none.
LEMMA StepsPromised ==
    ASSUME ServerAssumption, AskInv, Behind, [Next]_vars
    PROVE  [Contract!ContractNext]_<<text, asked, answers>>
<1>1. CASE Client
  <2>1. CASE ClientEdits
    BY <2>1 DEF ClientEdits, Contract!ContractNext, Contract!Edit
  <2>2. ASSUME NEW r \in Request, ClientAsks(r) PROVE Contract!Ask(r)
    BY <2>2 DEF ClientAsks, Contract!Ask
  <2>3. CASE ClientReceives \/ ClientShutsDown \/ \E s \in Settings : ClientChangesSettings(s)
    BY <2>3 DEF ClientReceives, ClientShutsDown, ClientChangesSettings
  <2> QED BY <1>1, <2>1, <2>2, <2>3 DEF Client, Contract!ContractNext
<1>2. CASE HandleRequest
  <2> DEFINE r == Head(inbox).id
  <2>1. UNCHANGED <<text, asked>>
    BY <1>2 DEF HandleRequest, clientVars
  <2>2. CASE r \in Feature \cup Unanswered
    BY <1>2, <2>1, <2>2 DEF HandleRequest
  <2>3. CASE r \notin Feature \cup Unanswered
    <3>1. Head(inbox) = inbox[1] /\ 1 \in DOMAIN inbox /\ inbox[1].kind = "request"
      BY <1>2, TakeHead DEF HandleRequest, Take, AskInv, TypeOK
    <3>2. Waits(r, inbox[1].text)
      BY <3>1 DEF AskInv, AllWait
    <3>3. r \in DOMAIN asked /\ answers[r] = <<>> /\ r \in Request
      BY <3>2 DEF Waits, AskInv, TypeOK
    <3>4. Respond(r, FALSE, 0, {})
      BY <1>2, <2>3 DEF HandleRequest
    <3>5. answers' = [answers EXCEPT ![r] = <<[ok |-> FALSE, text |-> 0, items |-> {}]>>]
      BY <3>3, <3>4 DEF Respond, AskInv, TypeOK
    <3>6. Contract!Refuse(r)
      BY <2>1, <3>3, <3>5 DEF Contract!Refuse
    <3> QED BY <3>3, <3>6 DEF Contract!ContractNext
  <2> QED BY <2>2, <2>3
<1>3. CASE HandleEdit \/ HandleConfiguration \/ HandleResponse \/ HandleShutdown \/ HandleExit
             \/ SetOptions
  BY <1>3 DEF HandleEdit, HandleConfiguration, HandleResponse, HandleShutdown, HandleExit,
              SetOptions, clientVars
<1>4. ASSUME NEW w \in Worker, Work(w)
      PROVE  [Contract!ContractNext]_<<text, asked, answers>>
  <2>1. CASE AnswerFeature(w)
    <3> DEFINE r == worker[w].id
               n == worker[w].text
    <3>1. worker[w].at = "answer" /\ n \in Nat /\ r \in Request
      BY <2>1, WorkerKinds DEF AnswerFeature, At, AskInv
    <3>2. r \in DOMAIN asked /\ asked[r] = n /\ answers[r] = <<>>
      BY <3>1 DEF AskInv, AllWait, Waits
    <3>3. PICK items \in SUBSET (n .. version) :
              IF n > 0 THEN Respond(r, TRUE, n, items) ELSE Respond(r, FALSE, 0, {})
      BY <2>1 DEF AnswerFeature
    <3>4. CASE n > 0
      <4>1. answers' = [answers EXCEPT ![r] = <<[ok |-> TRUE, text |-> n, items |-> items]>>]
        <5>1. Respond(r, TRUE, n, items)
          BY <3>3, <3>4
        <5> QED BY <3>1, <3>2, <5>1 DEF Respond, AskInv, TypeOK
      <4>2. items \in SUBSET (asked[r] .. text)
        <5>1. version \in Nat /\ text \in Nat /\ version <= text
          BY DEF AskInv, TypeOK, Behind
        <5>2. n .. version \subseteq n .. text
          BY <3>1, <5>1
        <5> QED BY <3>2, <3>3, <5>2
      <4>3. UNCHANGED <<text, asked>>
        BY <2>1 DEF AnswerFeature, clientVars
      <4>4. Contract!Answer(r)
        BY <3>2, <4>1, <4>2, <4>3 DEF Contract!Answer
      <4> QED BY <3>1, <4>4 DEF Contract!ContractNext
    <3>5. CASE n = 0
      <4>1. answers' = [answers EXCEPT ![r] = <<[ok |-> FALSE, text |-> 0, items |-> {}]>>]
        <5>1. ~(n > 0)
          BY <3>5
        <5>2. Respond(r, FALSE, 0, {})
          BY <3>3, <5>1, Zenon
        <5> QED BY <3>1, <3>2, <5>2 DEF Respond, AskInv, TypeOK
      <4>2. UNCHANGED <<text, asked>>
        BY <2>1 DEF AnswerFeature, clientVars
      <4>3. Contract!Refuse(r)
        BY <3>2, <4>1, <4>2 DEF Contract!Refuse
      <4> QED BY <3>1, <4>3 DEF Contract!ContractNext
    <3> QED BY <3>1, <3>4, <3>5
  <2>2. CASE ~AnswerFeature(w)
    BY <1>4, <2>2 DEF Work, TakeJob, RegisterRequest, SendRequest, ReceiveResponse,
                      DeliverOptions, clientVars
  <2> QED BY <2>1, <2>2
<1>5. CASE UNCHANGED vars
  BY <1>5 DEF vars, clientVars
<1> QED BY <1>1, <1>2, <1>3, <1>4, <1>5 DEF Next, MainInbox

\* The threads implement the promise of module Answers: whatever the workers
\* and the channels do, a request is answered at most once, from the text the
\* client had when it sent it, and from items of no text before that.
THEOREM PromiseKept == Spec => KeepsPromise
<1>1. Init => AskInv /\ Behind
  <2> SUFFICES ASSUME Init PROVE AskInv /\ Behind
    OBVIOUS
  <2>1. TypeOK
    BY InitTyped, ServerAssumption
  <2>2. /\ inbox = <<>> /\ text = version /\ text = 0
        /\ \A w \in Worker : worker[w].at = "idle"
        /\ \A r \in Request : answers[r] = <<>>
    BY DEF Init, Idle
  <2>3. \A j \in DOMAIN jobs : jobs[j].at # "answer"
    BY DEF Init, Pull
  <2> QED BY <2>1, <2>2, <2>3 DEF AskInv, InOrder, AllWait, AskOnce, AskApart, Behind
<1>2. AskInv /\ [Next]_vars => AskInv'
  <2> SUFFICES ASSUME AskInv, [Next]_vars PROVE AskInv'
    OBVIOUS
  <2>1. TypeOK'
    BY NextTyped, ServerAssumption DEF AskInv
  <2>2. CASE Client
    BY <2>1, <2>2, AskClient DEF AskInv, AskKept
  <2>3. CASE MainInbox \/ HandleExit \/ SetOptions
    BY <2>1, <2>3, AskMain, ServerAssumption DEF AskInv, AskKept
  <2>4. ASSUME NEW w \in Worker, Work(w) PROVE AskInv'
    BY <2>1, <2>4, AskWork DEF AskInv, AskKept
  <2>5. CASE UNCHANGED vars
    BY <2>1, <2>5 DEF AskInv, InOrder, TextBefore, AllWait, Waits, AskOnce, AskApart, vars,
                      clientVars, mainVars
  <2> QED BY <2>2, <2>3, <2>4, <2>5 DEF Next
<1>3. Init => Contract!ContractInit
  BY DEF Init, Empty, Contract!ContractInit
<1>4. AskInv /\ Behind /\ [Next]_vars => [Contract!ContractNext]_<<text, asked, answers>>
  BY StepsPromised, ServerAssumption
<1>5. Contract!ContractSpec
        <=> Contract!ContractInit /\ [][Contract!ContractNext]_<<text, asked, answers>>
  BY PTL DEF Contract!ContractSpec, Contract!answerVars
<1>6. AskInv /\ Behind /\ [Next]_vars => Behind'
  BY StaysBehind
<1> QED BY <1>1, <1>2, <1>3, <1>4, <1>5, <1>6, PTL DEF Spec, KeepsPromise

-----------------------------------------------------------------------------
(* The settings reach the server.  Unless the settings are still to be     *)
(* read, what is on its way to the options is the last answer of the       *)
(* client or one that was on its way when it was given, and so is what     *)
(* arrived last.                                                           *)

Elements(q) == {q[i] : i \in DOMAIN q}

LEMMA ElementsAdd ==
    ASSUME NEW S, NEW q \in Seq(S), NEW e \in S
    PROVE  Elements(Append(q, e)) = Elements(q) \cup {e}
  BY AddLast DEF Elements

LEMMA ElementsTake ==
    ASSUME NEW S, NEW q \in Seq(S), q # <<>>
    PROVE  Elements(q) = Elements(Tail(q)) \cup {Head(q)}
<1>1. /\ Head(q) = q[1] /\ 1 \in DOMAIN q /\ DOMAIN q = 1..Len(q) /\ Len(q) \in Nat
      /\ DOMAIN Tail(q) = 1..(Len(q) - 1)
      /\ \A i \in DOMAIN Tail(q) : i + 1 \in DOMAIN q /\ Tail(q)[i] = q[i + 1]
  BY TakeHead
<1>2. ASSUME NEW i \in DOMAIN q, i # 1
      PROVE  i - 1 \in DOMAIN Tail(q) /\ Tail(q)[i - 1] = q[i]
  <2>1. i - 1 \in DOMAIN Tail(q) /\ (i - 1) + 1 = i
    BY <1>1, <1>2
  <2> QED BY <1>1, <2>1
<1>3. Elements(q) \subseteq Elements(Tail(q)) \cup {Head(q)}
  <2> SUFFICES ASSUME NEW i \in DOMAIN q PROVE q[i] \in Elements(Tail(q)) \cup {Head(q)}
    BY DEF Elements
  <2>1. CASE i = 1
    BY <1>1, <2>1
  <2>2. CASE i # 1
    BY <1>2, <2>2 DEF Elements
  <2> QED BY <2>1, <2>2
<1>4. Elements(Tail(q)) \cup {Head(q)} \subseteq Elements(q)
  BY <1>1 DEF Elements
<1> QED BY <1>3, <1>4

\* The settings of the client will be read again.
StillToRead ==
    \/ \E m \in Elements(inbox) : m.kind = "configuration"
    \/ Pull \in Elements(jobs)
    \/ \E w \in Worker : worker[w].at \in {"pull", "send"}
    \/ \E m \in Elements(outbox) : m.kind = "configuration"

\* OnTheWay, of the messages instead of their places.
Coming(s) ==
    \/ \E m \in Elements(inbox) : m.kind = "response" /\ m.settings = s
    \/ \E n \in DOMAIN replies : replies[n] = s
    \/ \E w \in Worker : worker[w].at = "deliver" /\ worker[w].settings = s

LEMMA ComingIsOnTheWay == \A s : Coming(s) <=> OnTheWay(s)
  BY DEF Coming, OnTheWay, Elements

\* The options the server will have once it has taken those delivered, and
\* those it may have.
Latest == IF internal = <<>> THEN options ELSE internal[Len(internal)]
Owed == {ParseOptions(settings)} \cup late

\* A worker waits for each request for the settings, response and reply; and a
\* reply has left no request or response behind.
Awaits(n) == \E w \in Worker : worker[w].at = "wait" /\ worker[w].id = n

Awaited ==
    /\ \A m \in Elements(outbox) : m.kind = "configuration" => Awaits(m.id)
    /\ \A m \in Elements(inbox) : m.kind = "response" => Awaits(m.id)
    /\ \A n \in DOMAIN replies : Awaits(n) /\ n \notin pending /\ n < next_id

LastArrives ==
    main = "running" =>
        \/ StillToRead
        \/ /\ \A s \in Settings : Coming(s) => ParseOptions(s) \in Owed
           /\ (\E s \in Settings : Coming(s)) \/ Latest \in Owed

SettleInv == PullInv /\ Awaited /\ LastArrives

\* What is on its way stays so, and what is to be read stays to be read.
LEMMA SettleSame ==
    ASSUME LastArrives, main' = "running" => main = "running", UNCHANGED <<settings, late>>,
           main = "running" => Latest' = Latest,
           StillToRead => StillToRead', \A s \in Settings : Coming(s)' <=> Coming(s)
    PROVE  LastArrives'
  BY DEF LastArrives, Owed

\* A message that is no response does not touch the settings on their way.
LEMMA SettleSend ==
    ASSUME SettleInv, NEW m \in Message, m.kind # "response", Send(m),
           m.kind = "configuration" \/ UNCHANGED <<settings, late>>,
           UNCHANGED <<outbox, internal, jobs, main, options, replies, worker, pending, next_id>>
    PROVE  Awaited' /\ LastArrives'
<1>1. Elements(inbox') = Elements(inbox) \cup {m}
  BY ElementsAdd DEF SettleInv, PullInv, TypeOK, Send
<1>2. Awaited'
  BY <1>1 DEF SettleInv, Awaited, Awaits
<1>3. CASE m.kind = "configuration"
  <2>1. StillToRead'
    BY <1>1, <1>3 DEF StillToRead
  <2> QED BY <1>2, <2>1 DEF LastArrives
<1>4. CASE UNCHANGED <<settings, late>>
  <2>1. StillToRead => StillToRead'
    BY <1>1 DEF StillToRead
  <2>2. \A s \in Settings : Coming(s)' <=> Coming(s)
    BY <1>1 DEF Coming
  <2>3. Latest' = Latest
    BY DEF Latest
  <2> QED BY <1>2, <1>4, <2>1, <2>2, <2>3, SettleSame DEF SettleInv
<1> QED BY <1>3, <1>4

\* The client answers a request for its settings with those it has, and what
\* it answered before and is still on its way becomes late; after an error
\* anything may come.
LEMMA SettleClient ==
    ASSUME SettleInv, Client
    PROVE  Awaited' /\ LastArrives'
<1>0. text \in Nat /\ settings \in Settings
  BY DEF SettleInv, PullInv, TypeOK
<1>1. CASE ClientEdits
  <2>1. [kind |-> "edit", text |-> text + 1] \in Message
    BY <1>0 DEF Message
  <2> QED BY <1>1, <2>1, SettleSend DEF ClientEdits, mainVars, rpcVars
<1>2. ASSUME NEW r \in Request, ClientAsks(r)
      PROVE  Awaited' /\ LastArrives'
  <2>1. [kind |-> "request", text |-> text, id |-> r] \in Message
    BY <1>0 DEF Message
  <2> QED BY <1>2, <2>1, SettleSend DEF ClientAsks, mainVars, rpcVars
<1>3. ASSUME NEW s \in Settings, ClientChangesSettings(s)
      PROVE  Awaited' /\ LastArrives'
  <2>1. [kind |-> "configuration", text |-> text, settings |-> s] \in Message
    BY <1>0 DEF Message
  <2> QED BY <1>3, <2>1, SettleSend DEF ClientChangesSettings, mainVars, rpcVars
<1>4. CASE ClientShutsDown
  <2>1. [kind |-> "shutdown", text |-> text] \in Message
    BY <1>0 DEF Message
  <2> QED BY <1>4, <2>1, SettleSend DEF ClientShutsDown, mainVars, rpcVars
<1>5. CASE ClientReceives
  <2> DEFINE Out == [kind : {"shutdown"}] \cup [kind : {"configuration"}, id : Nat]
             h == Head(outbox)
  <2>1. outbox \in Seq(Out) /\ outbox # <<>> /\ outbox' = Tail(outbox)
    BY <1>5 DEF ClientReceives, SettleInv, PullInv, TypeOK
  <2>2. Elements(outbox) = Elements(outbox') \cup {h} /\ h \in Out
    BY <2>1, ElementsTake, TakeHead
  <2>3. UNCHANGED <<main, worker, replies, jobs, internal, options, settings, pending, next_id>>
    BY <1>5 DEF ClientReceives, mainVars, rpcVars
  <2>4. CASE h.kind = "configuration"
    <3>1. PICK s \in {settings} \cup (IF Refuses THEN {Refused} ELSE {}) :
              /\ Send([kind |-> "response", text |-> text, id |-> h.id, settings |-> s])
              /\ late' = IF s = Refused THEN Option ELSE Underway
      BY <1>5, <2>4 DEF ClientReceives
    <3> DEFINE m == [kind |-> "response", text |-> text, id |-> h.id, settings |-> s]
    <3>2. m \in Message
      BY <1>0, <2>2, <2>4 DEF Message
    <3>3. Elements(inbox') = Elements(inbox) \cup {m} /\ m.kind = "response" /\ m.id = h.id
          /\ m.settings = s
      BY <3>1, <3>2, ElementsAdd DEF Send, SettleInv, PullInv, TypeOK
    <3> HIDE DEF m
    <3>4. Awaited'
      BY <2>2, <2>3, <2>4, <3>3 DEF SettleInv, Awaited, Awaits
    <3>5. CASE s = Refused
      <4>1. Option \subseteq Owed'
        BY <3>1, <3>5 DEF Owed
      <4>2. Latest' \in Option
        <5>1. options \in Option /\ internal \in Seq(Option)
          BY DEF SettleInv, PullInv, TypeOK
        <5>2. internal # <<>> => internal[Len(internal)] \in Option
          BY <5>1
        <5> QED BY <2>3, <5>1, <5>2 DEF Latest
      <4> QED BY <3>4, <4>1, <4>2, ParsedOption DEF LastArrives
    <3>6. CASE s # Refused
      <4>1. s = settings
        BY <3>1, <3>6
      <4>2. Coming(settings)'
        BY <2>3, <3>3, <4>1 DEF Coming
      <4>3. \A t \in Settings : Coming(t)' => Coming(t) \/ t = settings
        BY <2>3, <3>3, <4>1 DEF Coming
      <4>4. \A t \in Settings : Coming(t) => ParseOptions(t) \in late'
        BY <3>1, <3>6, ComingIsOnTheWay DEF Underway
      <4>5. \A t \in Settings : Coming(t)' => ParseOptions(t) \in Owed'
        BY <2>3, <4>3, <4>4 DEF Owed
      <4> QED BY <1>0, <2>3, <3>4, <4>2, <4>5 DEF LastArrives
    <3> QED BY <3>5, <3>6
  <2>5. CASE h.kind = "shutdown"
    <3> DEFINE m == [kind |-> "exit", text |-> text]
    <3>1. Send(m) /\ m \in Message /\ UNCHANGED late
      BY <1>0, <1>5, <2>5 DEF ClientReceives, Message
    <3>2. Elements(inbox') = Elements(inbox) \cup {m}
      BY <3>1, ElementsAdd DEF Send, SettleInv, PullInv, TypeOK
    <3>3. Awaited'
      BY <2>2, <2>3, <3>2 DEF SettleInv, Awaited, Awaits
    <3>4. StillToRead => StillToRead'
      BY <2>2, <2>3, <2>5, <3>2 DEF StillToRead
    <3>5. \A s \in Settings : Coming(s)' <=> Coming(s)
      BY <2>3, <3>2 DEF Coming
    <3>6. Latest' = Latest
      BY <2>3 DEF Latest
    <3> QED BY <2>3, <3>1, <3>3, <3>4, <3>5, <3>6, SettleSame DEF SettleInv
  <2> QED BY <2>2, <2>4, <2>5
<1> QED BY <1>1, <1>2, <1>3, <1>4, <1>5 DEF Client

\* Taking a message that says nothing of the settings changes nothing of them.
LEMMA SettleTake ==
    ASSUME SettleInv, inbox # <<>>, inbox' = Tail(inbox),
           Head(inbox).kind \notin {"configuration", "response"},
           UNCHANGED <<outbox, internal, options, replies, worker, settings, late, main,
                       pending, next_id>>,
           Pull \in Elements(jobs) => Pull \in Elements(jobs')
    PROVE  Awaited' /\ LastArrives'
<1>1. Elements(inbox) = Elements(inbox') \cup {Head(inbox)}
  BY ElementsTake DEF SettleInv, PullInv, TypeOK
<1>2. Awaited'
  BY <1>1 DEF SettleInv, Awaited, Awaits
<1>3. StillToRead => StillToRead'
  BY <1>1 DEF StillToRead
<1>4. \A s \in Settings : Coming(s)' <=> Coming(s)
  BY <1>1 DEF Coming
<1>5. Latest' = Latest
  BY DEF Latest
<1> QED BY <1>2, <1>3, <1>4, <1>5, SettleSame DEF SettleInv

\* The main thread passes a response on to the worker that waits, and asks for
\* the settings again when they have changed.
LEMMA SettleMain ==
    ASSUME SettleInv, PullConfiguration, MainInbox \/ HandleExit \/ SetOptions
    PROVE  Awaited' /\ LastArrives'
<1> DEFINE h == Head(inbox)
           Out == [kind : {"shutdown"}] \cup [kind : {"configuration"}, id : Nat]
<1>0. /\ jobs \in Seq(Job) /\ inbox \in Seq(Message) /\ outbox \in Seq(Out)
      /\ internal \in Seq(Option) /\ pending \subseteq Nat
  BY DEF SettleInv, PullInv, TypeOK
<1>1. CASE HandleEdit
  BY <1>1, SettleTake DEF HandleEdit, Take, rpcVars, clientVars
<1>2. CASE HandleRequest
  <2>1. /\ inbox # <<>> /\ inbox' = Tail(inbox) /\ h.kind = "request"
        /\ UNCHANGED <<outbox, internal, options, replies, worker, settings, late, main,
                       pending, next_id>>
    BY <1>2 DEF HandleRequest, Take, mainVars, rpcVars, clientVars
  <2>2. h.id \in Request
    BY <1>0, <2>1, TakeHead, MessageKinds
  <2>3. version \in Nat
    BY DEF SettleInv, PullInv, TypeOK
  <2>4. [at |-> "answer", id |-> h.id, text |-> version] \in Job
    BY <2>2, <2>3 DEF Job
  <2>5. Pull \in Elements(jobs) => Pull \in Elements(jobs')
    <3>1. CASE jobs' = jobs
      BY <3>1
    <3>2. CASE jobs' = Append(jobs, [at |-> "answer", id |-> h.id, text |-> version])
      BY <3>2, <1>0, <2>4, ElementsAdd
    <3> QED BY <1>2, <3>1, <3>2 DEF HandleRequest, Spawn
  <2> QED BY <2>1, <2>5, SettleTake
<1>3. CASE HandleConfiguration
  <2>1. /\ inbox # <<>> /\ inbox' = Tail(inbox) /\ h.kind = "configuration"
        /\ jobs' = Append(jobs, Pull) /\ Pull \in Job
        /\ UNCHANGED <<outbox, replies, worker, pending, next_id>>
    BY <1>3 DEF HandleConfiguration, Take, Spawn, rpcVars, Job
  <2>2. Elements(inbox) = Elements(inbox') \cup {h}
    BY <1>0, <2>1, ElementsTake
  <2>3. Pull \in Elements(jobs')
    BY <1>0, <2>1, ElementsAdd
  <2>4. Awaited'
    BY <2>1, <2>2 DEF SettleInv, Awaited, Awaits
  <2> QED BY <2>3, <2>4 DEF LastArrives, StillToRead
<1>4. CASE HandleResponse
  <2>1. /\ inbox # <<>> /\ inbox' = Tail(inbox) /\ h.kind = "response" /\ h \in Message
        /\ UNCHANGED <<outbox, internal, options, worker, settings, late, jobs, next_id>>
    BY <1>0, <1>4, TakeHead DEF HandleResponse, Take, clientVars
  <2>2. Elements(inbox) = Elements(inbox') \cup {h}
    BY <1>0, <2>1, ElementsTake
  <2>3. h = inbox[1] /\ 1 \in DOMAIN inbox
    BY <1>0, <2>1, TakeHead
  <2>4. h.id \in pending /\ h.id < next_id
    BY <2>1, <2>3 DEF SettleInv, PullInv, AllPending
  <2>5. /\ replies' = [i \in DOMAIN replies \cup {h.id} |->
                            IF i = h.id THEN h.settings ELSE replies[i]]
        /\ pending' = pending \ {h.id} /\ UNCHANGED main
    BY <1>4, <2>4 DEF HandleResponse
  <2>6. Awaits(h.id)
    BY <2>1, <2>2 DEF SettleInv, Awaited
  <2>7. /\ DOMAIN replies' = DOMAIN replies \cup {h.id} /\ replies'[h.id] = h.settings
        /\ \A n \in DOMAIN replies : n # h.id /\ replies'[n] = replies[n]
    BY <2>4, <2>5 DEF SettleInv, Awaited
  <2>8. Awaited'
    BY <2>1, <2>2, <2>4, <2>5, <2>6, <2>7 DEF SettleInv, Awaited, Awaits
  <2>9. StillToRead => StillToRead'
    BY <2>1, <2>2 DEF StillToRead
  <2>10. \A s \in Settings : Coming(s)' <=> Coming(s)
    BY <2>1, <2>2, <2>7 DEF Coming
  <2>11. Latest' = Latest
    BY <2>1 DEF Latest
  <2> QED BY <2>1, <2>5, <2>8, <2>9, <2>10, <2>11, SettleSame DEF SettleInv
<1>5. CASE HandleShutdown
  <2>1. /\ inbox # <<>> /\ inbox' = Tail(inbox) /\ main' = "closing"
        /\ outbox' = Append(outbox, [kind |-> "shutdown"])
        /\ UNCHANGED <<replies, worker, pending, next_id>>
    BY <1>5 DEF HandleShutdown, Take, rpcVars
  <2>2. Elements(inbox) = Elements(inbox') \cup {h}
    BY <1>0, <2>1, ElementsTake
  <2>3. [kind |-> "shutdown"] \in Out
    OBVIOUS
  <2>4. Elements(outbox') = Elements(outbox) \cup {[kind |-> "shutdown"]}
    BY <1>0, <2>1, <2>3, ElementsAdd
  <2> QED BY <2>1, <2>2, <2>4 DEF SettleInv, Awaited, Awaits, LastArrives
<1>6. CASE HandleExit
  <2>1. main' # "running" /\ UNCHANGED <<outbox, replies, worker, pending, next_id>>
    BY <1>6 DEF HandleExit, rpcVars
  <2>2. Elements(inbox') \subseteq Elements(inbox)
    <3>1. CASE inbox = <<>>
      BY <1>6, <3>1 DEF HandleExit
    <3>2. CASE inbox # <<>>
      BY <1>0, <1>6, <3>2, ElementsTake DEF HandleExit
    <3> QED BY <3>1, <3>2
  <2> QED BY <2>1, <2>2 DEF SettleInv, Awaited, Awaits, LastArrives
<1>7. CASE SetOptions
  <2>1. /\ internal # <<>> /\ internal' = Tail(internal) /\ options' = Head(internal)
        /\ UNCHANGED <<settings, late, inbox, outbox, jobs, main, replies, worker, pending,
                       next_id>>
    BY <1>7 DEF SetOptions, clientVars, rpcVars
  <2>2. Latest' = Latest
    <3>1. CASE Len(internal) = 1
      BY <1>0, <2>1, <3>1 DEF Latest
    <3>2. CASE Len(internal) # 1
      <4>0. Len(internal) \in Nat /\ Len(internal) # 0
        BY <1>0, <2>1
      <4>00. Len(internal') = Len(internal) - 1
        BY <1>0, <2>1
      <4>1. Len(internal') = Len(internal) - 1 /\ internal' # <<>> /\ Len(internal) > 1
        BY <3>2, <4>0, <4>00
      <4>2. internal'[Len(internal) - 1] = internal[Len(internal)]
        BY <1>0, <2>1, <4>1
      <4> QED BY <2>1, <4>1, <4>2 DEF Latest
    <3> QED BY <3>1, <3>2
  <2>3. StillToRead' <=> StillToRead
    BY <2>1 DEF StillToRead
  <2>4. \A s \in Settings : Coming(s)' <=> Coming(s)
    BY <2>1 DEF Coming
  <2>5. Awaited'
    BY <2>1 DEF SettleInv, Awaited, Awaits
  <2> QED BY <2>1, <2>2, <2>3, <2>4, <2>5, SettleSame DEF SettleInv
<1> QED BY <1>1, <1>2, <1>3, <1>4, <1>5, <1>6, <1>7 DEF MainInbox

\* A worker that did not wait leaves those that do as they are.
LEMMA OthersAwait ==
    ASSUME SettleInv, NEW w \in Worker, worker[w].at # "wait", NEW a, Become(w, a)
    PROVE  /\ worker'[w] = a /\ \A v \in Worker \ {w} : worker'[v] = worker[v]
           /\ \A n : Awaits(n) => Awaits(n)'
<1>1. worker'[w] = a /\ \A v \in Worker \ {w} : worker'[v] = worker[v]
  BY DEF Become, SettleInv, PullInv, TypeOK
<1>2. \A v \in Worker : worker[v].at = "wait" => worker'[v] = worker[v]
  BY <1>1
<1> QED BY <1>1, <1>2 DEF Awaits

\* The workers carry the settings they were given to the main thread.
LEMMA SettleWork ==
    ASSUME SettleInv, PullConfiguration, NEW w \in Worker, Work(w)
    PROVE  Awaited' /\ LastArrives'
<1> DEFINE Out == [kind : {"shutdown"}] \cup [kind : {"configuration"}, id : Nat]
<1>0. /\ jobs \in Seq(Job) /\ outbox \in Seq(Out) /\ internal \in Seq(Option)
      /\ worker \in [Worker -> Activity] /\ next_id \in Nat /\ DOMAIN replies \subseteq Nat
  BY DEF SettleInv, PullInv, TypeOK
<1>00. Idle.at = "idle" /\ Pull.at = "pull"
  BY DEF Idle, Pull
<1>2. CASE TakeJob(w)
  <2>1. /\ worker[w].at = "idle" /\ jobs # <<>> /\ jobs' = Tail(jobs)
        /\ Become(w, Head(jobs))
        /\ UNCHANGED <<settings, late, inbox, outbox, internal, main, options, replies, pending,
                       next_id>>
    BY <1>2 DEF TakeJob, At, clientVars, mainVars, rpcVars
  <2>2. Elements(jobs) = Elements(jobs') \cup {Head(jobs)} /\ Head(jobs) \in Job
    BY <1>0, <2>1, ElementsTake, TakeHead
  <2>3. Head(jobs).at \in {"pull", "answer"}
    BY <2>2 DEF Job, Pull
  <2>4. /\ worker'[w] = Head(jobs) /\ \A v \in Worker \ {w} : worker'[v] = worker[v]
        /\ \A n : Awaits(n) => Awaits(n)'
    BY <2>1, OthersAwait
  <2>5. Awaited'
    BY <2>1, <2>4 DEF SettleInv, Awaited
  <2>6. StillToRead => StillToRead'
    BY <1>00, <2>1, <2>2, <2>4 DEF StillToRead
  <2>7. \A s \in Settings : Coming(s)' <=> Coming(s)
    BY <2>1, <2>3, <2>4 DEF Coming
  <2>8. Latest' = Latest
    BY <2>1 DEF Latest
  <2> QED BY <2>1, <2>5, <2>6, <2>7, <2>8, SettleSame DEF SettleInv
<1>3. CASE AnswerFeature(w)
  <2>1. /\ worker[w].at = "answer" /\ Become(w, Idle)
        /\ UNCHANGED <<settings, late, inbox, outbox, internal, jobs, main, options, replies,
                       pending, next_id>>
    BY <1>3 DEF AnswerFeature, At, clientVars, mainVars, rpcVars
  <2>2. /\ worker'[w] = Idle /\ \A v \in Worker \ {w} : worker'[v] = worker[v]
        /\ \A n : Awaits(n) => Awaits(n)'
    BY <2>1, OthersAwait
  <2>3. Awaited'
    BY <2>1, <2>2 DEF SettleInv, Awaited
  <2>4. StillToRead => StillToRead'
    BY <2>1, <2>2 DEF StillToRead
  <2>5. \A s \in Settings : Coming(s)' <=> Coming(s)
    BY <1>00, <2>1, <2>2 DEF Coming
  <2>6. Latest' = Latest
    BY <2>1 DEF Latest
  <2> QED BY <2>1, <2>3, <2>4, <2>5, <2>6, SettleSame DEF SettleInv
<1>4. CASE RegisterRequest(w)
  <2> DEFINE a == [at |-> "send", id |-> next_id]
  <2>1. /\ worker[w].at = "pull" /\ Become(w, a)
        /\ next_id' = next_id + 1 /\ pending' = pending \cup {next_id}
        /\ UNCHANGED <<inbox, outbox, replies>>
    BY <1>4 DEF RegisterRequest, At
  <2>2. worker'[w] = a /\ \A n : Awaits(n) => Awaits(n)'
    BY <2>1, OthersAwait
  <2>3. \A n \in DOMAIN replies : n < next_id => n # next_id /\ n < next_id'
    BY <1>0, <2>1
  <2>4. Awaited'
    BY <2>1, <2>2, <2>3 DEF SettleInv, Awaited
  <2>5. StillToRead'
    BY <2>2 DEF StillToRead
  <2> QED BY <2>4, <2>5 DEF LastArrives
<1>5. CASE SendRequest(w)
  <2> DEFINE m == [kind |-> "configuration", id |-> worker[w].id]
             a == [worker[w] EXCEPT !.at = "wait"]
  <2>1. /\ worker[w].at = "send" /\ Become(w, a) /\ outbox' = Append(outbox, m)
        /\ UNCHANGED <<inbox, replies, pending, next_id>>
    BY <1>5 DEF SendRequest, At, rpcVars
  <2>2. worker[w] \in [at : {"send", "wait"}, id : Nat]
    BY <1>0, <2>1 DEF Activity, Job, Idle, Pull
  <2>3. a.at = "wait" /\ a.id = worker[w].id /\ m \in Out
    BY <2>2
  <2>4. PICK e : /\ Elements(outbox') = Elements(outbox) \cup {e}
                 /\ e.kind = "configuration" /\ e.id = worker[w].id
    <3>1. Elements(outbox') = Elements(outbox) \cup {m}
      BY <1>0, <2>1, <2>3, ElementsAdd
    <3>2. m.kind = "configuration" /\ m.id = worker[w].id
      OBVIOUS
    <3> HIDE DEF m
    <3> QED BY <3>1, <3>2
  <2> HIDE DEF a
  <2>5. worker'[w] = a /\ \A n : Awaits(n) => Awaits(n)'
    BY <2>1, OthersAwait
  <2>6. Awaits(e.id)'
    BY <2>3, <2>4, <2>5 DEF Awaits
  <2>7. Awaited'
    BY <2>1, <2>4, <2>5, <2>6 DEF SettleInv, Awaited
  <2>8. StillToRead'
    BY <2>4 DEF StillToRead
  <2> QED BY <2>7, <2>8 DEF LastArrives
<1>6. CASE ReceiveResponse(w)
  <2> DEFINE id == worker[w].id
             s == replies[id]
             a == IF s = Refused THEN Idle ELSE [at |-> "deliver", settings |-> s]
  <2>1. /\ worker[w].at = "wait" /\ id \in DOMAIN replies /\ Become(w, a)
        /\ replies' = [i \in DOMAIN replies \ {id} |-> replies[i]]
        /\ UNCHANGED <<settings, late, inbox, outbox, internal, jobs, main, options, pending,
                       next_id>>
    BY <1>6 DEF ReceiveResponse, At, clientVars, mainVars
  <2>2. worker'[w] = a /\ \A v \in Worker \ {w} : worker'[v] = worker[v]
    BY <1>0, <2>1 DEF Become
  <2>3. /\ DOMAIN replies' = DOMAIN replies \ {id}
        /\ \A n \in DOMAIN replies' : replies'[n] = replies[n]
    BY <2>1
  <2>4. \A n : n # id /\ Awaits(n) => Awaits(n)'
    BY <2>2 DEF Awaits
  <2>5. /\ \A m \in Elements(outbox) : m.kind = "configuration" => m.id # id
        /\ \A m \in Elements(inbox) : m.kind = "response" => m.id # id
    <3>1. id \notin pending
      BY <2>1 DEF SettleInv, Awaited
    <3> QED BY <3>1 DEF SettleInv, PullInv, AllPending, Elements
  <2>6. Awaited'
    BY <2>1, <2>3, <2>4, <2>5 DEF SettleInv, Awaited
  <2>7. StillToRead => StillToRead'
    BY <2>1, <2>2 DEF StillToRead
  <2>8. ASSUME NEW t \in Settings PROVE Coming(t)' <=> Coming(t)
    <3>1. worker'[w].at = "deliver" /\ worker'[w].settings = t <=> s = t
      <4>1. t # Refused
        BY ServerAssumption
      <4>2. CASE s = Refused
        BY <1>00, <2>2, <4>1, <4>2
      <4>3. CASE s # Refused
        BY <2>2, <4>3
      <4> QED BY <4>2, <4>3
    <3> HIDE DEF a
    <3>2. (\E n \in DOMAIN replies : replies[n] = t)
             <=> s = t \/ (\E n \in DOMAIN replies' : replies'[n] = t)
      BY <2>1, <2>3
    <3> HIDE DEF s
    <3>3. (\E v \in Worker : worker'[v].at = "deliver" /\ worker'[v].settings = t)
             <=> s = t \/ (\E v \in Worker : worker[v].at = "deliver" /\ worker[v].settings = t)
      BY <2>1, <2>2, <3>1
    <3> QED BY <2>1, <3>2, <3>3 DEF Coming
  <2>9. Latest' = Latest
    BY <2>1 DEF Latest
  <2> QED BY <2>1, <2>6, <2>7, <2>8, <2>9, SettleSame DEF SettleInv
<1>7. CASE DeliverOptions(w)
  <2> DEFINE t == worker[w].settings
             o == ParseOptions(t)
  <2>1. /\ worker[w].at = "deliver" /\ Become(w, Idle)
        /\ main = "running" => internal' = Append(internal, o)
        /\ UNCHANGED <<settings, late, inbox, outbox, jobs, main, options, replies, pending,
                       next_id>>
    BY <1>7 DEF DeliverOptions, At, clientVars, mainVars, rpcVars
  <2>2. /\ worker'[w] = Idle /\ \A v \in Worker \ {w} : worker'[v] = worker[v]
        /\ \A n : Awaits(n) => Awaits(n)'
    BY <2>1, OthersAwait
  <2>3. Awaited'
    BY <2>1, <2>2 DEF SettleInv, Awaited
  <2>4. StillToRead => StillToRead'
    BY <2>1, <2>2 DEF StillToRead
  <2>5. t \in Settings /\ Coming(t)
    BY <1>0, <2>1 DEF Coming, Activity, Job, Idle, Pull
  <2>6. \A s \in Settings : Coming(s)' => Coming(s)
    BY <1>00, <2>1, <2>2 DEF Coming
  <2>7. main = "running" => Latest' = o
    BY <1>0, <2>1, ParsedOption, AddLast DEF Latest
  <2>8. UNCHANGED <<main, Owed>>
    BY <2>1 DEF Owed
  <2> QED BY <2>3, <2>4, <2>5, <2>6, <2>7, <2>8 DEF SettleInv, LastArrives
<1> QED BY <1>2, <1>3, <1>4, <1>5, <1>6, <1>7 DEF Work

\* Where the server pulls the settings, whatever settles is the last answer of
\* the client or one that it overtook, however many workers pull them.
LEMMA PulledSettingsArrive ==
    ASSUME PullConfiguration
    PROVE  Spec => []ConfigurationSettles
<1>1. Init => SettleInv
  <2> SUFFICES ASSUME Init PROVE SettleInv
    OBVIOUS
  <2>1. TypeOK
    BY InitTyped, ServerAssumption
  <2>2. /\ pending = {} /\ inbox = <<>> /\ outbox = <<>> /\ main = "running"
        /\ \A w \in Worker : worker[w].at = "idle"
        /\ DOMAIN replies = {}
    BY DEF Init, Idle, Empty
  <2>3. PullInv
    BY <2>1, <2>2 DEF PullInv, ResponsesAwaited, AllPending, PullOnce, PullApart
  <2>4. Pull \in Elements(jobs)
    <3>1. jobs = <<Pull>> /\ 1 \in DOMAIN jobs /\ jobs[1] = Pull
      BY DEF Init
    <3> QED BY <3>1 DEF Elements
  <2>5. Awaited
    BY <2>2 DEF Awaited, Elements
  <2> QED BY <2>3, <2>4, <2>5 DEF SettleInv, LastArrives, StillToRead
<1>2. SettleInv /\ [Next]_vars => SettleInv'
  <2> SUFFICES ASSUME SettleInv, [Next]_vars PROVE SettleInv'
    OBVIOUS
  <2>1. PullInv'
    <3>1. TypeOK'
      BY NextTyped, ServerAssumption DEF SettleInv, PullInv
    <3>2. CASE Client
      BY <3>1, <3>2, PullClient DEF SettleInv, PullInv
    <3>3. CASE MainInbox \/ HandleExit \/ SetOptions
      BY <3>1, <3>3, PullMain DEF SettleInv, PullInv
    <3>4. ASSUME NEW w \in Worker, Work(w) PROVE PullInv'
      BY <3>1, <3>4, PullWork DEF SettleInv, PullInv
    <3>5. CASE UNCHANGED vars
      BY <3>1, <3>5 DEF SettleInv, PullInv, ResponsesAwaited, AllPending, PullOnce,
                        PullApart, vars, mainVars, rpcVars
    <3> QED BY <3>2, <3>3, <3>4, <3>5 DEF Next
  <2>2. CASE Client
    BY <2>1, <2>2, SettleClient DEF SettleInv
  <2>3. CASE MainInbox \/ HandleExit \/ SetOptions
    BY <2>1, <2>3, SettleMain DEF SettleInv
  <2>4. ASSUME NEW w \in Worker, Work(w) PROVE SettleInv'
    BY <2>1, <2>4, SettleWork DEF SettleInv
  <2>5. CASE UNCHANGED vars
    <3>1. /\ StillToRead' <=> StillToRead
          /\ \A s \in Settings : Coming(s)' <=> Coming(s)
          /\ Latest' = Latest
          /\ UNCHANGED <<settings, late, main>>
      BY <2>5 DEF StillToRead, Coming, Latest, vars, clientVars, mainVars, rpcVars
    <3>2. Awaited'
      BY <2>5 DEF SettleInv, Awaited, Awaits, vars, rpcVars
    <3>3. LastArrives'
      BY <3>1, SettleSame DEF SettleInv
    <3> QED BY <2>1, <3>2, <3>3 DEF SettleInv
  <2> QED BY <2>2, <2>3, <2>4, <2>5 DEF Next
<1>3. SettleInv => ConfigurationSettles
  <2> SUFFICES ASSUME SettleInv, main = "running", Quiet
               PROVE  options \in Owed
    BY DEF ConfigurationSettles, Owed
  <2>1. ~StillToRead
    BY DEF StillToRead, Elements, Quiet, Pulling
  <2>2. \A s \in Settings : ~Coming(s)
    BY DEF Coming, Elements, Quiet, Pulling, SettleInv, Awaited, Awaits
  <2> QED BY <2>1, <2>2 DEF SettleInv, LastArrives, Latest, Quiet
<1> QED BY <1>1, <1>2, <1>3, PTL DEF Spec

-----------------------------------------------------------------------------
(* Without pull support the settings come with the notification that says  *)
(* they changed, and the last one in the inbox has the client's own.       *)

Configures(i) == i \in DOMAIN inbox /\ inbox[i].kind = "configuration"

NothingPulled ==
    /\ internal = <<>>
    /\ \A w \in Worker : worker[w].at \notin {"send", "wait", "deliver"}
    /\ \A m \in Elements(outbox) : m.kind # "configuration"
    /\ \A m \in Elements(inbox) : m.kind # "response"

LastTold ==
    main = "running" =>
        \/ \E i : /\ Configures(i) /\ inbox[i].settings = settings
                  /\ \A j : Configures(j) => j <= i
        \/ (\A i : ~Configures(i)) /\ (config_pulled => options = ParseOptions(settings))

PushInv == TypeOK /\ NothingPulled /\ LastTold

\* Any other message leaves the last configuration the last.
LEMMA PushSend ==
    ASSUME PushInv, NEW m \in Message, m.kind # "response", Send(m),
           m.kind = "configuration" => m.settings = settings',
           m.kind # "configuration" => UNCHANGED settings,
           UNCHANGED <<internal, main, options, config_pulled, worker>>,
           Elements(outbox') \subseteq Elements(outbox)
    PROVE  NothingPulled' /\ LastTold'
<1>1. /\ DOMAIN inbox' = DOMAIN inbox \cup {Len(inbox) + 1}
      /\ inbox'[Len(inbox) + 1] = m
      /\ \A i \in DOMAIN inbox : inbox'[i] = inbox[i] /\ i <= Len(inbox) + 1
      /\ Len(inbox) + 1 \notin DOMAIN inbox
      /\ Elements(inbox') = Elements(inbox) \cup {m}
  BY AddLast, ElementsAdd DEF Send, PushInv, TypeOK
<1>2. NothingPulled'
  BY <1>1 DEF PushInv, NothingPulled
<1>3. CASE m.kind = "configuration"
  <2>1. PICK n \in Nat : n = Len(inbox) + 1
    BY DEF PushInv, TypeOK
  <2>2. Configures(n)' /\ inbox'[n].settings = settings'
    BY <1>1, <1>3, <2>1 DEF Configures
  <2>3. ASSUME NEW j, Configures(j)' PROVE j <= n
    <3>1. j \in DOMAIN inbox \/ j = n
      BY <1>1, <2>1, <2>3 DEF Configures
    <3> QED BY <1>1, <2>1, <3>1
  <2> QED BY <1>2, <2>2, <2>3 DEF LastTold
<1>4. CASE m.kind # "configuration"
  <2>1. \A i : Configures(i)' <=> Configures(i)
    BY <1>1, <1>4 DEF Configures
  <2>2. \A i : Configures(i) => inbox'[i] = inbox[i]
    BY <1>1 DEF Configures
  <2> QED BY <1>2, <1>4, <2>1, <2>2 DEF PushInv, LastTold
<1> QED BY <1>3, <1>4

\* A message that is taken leaves the last configuration the last, or was it.
LEMMA PushTake ==
    ASSUME PushInv, main = "running", inbox # <<>>, inbox' = Tail(inbox),
           UNCHANGED <<settings, internal, worker>>,
           \A m \in Elements(outbox') : m.kind # "configuration",
           IF Head(inbox).kind = "configuration"
           THEN options' = ParseOptions(Head(inbox).settings)
           ELSE UNCHANGED <<options, config_pulled>>
    PROVE  NothingPulled' /\ LastTold'
<1>1. /\ Elements(inbox) = Elements(inbox') \cup {Head(inbox)}
      /\ Head(inbox) = inbox[1] /\ 1 \in DOMAIN inbox
      /\ DOMAIN inbox = 1..Len(inbox) /\ DOMAIN inbox' = 1..(Len(inbox) - 1) /\ Len(inbox) \in Nat
      /\ \A i \in DOMAIN inbox' : i + 1 \in DOMAIN inbox /\ inbox'[i] = inbox[i + 1]
  BY TakeHead, ElementsTake DEF PushInv, TypeOK
<1>2. NothingPulled'
  BY <1>1 DEF PushInv, NothingPulled
<1>3. \A i : Configures(i)' => Configures(i + 1) /\ i \in Nat /\ inbox'[i] = inbox[i + 1]
  BY <1>1 DEF Configures
<1>4. ASSUME NEW i, Configures(i), i # 1
      PROVE  i \in Nat /\ Configures(i - 1)' /\ inbox'[i - 1] = inbox[i]
  <2>1. i \in Nat /\ i - 1 \in DOMAIN inbox' /\ (i - 1) + 1 = i
    BY <1>1, <1>4 DEF Configures
  <2> QED BY <1>1, <1>4, <2>1 DEF Configures
<1>5. CASE \E i : /\ Configures(i) /\ inbox[i].settings = settings
                  /\ \A j : Configures(j) => j <= i
  <2>1. PICK i : /\ Configures(i) /\ inbox[i].settings = settings
                 /\ \A j : Configures(j) => j <= i
    BY <1>5
  <2>2. CASE i = 1
    <3>1. ASSUME NEW j, Configures(j)' PROVE FALSE
      <4>1. Configures(j + 1) /\ j \in DOMAIN inbox'
        BY <1>3, <3>1 DEF Configures
      <4>2. j + 1 <= 1 /\ j \in Nat /\ j >= 1
        BY <1>1, <2>1, <2>2, <4>1
      <4> QED BY <4>2
    <3>2. options' = ParseOptions(settings)
      BY <1>1, <2>1, <2>2 DEF Configures
    <3> QED BY <1>2, <3>1, <3>2 DEF LastTold
  <2>3. CASE i # 1
    <3>1. i \in Nat /\ Configures(i - 1)' /\ inbox'[i - 1] = inbox[i]
      BY <1>4, <2>1, <2>3
    <3>2. ASSUME NEW j, Configures(j)' PROVE j <= i - 1
      <4>1. Configures(j + 1) /\ j \in Nat
        BY <1>3, <3>2
      <4>2. j + 1 <= i
        BY <2>1, <4>1
      <4> QED BY <3>1, <4>1, <4>2
    <3> QED BY <1>2, <2>1, <3>1, <3>2 DEF LastTold
  <2> QED BY <2>2, <2>3
<1>6. CASE /\ \A i : ~Configures(i)
           /\ config_pulled => options = ParseOptions(settings)
  <2>1. Head(inbox).kind # "configuration"
    BY <1>1, <1>6 DEF Configures
  <2>2. \A j : ~Configures(j)'
    BY <1>3, <1>6
  <2> QED BY <1>2, <1>6, <2>1, <2>2 DEF LastTold
<1> QED BY <1>5, <1>6 DEF PushInv, LastTold

\* Without pull support the options are those the client told the server last.
LEMMA ToldSettingsArrive ==
    ASSUME ~PullConfiguration
    PROVE  Spec => []ConfigurationSettles
<1> DEFINE Out == [kind : {"shutdown"}] \cup [kind : {"configuration"}, id : Nat]
<1>1. Init => PushInv
  <2> SUFFICES ASSUME Init PROVE PushInv
    OBVIOUS
  <2>1. TypeOK
    BY InitTyped, ServerAssumption
  <2>2. /\ inbox = <<>> /\ outbox = <<>> /\ internal = <<>> /\ config_pulled = FALSE
        /\ \A w \in Worker : worker[w].at = "idle"
    BY DEF Init, Idle
  <2> QED BY <2>1, <2>2 DEF PushInv, NothingPulled, LastTold, Configures, Elements
<1>2. PushInv /\ [Next]_vars => PushInv'
  <2> SUFFICES ASSUME PushInv, [Next]_vars PROVE PushInv'
    OBVIOUS
  <2>1. TypeOK'
    BY NextTyped, ServerAssumption DEF PushInv
  <2>2. /\ text \in Nat /\ settings \in Settings /\ inbox \in Seq(Message)
        /\ outbox \in Seq(Out) /\ worker \in [Worker -> Activity] /\ jobs \in Seq(Job)
    BY DEF PushInv, TypeOK
  <2>3. CASE ClientEdits
    <3>1. [kind |-> "edit", text |-> text + 1] \in Message
      BY <2>2 DEF Message
    <3> QED BY <2>1, <2>3, <3>1, PushSend DEF ClientEdits, mainVars, PushInv
  <2>4. ASSUME NEW r \in Request, ClientAsks(r) PROVE PushInv'
    <3>1. [kind |-> "request", text |-> text, id |-> r] \in Message
      BY <2>2 DEF Message
    <3> QED BY <2>1, <2>4, <3>1, PushSend DEF ClientAsks, mainVars, PushInv
  <2>5. ASSUME NEW s \in Settings, ClientChangesSettings(s) PROVE PushInv'
    <3>1. [kind |-> "configuration", text |-> text, settings |-> s] \in Message
      BY <2>2 DEF Message
    <3> QED BY <2>1, <2>5, <3>1, PushSend DEF ClientChangesSettings, mainVars, PushInv
  <2>6. CASE ClientShutsDown
    <3>1. [kind |-> "shutdown", text |-> text] \in Message
      BY <2>2 DEF Message
    <3> QED BY <2>1, <2>6, <3>1, PushSend DEF ClientShutsDown, mainVars, PushInv
  <2>7. CASE ClientReceives
    <3>1. outbox # <<>> /\ outbox' = Tail(outbox)
      BY <2>7 DEF ClientReceives
    <3>2. Elements(outbox) = Elements(outbox') \cup {Head(outbox)}
      BY <2>2, <3>1, ElementsTake
    <3>3. Head(outbox).kind # "configuration"
      BY <3>2 DEF PushInv, NothingPulled
    <3>4. Send([kind |-> "exit", text |-> text])
      BY <2>7, <3>3 DEF ClientReceives
    <3>5. [kind |-> "exit", text |-> text] \in Message
      BY <2>2 DEF Message
    <3> QED BY <2>1, <2>7, <3>2, <3>4, <3>5, PushSend DEF ClientReceives, mainVars, PushInv
  <2>8. CASE HandleEdit
    BY <2>1, <2>8, PushTake DEF HandleEdit, Take, PushInv, NothingPulled, clientVars
  <2>9. CASE HandleRequest
    BY <2>1, <2>9, PushTake DEF HandleRequest, Take, PushInv, NothingPulled, clientVars,
                                mainVars
  <2>10. CASE HandleConfiguration
    BY <2>1, <2>10, PushTake DEF HandleConfiguration, Take, PushInv, NothingPulled, clientVars
  <2>11. CASE HandleResponse
    <3>1. inbox # <<>> /\ Head(inbox).kind = "response"
      BY <2>11 DEF HandleResponse, Take
    <3> QED BY <2>2, <3>1, ElementsTake DEF PushInv, NothingPulled
  <2>12. CASE HandleShutdown \/ HandleExit
    <3>1. main' # "running" /\ UNCHANGED <<internal, worker>>
      BY <2>12 DEF HandleShutdown, HandleExit
    <3>2. Elements(inbox') \subseteq Elements(inbox)
      <4>1. CASE inbox = <<>>
        BY <2>12, <4>1 DEF HandleShutdown, HandleExit, Take
      <4>2. CASE inbox # <<>>
        BY <2>2, <2>12, <4>2, ElementsTake DEF HandleShutdown, HandleExit, Take
      <4> QED BY <4>1, <4>2
    <3>3. \A m \in Elements(outbox') : m.kind # "configuration"
      <4>1. CASE outbox' = outbox
        BY <4>1 DEF PushInv, NothingPulled
      <4>2. CASE outbox' = Append(outbox, [kind |-> "shutdown"])
        <5>1. [kind |-> "shutdown"] \in Out
          OBVIOUS
        <5> QED BY <2>2, <4>2, <5>1, ElementsAdd DEF PushInv, NothingPulled
      <4> QED BY <2>12, <4>1, <4>2 DEF HandleShutdown, HandleExit
    <3> QED BY <2>1, <3>1, <3>2, <3>3 DEF PushInv, NothingPulled, LastTold
  <2>13. CASE SetOptions
    BY <2>13 DEF SetOptions, PushInv, NothingPulled
  <2>14. ASSUME NEW w \in Worker, Work(w) PROVE PushInv'
    <3>1. worker[w].at \notin {"send", "wait", "deliver"}
      BY DEF PushInv, NothingPulled
    <3>2. TakeJob(w) \/ AnswerFeature(w) \/ RegisterRequest(w)
      BY <2>14, <3>1 DEF Work, SendRequest, ReceiveResponse, DeliverOptions, At
    <3>3. UNCHANGED <<inbox, outbox, internal, settings, main, options, config_pulled>>
      BY <3>2 DEF TakeJob, AnswerFeature, RegisterRequest, clientVars, mainVars
    <3>4. \A v \in Worker : worker'[v].at \notin {"send", "wait", "deliver"}
      <4>1. CASE TakeJob(w)
        <5>1. Head(jobs) \in Job
          BY <2>2, <4>1, TakeHead DEF TakeJob
        <5>2. Head(jobs).at \in {"pull", "answer"}
          BY <5>1 DEF Job, Pull
        <5> QED BY <2>2, <4>1, <5>2 DEF TakeJob, Become, PushInv, NothingPulled
      <4>2. CASE AnswerFeature(w) \/ RegisterRequest(w)
        <5>1. Become(w, Idle) /\ Idle.at = "idle"
          BY <4>2 DEF AnswerFeature, RegisterRequest, Idle
        <5> QED BY <2>2, <5>1 DEF Become, PushInv, NothingPulled
      <4> QED BY <3>2, <4>1, <4>2
    <3>5. LastTold'
      BY <3>3 DEF PushInv, LastTold, Configures
    <3> QED BY <2>1, <3>3, <3>4, <3>5 DEF PushInv, NothingPulled
  <2>15. CASE UNCHANGED vars
    BY <2>1, <2>15 DEF PushInv, NothingPulled, LastTold, Configures, vars, clientVars, mainVars
  <2> QED BY <2>3, <2>4, <2>5, <2>6, <2>7, <2>8, <2>9, <2>10, <2>11, <2>12, <2>13, <2>14,
             <2>15 DEF Next, Client, MainInbox
<1>3. PushInv => ConfigurationSettles
  BY DEF PushInv, LastTold, Configures, ConfigurationSettles, Quiet
<1> QED BY <1>1, <1>2, <1>3, PTL DEF Spec

\* Whenever nothing is on its way the options are the client's settings, or
\* those of an answer that had not reached the main thread when the client gave
\* its last one, however many workers pull them and however messages, jobs,
\* changes of the settings and errors interleave.
THEOREM SettingsArrive == Spec => []ConfigurationSettles
<1>1. CASE PullConfiguration
  BY <1>1, PulledSettingsArrive
<1>2. CASE ~PullConfiguration
  BY <1>2, ToldSettingsArrive
<1> QED BY <1>1, <1>2
=============================================================================
