------------------------------- MODULE Answers -------------------------------
(***************************************************************************)
(* What the language server promises its client, without threads, queues   *)
(* or channels: a request is answered at most once, and what it is         *)
(* answered is computed from the text as the client had it when it asked:  *)
(* from every edit sent before the request and from none sent after it.    *)
(* The items it refers to may be of any texts since, each of its own.      *)
(* Module Server, the threads of server/mod.rs, implements it.             *)
(***************************************************************************)
EXTENDS Integers

CONSTANT Request        \* the requests of the client, named by their ids

VARIABLES
    text,       \* the edits the client has made: its text, by their number
    asked,      \* the requests sent, each with the text at that moment
    answers     \* the responses sent to each request, first to last

answerVars == <<text, asked, answers>>

\* A response: whether it holds a result, the text it was computed from (0
\* for an error), and the texts whose items it refers to.
Response == [ok : BOOLEAN, text : Nat, items : SUBSET Nat]

ContractInit ==
    /\ text = 0
    /\ asked = [r \in {} |-> 0]
    /\ answers = [r \in Request |-> <<>>]

Edit ==
    /\ text' = text + 1
    /\ UNCHANGED <<asked, answers>>

Ask(r) ==
    /\ r \notin DOMAIN asked
    /\ asked' = [q \in DOMAIN asked \cup {r} |-> IF q = r THEN text ELSE asked[q]]
    /\ UNCHANGED <<text, answers>>

\* Any request sent and not answered may be, in any order: with an error,
Refuse(r) ==
    /\ r \in DOMAIN asked /\ answers[r] = <<>>
    /\ answers' = [answers EXCEPT ![r] = <<[ok |-> FALSE, text |-> 0, items |-> {}]>>]
    /\ UNCHANGED <<text, asked>>

\* or with a result computed from the text it was asked about, and from items
\* of no text before that.
Answer(r) ==
    /\ r \in DOMAIN asked /\ answers[r] = <<>>
    /\ \E items \in SUBSET (asked[r] .. text) :
          answers' = [answers EXCEPT ![r] =
                          <<[ok |-> TRUE, text |-> asked[r], items |-> items]>>]
    /\ UNCHANGED <<text, asked>>

ContractNext == Edit \/ \E r \in Request : Ask(r) \/ Refuse(r) \/ Answer(r)

ContractSpec == ContractInit /\ [][ContractNext]_answerVars
=============================================================================
