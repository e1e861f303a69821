-------------------------------- MODULE Exchange --------------------------------
(* What a connection of the server promises its client: a request is answered at most *)
(* once, at once or later, an answer belongs to a request that was taken, and the     *)
(* answers are numbered 1, 2, 3 ... in the order in which they are sent.              *)
EXTENDS Naturals, Sequences

CONSTANTS
  Connections,
  Requests      \* what a client may ask on a connection

VARIABLES
  outstanding,   \* of every connection, the requests that may still be answered
  answers        \* of every connection, what was sent

Asked(c, request) ==
  request \in outstanding[c] \/ \E i \in DOMAIN answers[c] : answers[c][i].request = request

Numbered(c, request) ==
  answers' = [answers EXCEPT
                ![c] = Append(@, [number |-> Len(@) + 1, request |-> request])]

Init ==
  /\ outstanding = [c \in Connections |-> {}]
  /\ answers = [c \in Connections |-> << >>]

Take(c, request) ==
  /\ ~Asked(c, request)
  /\ outstanding' = [outstanding EXCEPT ![c] = @ \cup {request}]
  /\ UNCHANGED answers

AnswerAtOnce(c, request) ==
  /\ ~Asked(c, request)
  /\ Numbered(c, request)
  /\ UNCHANGED outstanding

Answer(c, request) ==
  /\ request \in outstanding[c]
  /\ Numbered(c, request)
  /\ outstanding' = [outstanding EXCEPT ![c] = @ \ {request}]

Next ==
  \E c \in Connections, request \in Requests :
    Take(c, request) \/ AnswerAtOnce(c, request) \/ Answer(c, request)

Spec == Init /\ [][Next]_<<outstanding, answers>>

(* What the promise amounts to: an answer's number is its place among the answers, no   *)
(* request is answered twice, and a request that was answered is no longer outstanding. *)
AnsweredOnce ==
  \A c \in Connections :
    /\ \A i \in DOMAIN answers[c] :
         answers[c][i].number = i /\ answers[c][i].request \in Requests \ outstanding[c]
    /\ \A i, j \in DOMAIN answers[c] : answers[c][i].request = answers[c][j].request => i = j
================================================================================
