--------------------------- MODULE HelperContract ---------------------------
(***************************************************************************)
(* What the helper promises Squid, with none of its threads, queues and     *)
(* watchers: Squid sends lines, the helper reads some of them and, once it   *)
(* is ready, answers those, each once, in any order.  A helper that has been *)
(* ready stops only when it has answered all it has read; one of which no    *)
(* worker ever came up stops with what it has read unanswered.               *)
(***************************************************************************)
EXTENDS Sequences

CONSTANT Lines      \* the request lines

VARIABLES
  sent,      \* the lines Squid has sent
  accepted,  \* those the helper has read
  replies,   \* those it has answered, in the order of the answers
  ready,     \* somebody is there, or has been, to answer
  running    \* FALSE once the helper has stopped

vars == <<sent, accepted, replies, ready, running>>

Answered == {replies[k] : k \in DOMAIN replies}

Init ==
  /\ sent = {} /\ accepted = {} /\ replies = << >>
  /\ ready = FALSE /\ running = TRUE

\* Squid writes a line, perhaps one that nobody will read any more.
Send(l) ==
  /\ l \notin sent
  /\ sent' = sent \cup {l}
  /\ UNCHANGED <<accepted, replies, ready, running>>

\* One read may bring several lines.
Accept(S) ==
  /\ running /\ S # {} /\ S \cap accepted = {}
  /\ accepted' = accepted \cup S
  /\ UNCHANGED <<sent, replies, ready, running>>

\* The first worker has come up.
ComeUp ==
  /\ running /\ ~ready
  /\ ready' = TRUE
  /\ UNCHANGED <<sent, accepted, replies, running>>

Answer(l) ==
  /\ running /\ ready /\ l \in accepted /\ l \notin Answered
  /\ replies' = Append(replies, l)
  /\ UNCHANGED <<sent, accepted, ready, running>>

Stop ==
  /\ running /\ (ready => Answered = accepted)
  /\ running' = FALSE
  /\ UNCHANGED <<sent, accepted, replies, ready>>

Next ==
  \/ \E l \in Lines : Send(l) \/ Answer(l)
  \/ \E S \in SUBSET sent : Accept(S)
  \/ ComeUp \/ Stop

Spec == Init /\ [][Next]_vars
=============================================================================
