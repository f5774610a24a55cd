------------------------------ MODULE Delivery ------------------------------
(***************************************************************************)
(* What the reply outbox promises, without its rows, claims, goroutines    *)
(* and clocks.  A reply is a text on a submission.  The latest text of a   *)
(* submission waits; it is sent until the service knows that it was        *)
(* received, and only a text that was received is recorded as sent.  What  *)
(* the service forgot, it may send again; nothing else is sent twice.      *)
(***************************************************************************)
CONSTANT Subs \* submissions

VARIABLES
  asked,      \* <<submission, text>> of every reply ever queued
  waiting,    \* the texts still to be sent
  recorded,   \* the texts recorded as sent
  received,   \* the texts the broker was sent
  forgotten   \* those of them the service failed to record

vars == <<asked, waiting, recorded, received, forgotten>>

Init ==
  /\ asked = {}
  /\ waiting = {}
  /\ recorded = {}
  /\ received = {}
  /\ forgotten = {}

Of(s) == {p[2] : p \in {q \in asked : q[1] = s}}

\* A new reply replaces the one that waits.
Queue(s, t) ==
  /\ \A p \in asked : p[2] # t
  /\ asked' = asked \cup {<<s, t>>}
  /\ waiting' = (waiting \ Of(s)) \cup {t}
  /\ UNCHANGED <<recorded, received, forgotten>>

\* A text is sent; if "lost", the service takes it for a failure.
Receive(s, t, lost) ==
  /\ <<s, t>> \in asked
  /\ t \notin received \ forgotten
  /\ received' = received \cup {t}
  /\ forgotten' = IF lost THEN forgotten \cup {t} ELSE forgotten
  /\ UNCHANGED <<asked, waiting, recorded>>

Record(t) ==
  /\ t \in waiting \cap received
  /\ waiting' = waiting \ {t}
  /\ recorded' = recorded \cup {t}
  /\ UNCHANGED <<asked, received, forgotten>>

\* Given up: the attempts are used up, the text is too old, or it was pending
\* when a hold was released.
Drop(T) ==
  /\ waiting' = waiting \ T
  /\ UNCHANGED <<asked, recorded, received, forgotten>>

\* A text given up while it is being sent comes back if the sending fails and
\* nothing took its place.
Requeue(s, t) ==
  /\ <<s, t>> \in asked
  /\ t \notin recorded \cup (received \ forgotten)
  /\ Of(s) \cap waiting = {}
  /\ waiting' = waiting \cup {t}
  /\ UNCHANGED <<asked, recorded, received, forgotten>>

Forget(T) ==
  /\ forgotten' = forgotten \cup T
  /\ UNCHANGED <<asked, waiting, recorded, received>>

\* Old records are deleted.
Prune(t) ==
  /\ recorded' = recorded \ {t}
  /\ UNCHANGED <<asked, waiting, received, forgotten>>

\* The text of a new reply is whatever waits after the step.
Next ==
  \/ \E s \in Subs :
       \/ \E t \in waiting' : Queue(s, t)
       \/ \E t \in Of(s) : Requeue(s, t) \/ \E lost \in BOOLEAN : Receive(s, t, lost)
  \/ \E t \in waiting : Record(t)
  \/ \E t \in recorded : Prune(t)
  \/ \E T \in SUBSET waiting : Drop(T)
  \/ \E T \in SUBSET received : Forget(T)

Spec == Init /\ [][Next]_vars

=============================================================================
