-------------------------- MODULE LifecycleProofs --------------------------
(***************************************************************************)
(* Proofs about Lifecycle, for any submissions, thresholds and batches.    *)
(***************************************************************************)
EXTENDS Lifecycle, TLAPS

-----------------------------------------------------------------------------
(* Records.                                                                *)

\* An unset stamp is no number, and a check is shorter than Horizon.
LEMMA Bounds ==
  /\ \A n \in Int : n # Never
  /\ MaxLag \in Nat /\ Horizon \in Nat /\ MaxLag < Horizon
  /\ 0 .. MaxLag \subseteq Ages
  /\ 0 \in Ages
<1>1. MinQuiet \in Limits
  BY Zenon DEF Limits
<1>2. MinQuiet \in Nat /\ MaxLag \in Nat /\ Horizon \in Nat
      /\ Horizon > MinQuiet + MaxLag
  BY Zenon, <1>1, LimitsAssumption
<1> QED
  BY <1>2, NeverAssumption DEF Ages

\* TransitionTo leaves the stamps that belong to the state it moves to, and
\* nothing changes when it stays in a state.
LEMMA MovedFacts ==
  \A sub \in Records, next \in States, ago \in Ages :
    Stamped(sub) /\ sub.state \in States /\ CanMove(sub, next) =>
      /\ Moved(sub, next, ago) \in Records
      /\ Moved(sub, next, ago).state = next
      /\ Stamped(Moved(sub, next, ago))
      /\ sub.state = next => Moved(sub, next, ago) = sub
<1> SUFFICES ASSUME NEW sub \in Records, NEW next \in States, NEW ago \in Ages,
                    Stamped(sub), sub.state \in States, CanMove(sub, next)
             PROVE  /\ Moved(sub, next, ago) \in Records
                    /\ Moved(sub, next, ago).state = next
                    /\ Stamped(Moved(sub, next, ago))
                    /\ sub.state = next => Moved(sub, next, ago) = sub
  BY Zenon
<1> DEFINE m == Moved(sub, next, ago)
<1>1. CASE sub.state = next
  BY Zenon, <1>1 DEF Moved
<1>2. CASE sub.state # next
  <2>1. ago # Never
    BY Bounds DEF Ages
  <2>2. m \in Records
    BY ZenonT(60), <1>2 DEF Moved, Records, States
  <2>3. /\ m.state = next
        /\ m.escalated = IF next = "escalated" THEN ago
                         ELSE IF next = "closed" THEN sub.escalated ELSE Never
        /\ m.done = IF next = "complete" THEN ago
                    ELSE IF next = "awaiting" THEN Never ELSE sub.done
    BY Zenon, <1>2 DEF Moved, Records
  <2>4. next # "open"
    BY <1>2 DEF CanMove, Allowed, States
  <2>5. next = "escalated" => sub.state \in {"open", "awaiting"}
    BY <1>2 DEF CanMove, Allowed, States
  <2>6. Stamped(m)
    <3> HIDE DEF m
    <3> QED
      BY Zenon, <2>1, <2>3, <2>4, <2>5 DEF Stamped, States
  <2> QED
    BY Zenon, <1>2, <2>2, <2>3, <2>6
<1> QED
  BY Zenon, <1>1, <1>2

\* Writing a copy back changes the hold flag of the copy only.
LEMMA StoredFacts ==
  \A sub \in Records, copy \in Records :
    /\ Stored(sub, copy) \in Records
    /\ Stored(sub, copy).state = copy.state
    /\ Stored(sub, copy).done = copy.done
    /\ Stored(sub, copy).escalated = copy.escalated
    /\ Stamped(copy) => Stamped(Stored(sub, copy))
  BY DEF Stored, Records, Stamped

\* Time keeps stamps set or unset, and state as it is.
LEMMA AgedFacts ==
  \A sub \in Records :
    /\ Aged(sub) \in Records
    /\ Aged(sub).state = sub.state
    /\ Aged(sub).done = Older(sub.done)
    /\ Stamped(sub) => Stamped(Aged(sub))
<1> SUFFICES ASSUME NEW sub \in Records
             PROVE  /\ Aged(sub) \in Records
                    /\ Aged(sub).state = sub.state
                    /\ Aged(sub).done = Older(sub.done)
                    /\ Stamped(sub) => Stamped(Aged(sub))
  BY Zenon
<1>1. /\ \A n \in Ages : Older(n) \in Ages
      /\ \A n \in Ages \cup {Never} : /\ Older(n) \in Ages \cup {Never}
                                      /\ Older(n) = Never <=> n = Never
      /\ \A n \in Int \cup {Never} : Nearer(n) \in Int \cup {Never}
  BY Bounds DEF Older, Nearer, Ages
<1>2. /\ Aged(sub).state = sub.state
      /\ Aged(sub).done = Older(sub.done)
      /\ Aged(sub).escalated = Older(sub.escalated)
      /\ Aged(sub).idle = Older(sub.idle)
      /\ Aged(sub).nudged = Older(sub.nudged)
      /\ Aged(sub).bind = Nearer(sub.bind)
  BY Zenon DEF Aged, Records
<1>3. Aged(sub) \in Records
  <2>1. /\ sub.idle \in Ages
        /\ sub.done \in Ages \cup {Never}
        /\ sub.escalated \in Ages \cup {Never}
        /\ sub.nudged \in Ages \cup {Never}
        /\ sub.bind \in Int \cup {Never}
    BY Zenon DEF Records
  <2>2. /\ Older(sub.idle) \in Ages
        /\ Older(sub.done) \in Ages \cup {Never}
        /\ Older(sub.escalated) \in Ages \cup {Never}
        /\ Older(sub.nudged) \in Ages \cup {Never}
        /\ Nearer(sub.bind) \in Int \cup {Never}
    BY Zenon, <1>1, <2>1
  <2> QED
    BY ZenonT(60), <2>2 DEF Aged, Records
<1>4. sub.done \in Ages \cup {Never} /\ sub.escalated \in Ages \cup {Never}
  BY Zenon DEF Records
<1> QED
  BY Zenon, <1>1, <1>2, <1>3, <1>4 DEF Stamped

\* A row that does not exist, and one just created, carry no stamps.
LEMMA NewFacts ==
  /\ Absent \in Records /\ Absent.state = "none" /\ Stamped(Absent)
  /\ NewSubmission \in Records /\ NewSubmission.state = "open"
  /\ Stamped(NewSubmission)
<1>1. Absent \in Records
  BY Zenon, Bounds DEF Absent, Records, States, Gaps
<1>2. NewSubmission \in Records
  BY Zenon, <1>1 DEF NewSubmission, Records, States
<1> QED
  BY Zenon, <1>1, <1>2 DEF Absent, NewSubmission, Stamped

-----------------------------------------------------------------------------
(* Steps.                                                                  *)

\* The types, without the enclosing definitions.
LEMMA Types ==
  TypeOK =>
    /\ \A s \in Subs : subs[s] \in Records
    /\ DOMAIN subs = Subs
    /\ poll.copy \in Records
    /\ esc.since \in Ages
    /\ \A c \in esc.list : c.sub \in Subs /\ c.copy \in Records
  BY Zenon, Bounds DEF TypeOK

\* Loading an email makes a copy that carries the stamps of the row.
LEMMA LoadStep ==
  ASSUME LifecycleInv, NEW s \in Subs, NEW kind \in Kinds \cup {"merged"},
         MailLoad(s, kind)
  PROVE  LifecycleInv'
<1> USE DEF LifecycleInv
<1> DEFINE found == IF subs[s].state = "none" THEN NewSubmission ELSE subs[s]
           copy == [found EXCEPT
                      !.idle = IF kind \in {"broker", "merged"} THEN 0 ELSE @,
                      !.failed = @ /\ kind \notin {"broker", "auto"}]
<1>1. subs[s] \in Records /\ Stamped(subs[s])
  BY Zenon, Types DEF StampsMatchState
<1>2. found \in Records /\ found.state \in States /\ Stamped(found)
  BY <1>1, NewFacts DEF Records, States
<1>3. subs[s].state = "complete" => found = subs[s]
  BY Zenon
<1>4. /\ copy \in Records
      /\ copy.state = found.state
      /\ copy.done = found.done
      /\ copy.escalated = found.escalated
  <2> HIDE DEF found
  <2>1. (found.failed /\ kind \notin {"broker", "auto"}) \in BOOLEAN
    BY Zenon
  <2> QED
    BY Zenon, <1>2, <2>1, Bounds DEF Records
<1>5. poll' = [pc |-> "loaded", sub |-> s, kind |-> kind, copy |-> copy]
  BY Zenon DEF MailLoad
<1>6. UNCHANGED <<subs, esc>>
  BY Zenon DEF MailLoad
<1> HIDE DEF copy, found
<1>7. Stamped(copy) /\ copy.state \in States
  BY Zenon, <1>2, <1>4 DEF Stamped
<1>8. TypeOK'
  BY Zenon, <1>4, <1>5, <1>6 DEF TypeOK
<1>9. PollCoherent'
  BY Zenon, <1>3, <1>4, <1>5, <1>6, <1>7 DEF PollCoherent
<1> QED
  BY Zenon, <1>6, <1>8, <1>9 DEF StampsMatchState, ListCoherent

\* What a step may do to a completion date.
DatesKept ==
  \A s \in Subs : subs[s].state = "complete" /\ subs'[s].state = "complete"
    => subs'[s].done >= subs[s].done

\* A write of one well-stamped record to the table.
LEMMA WriteStep ==
  ASSUME LifecycleInv, NEW s \in Subs, NEW new \in Records,
         new.state \in States, Stamped(new),
         subs' = [subs EXCEPT ![s] = new]
  PROVE  /\ subs' \in [Subs -> Records]
         /\ StampsMatchState'
         /\ subs'[s] = new
         /\ \A t \in Subs \ {s} : subs'[t] = subs[t]
<1>1. /\ subs' \in [Subs -> Records]
      /\ subs'[s] = new
      /\ \A t \in Subs \ {s} : subs'[t] = subs[t]
  BY Zenon DEF LifecycleInv, TypeOK
<1> QED BY Zenon, <1>1 DEF LifecycleInv, StampsMatchState

\* While a row is not written, or written without its completion date moving,
\* the date is kept.
LEMMA SameDates ==
  ASSUME LifecycleInv,
         \A s \in Subs : \/ subs'[s].state # "complete"
                         \/ subs'[s].done = subs[s].done
  PROVE  DatesKept
<1> SUFFICES ASSUME NEW s \in Subs, subs[s].state = "complete",
                    subs'[s].state = "complete"
             PROVE  subs'[s].done >= subs[s].done
  BY Zenon DEF DatesKept
<1>1. subs[s].done \in Ages
  BY Zenon, Types DEF LifecycleInv, StampsMatchState, Stamped, Records
<1> QED BY <1>1, Bounds DEF Ages

\* Matching and loading an email write nothing.
LEMMA ReadStep ==
  ASSUME LifecycleInv, NEW s \in Subs,
         \/ MailMatch(s)
         \/ \E kind \in Kinds \cup {"merged"} : MailLoad(s, kind)
  PROVE  LifecycleInv' /\ DatesKept
<1>1. CASE MailMatch(s)
  <2>1. /\ poll' = [pc |-> "matched", sub |-> s, kind |-> "merged", copy |-> Absent]
        /\ UNCHANGED <<subs, esc>>
    BY Zenon, <1>1 DEF MailMatch, NoMail
  <2>2. TypeOK'
    BY Zenon, <2>1, NewFacts DEF LifecycleInv, TypeOK
  <2>3. PollCoherent' /\ ListCoherent' /\ StampsMatchState'
    BY Zenon, <2>1 DEF LifecycleInv, PollCoherent, ListCoherent, StampsMatchState
  <2> QED BY Zenon, <2>1, <2>2, <2>3, SameDates DEF LifecycleInv
<1>2. CASE \E kind \in Kinds \cup {"merged"} : MailLoad(s, kind)
  <2>1. PICK kind \in Kinds \cup {"merged"} : MailLoad(s, kind)
    BY Zenon, <1>2
  <2>2. LifecycleInv'
    BY Zenon, <2>1, LoadStep
  <2>3. subs' = subs
    BY Zenon, <2>1 DEF MailLoad
  <2> QED BY Zenon, <2>2, <2>3, SameDates
<1> QED BY Zenon, <1>1, <1>2

\* The poller ends its email by writing a record that keeps a completion date.
LEMMA PollWriteStep ==
  ASSUME LifecycleInv, poll.pc = "loaded", NEW w \in Records,
         w.state \in States, Stamped(w),
         poll.copy.state = "complete" /\ w.state = "complete" =>
           w.done = poll.copy.done,
         subs' = [subs EXCEPT ![poll.sub] = w],
         poll' = NoMail, esc' = esc
  PROVE  LifecycleInv' /\ DatesKept
<1>1. PICK p \in Subs : p = poll.sub
  BY Zenon DEF LifecycleInv, PollCoherent
<1>2. /\ subs' \in [Subs -> Records]
      /\ StampsMatchState'
      /\ subs'[p] = w
      /\ \A t \in Subs \ {p} : subs'[t] = subs[t]
  BY Zenon, <1>1, WriteStep
<1>3. TypeOK'
  BY Zenon, <1>2, NewFacts DEF LifecycleInv, TypeOK, NoMail
<1>4. PollCoherent' /\ ListCoherent'
  BY Zenon DEF PollCoherent, NoMail, ListCoherent, LifecycleInv
<1>5. DatesKept
  <2> SUFFICES ASSUME NEW s \in Subs, subs[s].state = "complete",
                      subs'[s].state = "complete"
               PROVE  subs'[s].done >= subs[s].done
    BY Zenon DEF DatesKept
  <2>1. subs[s].done \in Ages
    BY Zenon, Types DEF LifecycleInv, StampsMatchState, Stamped, Records
  <2>2. subs'[s].done = subs[s].done
    BY Zenon, <1>1, <1>2 DEF LifecycleInv, PollCoherent
  <2> QED BY <2>1, <2>2, Bounds DEF Ages
<1> QED BY Zenon, <1>2, <1>3, <1>4, <1>5 DEF LifecycleInv

\* An email is recorded.
LEMMA CommitStep ==
  ASSUME LifecycleInv, NEW m \in Gaps, NEW id \in Identities, MailCommit(m, id)
  PROVE  LifecycleInv' /\ DatesKept
<1> DEFINE ev == Evaluated(m, id)
           mv == Moved(ev, StateFor(m), 0)
           new == Stored(subs[poll.sub], mv)
<1>1. /\ poll.pc = "loaded"
      /\ poll.copy \in Records /\ poll.copy.state \in States
      /\ Stamped(poll.copy)
      /\ poll.sub \in Subs
      /\ subs[poll.sub] \in Records
  BY Zenon, Types DEF LifecycleInv, PollCoherent, MailCommit
<1>2. /\ ev \in Records
      /\ ev.state = poll.copy.state /\ ev.done = poll.copy.done
      /\ ev.escalated = poll.copy.escalated
  <2>1. PICK bind \in Int \cup {Never}, named \in BOOLEAN :
          ev = [poll.copy EXCEPT !.missing = m, !.bind = bind, !.named = named]
    <3>1. id.bind \in Int \cup {Never}
      <4>1. PICK date \in BindDates \cup {Never} : date = id.bind
        BY Zenon DEF Identities
      <4>2. date \in Int \cup {Never}
        BY DatesAssumption
      <4> QED BY Zenon, <4>1, <4>2
    <3>2. poll.copy.bind \in Int \cup {Never} /\ poll.copy.named \in BOOLEAN
      BY Zenon, <1>1 DEF Records
    <3>3. PICK bind \in Int \cup {Never} :
            bind = IF poll.copy.named THEN poll.copy.bind ELSE id.bind
      BY Zenon, <3>1, <3>2
    <3>4. PICK named \in BOOLEAN : named = (poll.copy.named \/ id.named)
      BY Zenon
    <3>5. ev = [poll.copy EXCEPT !.missing = m, !.bind = bind, !.named = named]
      BY Zenon, <3>3, <3>4 DEF Evaluated
    <3> QED BY Zenon, <3>5
  <2> HIDE DEF ev
  <2> QED BY Zenon, <1>1, <2>1 DEF Records
<1>3. Stamped(ev)
  BY Zenon, <1>1, <1>2 DEF Stamped
<1>4. StateFor(m) \in States /\ CanMove(ev, StateFor(m))
  BY Zenon, <1>2 DEF MailCommit, StateFor, States, CanMove
<1> HIDE DEF ev
<1>5. /\ mv \in Records /\ mv.state = StateFor(m) /\ Stamped(mv)
      /\ ev.state = StateFor(m) => mv = ev
  BY Zenon, <1>1, <1>2, <1>3, <1>4, MovedFacts, Bounds
<1> HIDE DEF mv
<1>6. /\ new \in Records /\ new.state \in States /\ Stamped(new)
      /\ new.state = mv.state /\ new.done = mv.done
  BY Zenon, <1>1, <1>4, <1>5, StoredFacts
<1>7. subs' = [subs EXCEPT ![poll.sub] = new] /\ poll' = NoMail /\ esc' = esc
  BY Zenon DEF MailCommit, mv, ev
<1> HIDE DEF new
<1>8. poll.copy.state = "complete" /\ new.state = "complete" =>
        new.done = poll.copy.done
  BY Zenon, <1>2, <1>5, <1>6
<1> QED BY Zenon, <1>1, <1>6, <1>7, <1>8, PollWriteStep

\* A bounce is recorded on the row as it was read.
LEMMA BounceStep ==
  ASSUME LifecycleInv, BounceCommit
  PROVE  LifecycleInv' /\ DatesKept
<1> DEFINE failed == poll.copy.failed \/ poll.kind = "bounce"
           copy == [poll.copy EXCEPT !.failed = failed]
           new == Stored(subs[poll.sub], copy)
<1>1. /\ poll.pc = "loaded"
      /\ poll.copy \in Records /\ poll.copy.state \in States
      /\ Stamped(poll.copy)
      /\ poll.sub \in Subs
      /\ subs[poll.sub] \in Records
  BY Zenon, Types DEF LifecycleInv, PollCoherent, BounceCommit
<1>2. failed \in BOOLEAN
  BY Zenon
<1>3. subs' = [subs EXCEPT ![poll.sub] = new] /\ poll' = NoMail /\ esc' = esc
  BY Zenon DEF BounceCommit
<1> HIDE DEF failed
<1>4. /\ copy \in Records
      /\ copy.state = poll.copy.state
      /\ copy.done = poll.copy.done
      /\ copy.escalated = poll.copy.escalated
  BY Zenon, <1>1, <1>2 DEF Records
<1> HIDE DEF copy
<1>5. Stamped(copy)
  BY Zenon, <1>1, <1>4 DEF Stamped
<1>6. /\ new \in Records /\ new.state \in States /\ Stamped(new)
      /\ new.done = copy.done
  BY Zenon, <1>1, <1>4, <1>5, StoredFacts
<1> HIDE DEF new
<1> QED BY Zenon, <1>1, <1>3, <1>4, <1>6, PollWriteStep

\* The poller drops its email.
LEMMA DropStep ==
  ASSUME LifecycleInv, poll' = NoMail, UNCHANGED <<subs, esc>>
  PROVE  LifecycleInv' /\ DatesKept
<1>1. TypeOK'
  BY Zenon, NewFacts DEF LifecycleInv, TypeOK, NoMail
<1>2. StampsMatchState' /\ PollCoherent' /\ ListCoherent'
  BY Zenon DEF LifecycleInv, StampsMatchState, PollCoherent, ListCoherent, NoMail
<1> QED BY Zenon, <1>1, <1>2, SameDates DEF LifecycleInv

\* A hold is set or lifted.
LEMMA HoldStep ==
  ASSUME LifecycleInv, NEW s \in Subs, HoldToggle(s)
  PROVE  LifecycleInv' /\ DatesKept
<1>1. subs[s] \in Records /\ Stamped(subs[s]) /\ subs[s].state \in States
  BY Zenon, Types DEF LifecycleInv, StampsMatchState, HoldToggle, Records
<1>2. PICK hold \in BOOLEAN : subs' = [subs EXCEPT ![s].hold = hold]
  BY Zenon, <1>1 DEF HoldToggle, Records
<1> DEFINE new == [subs[s] EXCEPT !.hold = hold]
<1>3. /\ new \in Records
      /\ new.state = subs[s].state
      /\ new.done = subs[s].done
      /\ new.escalated = subs[s].escalated
  BY Zenon, <1>1 DEF Records
<1>4. subs' = [subs EXCEPT ![s] = new]
  BY Zenon, <1>2
<1> HIDE DEF new
<1>5. Stamped(new)
  BY Zenon, <1>1, <1>3 DEF Stamped
<1>6. /\ subs' \in [Subs -> Records]
      /\ StampsMatchState'
      /\ subs'[s] = new
      /\ \A t \in Subs \ {s} : subs'[t] = subs[t]
  BY Zenon, <1>1, <1>3, <1>4, <1>5, WriteStep
<1>7. poll.pc = "idle" /\ UNCHANGED <<poll, esc>>
  BY Zenon DEF HoldToggle
<1>8. TypeOK' /\ PollCoherent' /\ ListCoherent'
  BY Zenon, <1>6, <1>7 DEF LifecycleInv, TypeOK, PollCoherent, ListCoherent
<1>9. DatesKept
  BY Zenon, <1>3, <1>6, SameDates
<1> QED BY Zenon, <1>6, <1>8, <1>9 DEF LifecycleInv

\* The worker lists rows: its copies are rows of the table.
LEMMA ListStep ==
  ASSUME LifecycleInv, NEW pass \in DOMAIN Following \cup {"idle"}, List(pass),
         UNCHANGED <<subs, poll>>
  PROVE  LifecycleInv' /\ DatesKept
<1>1. Since(pass) \in 0 .. MaxLag
  BY Bounds DEF Since, LifecycleInv, TypeOK
<1>2. PICK R : /\ R \in Results(pass, Since(pass))
               /\ esc' = [esc EXCEPT !.pc = pass, !.since = Since(pass),
                            !.list = {[sub |-> s, copy |-> subs[s]] : s \in R},
                            !.handled = IF pass = "bind" THEN @ ELSE {}]
  BY Zenon DEF List
<1>3. \A s \in R : s \in Subs /\ Selected(pass, subs[s], Since(pass))
  BY Zenon, <1>2 DEF Results
<1>4. \A s \in R : /\ subs[s] \in Records
                   /\ subs[s].state \in States
                   /\ Stamped(subs[s])
  BY Zenon, <1>3, Types DEF LifecycleInv, StampsMatchState, Selected, States
<1> DEFINE list == {[sub |-> s, copy |-> subs[s]] : s \in R}
<1>5. /\ list \subseteq [sub : Subs, copy : Records]
      /\ \A c \in list : c.copy.state \in States /\ Stamped(c.copy)
  BY <1>3, <1>4
<1>6. /\ esc' \in [pc : {"idle"} \cup DOMAIN Following, since : 0 .. MaxLag,
                   list : SUBSET [sub : Subs, copy : Records],
                   handled : SUBSET Subs]
      /\ esc'.list = list
  <2>1. PICK handled \in SUBSET Subs :
          esc' = [esc EXCEPT !.pc = pass, !.since = Since(pass),
                    !.list = list, !.handled = handled]
    BY Zenon, <1>2 DEF LifecycleInv, TypeOK
  <2> HIDE DEF list
  <2> QED BY Zenon, <1>1, <1>5, <2>1 DEF LifecycleInv, TypeOK
<1> HIDE DEF list
<1>7. TypeOK' /\ StampsMatchState' /\ PollCoherent'
  BY Zenon, <1>6 DEF LifecycleInv, TypeOK, StampsMatchState, PollCoherent
<1>8. ListCoherent'
  BY Zenon, <1>5, <1>6 DEF ListCoherent
<1> QED BY Zenon, <1>7, <1>8, SameDates DEF LifecycleInv

\* The worker leaves the table alone and its list gets no longer.
LEMMA WalkStep ==
  ASSUME LifecycleInv, UNCHANGED <<subs, poll>>, esc'.list \subseteq esc.list,
         esc' \in [pc : {"idle"} \cup DOMAIN Following, since : 0 .. MaxLag,
                   list : SUBSET [sub : Subs, copy : Records],
                   handled : SUBSET Subs]
  PROVE  LifecycleInv' /\ DatesKept
<1>1. TypeOK' /\ StampsMatchState' /\ PollCoherent' /\ ListCoherent'
  BY Zenon DEF LifecycleInv, TypeOK, StampsMatchState, PollCoherent, ListCoherent
<1> QED BY Zenon, <1>1, SameDates DEF LifecycleInv

\* A query of the worker fails.
LEMMA CheckFailsStep ==
  ASSUME LifecycleInv, CheckFails
  PROVE  LifecycleInv' /\ DatesKept
<1>1. /\ UNCHANGED <<subs, poll>>
      /\ esc'.list \subseteq esc.list
      /\ esc' \in [pc : {"idle"} \cup DOMAIN Following, since : 0 .. MaxLag,
                   list : SUBSET [sub : Subs, copy : Records],
                   handled : SUBSET Subs]
  <2>1. /\ 0 \in 0 .. MaxLag
        /\ {"bind", "idle"} \subseteq {"idle"} \cup DOMAIN Following
    BY Bounds DEF Following
  <2>2. CASE esc.pc = "idle" /\ esc' = [esc EXCEPT !.pc = "bind", !.since = 0,
                                                   !.handled = {}]
    BY Zenon, <2>1, <2>2 DEF CheckFails, LifecycleInv, TypeOK
  <2>3. CASE esc' = [esc EXCEPT !.pc = "bind"]
    BY Zenon, <2>1, <2>3 DEF CheckFails, LifecycleInv, TypeOK
  <2>4. CASE esc' = NoCheck
    BY Zenon, <2>1, <2>4 DEF CheckFails, NoCheck
  <2> QED BY Zenon, <2>2, <2>3, <2>4 DEF CheckFails
<1> QED BY Zenon, <1>1, WalkStep

\* A copy is crossed off the worker's list.
LEMMA WalkedFacts ==
  ASSUME LifecycleInv, NEW c \in esc.list
  PROVE  /\ Walked(c).list \subseteq esc.list
         /\ Walked(c) \in [pc : {"idle"} \cup DOMAIN Following,
                           since : 0 .. MaxLag,
                           list : SUBSET [sub : Subs, copy : Records],
                           handled : SUBSET Subs]
  BY Zenon DEF Walked, LifecycleInv, TypeOK

\* The worker writes its copy back, escalated or closed: never complete, so
\* the email the poller has loaded is not older than a completion.
LEMMA EscalationWriteStep ==
  ASSUME LifecycleInv, NEW c \in esc.list, Write(c)
  PROVE  LifecycleInv' /\ DatesKept
<1> DEFINE moved == Moved(c.copy, Target, esc.since)
           nudged == IF esc.pc \in Nudging THEN esc.since ELSE moved.nudged
           copy == [moved EXCEPT !.nudged = nudged]
           new == Stored(subs[c.sub], copy)
<1>1. /\ c.sub \in Subs /\ c.copy \in Records /\ c.copy.state \in States
      /\ Stamped(c.copy)
      /\ subs[c.sub] \in Records
      /\ esc.since \in Ages
      /\ CanMove(c.copy, Target)
      /\ Target \in {"escalated", "closed"}
  BY Zenon, Types DEF LifecycleInv, ListCoherent, Write, Acts, Target
<1>2. /\ subs' = [subs EXCEPT ![c.sub] = new]
      /\ poll' = poll
      /\ esc' = [Walked(c) EXCEPT !.handled =
                   IF esc.pc = "quiet" THEN @ \cup {c.sub} ELSE @]
  BY Zenon DEF Write
<1>3. moved \in Records /\ moved.state = Target /\ Stamped(moved)
  BY <1>1, MovedFacts DEF States
<1> HIDE DEF moved
<1>4. nudged \in Ages \cup {Never}
  BY Zenon, <1>1, <1>3 DEF Records
<1> HIDE DEF nudged
<1>5. /\ copy \in Records
      /\ copy.state = moved.state
      /\ copy.done = moved.done
      /\ copy.escalated = moved.escalated
  BY Zenon, <1>3, <1>4 DEF Records
<1> HIDE DEF copy
<1>6. Stamped(copy)
  BY Zenon, <1>3, <1>5 DEF Stamped
<1>7. /\ new \in Records /\ new.state \in {"escalated", "closed"}
      /\ Stamped(new)
  BY Zenon, <1>1, <1>3, <1>5, <1>6, StoredFacts
<1> HIDE DEF new
<1>8. /\ subs' \in [Subs -> Records]
      /\ StampsMatchState'
      /\ subs'[c.sub] = new
      /\ \A t \in Subs \ {c.sub} : subs'[t] = subs[t]
  <2>1. PICK p \in Subs, w \in Records : p = c.sub /\ w = new
    BY Zenon, <1>1, <1>7
  <2>2. w.state \in States /\ Stamped(w) /\ subs' = [subs EXCEPT ![p] = w]
    BY Zenon, <1>2, <1>7, <2>1 DEF States
  <2>3. /\ subs' \in [Subs -> Records]
        /\ StampsMatchState'
        /\ subs'[p] = w
        /\ \A t \in Subs \ {p} : subs'[t] = subs[t]
    BY Zenon, <2>2, WriteStep
  <2> QED BY Zenon, <2>1, <2>3
<1>9. /\ esc'.list \subseteq esc.list
      /\ esc' \in [pc : {"idle"} \cup DOMAIN Following, since : 0 .. MaxLag,
                   list : SUBSET [sub : Subs, copy : Records],
                   handled : SUBSET Subs]
  BY <1>1, <1>2, WalkedFacts
<1>10. TypeOK' /\ ListCoherent'
  BY Zenon, <1>2, <1>8, <1>9 DEF LifecycleInv, TypeOK, ListCoherent
<1>11. PollCoherent'
  BY Zenon, <1>2, <1>7, <1>8 DEF LifecycleInv, PollCoherent
<1>12. DatesKept
  BY Zenon, <1>7, <1>8, SameDates
<1> QED BY Zenon, <1>8, <1>10, <1>11, <1>12 DEF LifecycleInv

\* Ages grow, and none of them becomes set or unset.
LEMMA OlderFacts ==
  /\ \A n \in Ages : Older(n) \in Ages /\ Older(n) >= n
  /\ \A n \in Ages \cup {Never} : Older(n) = Never <=> n = Never
  BY Bounds DEF Older, Ages

\* Time passes for the rows, and alike for the copies of them.
LEMMA TickStep ==
  ASSUME LifecycleInv, Tick
  PROVE  LifecycleInv' /\ DatesKept
<1>1. /\ \A s \in Subs : subs[s] \in Records /\ Stamped(subs[s])
      /\ poll.copy \in Records
      /\ \A c \in esc.list : /\ c \in [sub : Subs, copy : Records]
                             /\ c.copy.state \in States
                             /\ Stamped(c.copy)
  BY Zenon, Types DEF LifecycleInv, TypeOK, StampsMatchState, ListCoherent
<1>2. \A s \in Subs : /\ subs'[s] \in Records
                      /\ Stamped(subs'[s])
                      /\ subs'[s].state = subs[s].state
                      /\ subs[s].state # "none" =>
                           subs'[s].done = Older(subs[s].done)
  <2> SUFFICES ASSUME NEW s \in Subs
               PROVE  /\ subs'[s] \in Records
                      /\ Stamped(subs'[s])
                      /\ subs'[s].state = subs[s].state
                      /\ subs[s].state # "none" =>
                           subs'[s].done = Older(subs[s].done)
    BY Zenon
  <2>1. subs'[s] = IF subs[s].state = "none" THEN Absent ELSE Aged(subs[s])
    BY Zenon DEF Tick
  <2>2. CASE subs[s].state = "none"
    BY Zenon, <2>1, <2>2, NewFacts
  <2>3. CASE subs[s].state # "none"
    BY Zenon, <1>1, <2>1, <2>3, AgedFacts
  <2> QED BY Zenon, <2>2, <2>3
<1>3. subs' \in [Subs -> Records]
  <2>1. subs' = [s \in Subs |-> subs'[s]]
    BY Zenon DEF Tick
  <2> QED BY Zenon, <1>2, <2>1
<1>4. /\ poll' \in [pc : {"idle", "matched", "loaded"}, sub : Subs \cup {Never},
                    kind : Kinds \cup {"merged", Never}, copy : Records]
      /\ poll'.pc = poll.pc /\ poll'.sub = poll.sub /\ poll'.kind = poll.kind
      /\ poll.pc = "loaded" => poll'.copy = Aged(poll.copy)
  <2>1. Aged(poll.copy) \in Records
    BY Zenon, <1>1, AgedFacts
  <2>2. CASE poll.pc # "loaded"
    BY Zenon, <2>2 DEF Tick, LifecycleInv, TypeOK
  <2>3. CASE poll.pc = "loaded"
    <3>1. PICK copy \in Records : /\ copy = Aged(poll.copy)
                                  /\ poll' = [poll EXCEPT !.copy = copy]
      BY Zenon, <2>1, <2>3 DEF Tick
    <3> QED BY Zenon, <3>1 DEF LifecycleInv, TypeOK
  <2> QED BY Zenon, <2>2, <2>3
<1>5. /\ esc' \in [pc : {"idle"} \cup DOMAIN Following, since : 0 .. MaxLag,
                   list : SUBSET [sub : Subs, copy : Records],
                   handled : SUBSET Subs]
      /\ \A c \in esc'.list : c.copy.state \in States /\ Stamped(c.copy)
  <2>1. CASE esc.pc = "idle"
    BY Zenon, <1>1, <2>1 DEF Tick, LifecycleInv, TypeOK
  <2>2. CASE esc.pc # "idle"
    <3> DEFINE list == {[c EXCEPT !.copy = Aged(c.copy)] : c \in esc.list}
    <3>1. ASSUME NEW c \in esc.list
          PROVE  LET d == [c EXCEPT !.copy = Aged(c.copy)]
                 IN  /\ d \in [sub : Subs, copy : Records]
                     /\ d.copy.state \in States
                     /\ Stamped(d.copy)
      <4>1. PICK copy \in Records : /\ copy = Aged(c.copy)
                                    /\ copy.state \in States
                                    /\ Stamped(copy)
        BY Zenon, <1>1, <3>1, AgedFacts
      <4>2. c \in [sub : Subs, copy : Records]
        BY Zenon, <1>1
      <4>3. /\ [c EXCEPT !.copy = copy] \in [sub : Subs, copy : Records]
            /\ [c EXCEPT !.copy = copy].copy = copy
        BY Zenon, <4>2
      <4> QED BY Zenon, <4>1, <4>3
    <3>2. /\ list \in SUBSET [sub : Subs, copy : Records]
          /\ \A d \in list : d.copy.state \in States /\ Stamped(d.copy)
      BY Zenon, <3>1
    <3>3. esc.since + 1 \in 0 .. MaxLag
      BY <2>2, Bounds DEF Tick, LifecycleInv, TypeOK
    <3>4. esc' = [esc EXCEPT !.since = esc.since + 1, !.list = list]
      BY Zenon, <2>2 DEF Tick
    <3> HIDE DEF list
    <3> QED BY Zenon, <3>2, <3>3, <3>4 DEF LifecycleInv, TypeOK
  <2> QED BY Zenon, <2>1, <2>2
<1>6. TypeOK' /\ StampsMatchState' /\ ListCoherent'
  BY Zenon, <1>2, <1>3, <1>4, <1>5 DEF TypeOK, StampsMatchState, ListCoherent
<1>7. PollCoherent'
  <2> SUFFICES ASSUME poll.pc = "loaded"
               PROVE  /\ poll'.sub \in Subs
                      /\ poll'.kind \in Kinds \cup {"merged"}
                      /\ poll'.copy.state \in States
                      /\ Stamped(poll'.copy)
                      /\ subs'[poll'.sub].state = "complete" =>
                           /\ poll'.copy.state = "complete"
                           /\ poll'.copy.done = subs'[poll'.sub].done
    BY Zenon, <1>4 DEF PollCoherent
  <2>1. /\ poll.sub \in Subs /\ poll.kind \in Kinds \cup {"merged"}
        /\ poll.copy.state \in States /\ Stamped(poll.copy)
        /\ subs[poll.sub].state = "complete" =>
             /\ poll.copy.state = "complete"
             /\ poll.copy.done = subs[poll.sub].done
    BY Zenon DEF LifecycleInv, PollCoherent
  <2>2. /\ poll'.copy.state = poll.copy.state
        /\ poll'.copy.done = Older(poll.copy.done)
        /\ Stamped(poll'.copy)
    BY Zenon, <1>1, <1>4, <2>1, AgedFacts
  <2> QED BY Zenon, <1>2, <1>4, <2>1, <2>2
<1>8. DatesKept
  <2> SUFFICES ASSUME NEW s \in Subs, subs[s].state = "complete"
               PROVE  subs'[s].done >= subs[s].done
    BY Zenon DEF DatesKept
  <2>1. subs[s].done \in Ages
    BY Zenon, <1>1 DEF Stamped, Records
  <2> QED BY Zenon, <1>2, <2>1, OlderFacts
<1> QED BY Zenon, <1>6, <1>7, <1>8 DEF LifecycleInv

\* A restart forgets the email and the check.
LEMMA CrashStep ==
  ASSUME LifecycleInv, Crash
  PROVE  LifecycleInv' /\ DatesKept
<1>1. TypeOK'
  BY NewFacts, Bounds DEF LifecycleInv, TypeOK, Crash, NoMail, NoCheck
<1>2. StampsMatchState' /\ PollCoherent' /\ ListCoherent'
  BY Zenon DEF LifecycleInv, StampsMatchState, PollCoherent, ListCoherent, Crash,
         NoMail, NoCheck
<1>3. DatesKept
  BY Zenon, SameDates DEF Crash
<1> QED BY Zenon, <1>1, <1>2, <1>3 DEF LifecycleInv

-----------------------------------------------------------------------------
(* The theorems.                                                           *)

\* The invariant holds in the empty database.
LEMMA InitOK == Init => LifecycleInv
<1> SUFFICES ASSUME Init PROVE LifecycleInv
  BY Zenon
<1>1. TypeOK
  BY NewFacts, Bounds DEF Init, TypeOK, NoMail, NoCheck
<1>2. StampsMatchState
  BY Zenon, NewFacts DEF Init, StampsMatchState
<1>3. PollCoherent /\ ListCoherent
  BY Zenon DEF Init, PollCoherent, ListCoherent, NoMail, NoCheck
<1> QED BY Zenon, <1>1, <1>2, <1>3 DEF LifecycleInv

\* Every step keeps the invariant and the completion dates.
LEMMA NextOK ==
  ASSUME LifecycleInv, [Next]_vars
  PROVE  LifecycleInv' /\ DatesKept
<1>1. CASE Mail(Kinds)
  <2>1. PICK s \in Subs : \/ MailMatch(s)
                          \/ \E kind \in Kinds : MailLoad(s, kind)
    BY Zenon, <1>1 DEF Mail
  <2> QED BY Zenon, <2>1, ReadStep
<1>2. CASE Poller
  <2>1. CASE \E s \in Subs : MailLoad(s, "merged")
    BY Zenon, <2>1, ReadStep
  <2>2. CASE \E m \in Gaps, id \in Identities : MailCommit(m, id)
    BY Zenon, <2>2, CommitStep
  <2> QED BY Zenon, <1>2, <2>1, <2>2, BounceStep DEF Poller
<1>3. CASE CheckBegin
  BY Zenon, <1>3, ListStep DEF CheckBegin, Following
<1>4. CASE CheckAdvance
  <2>1. PICK pass \in DOMAIN Following \cup {"idle"} :
          List(pass) /\ UNCHANGED <<subs, poll>>
    BY <1>4 DEF CheckAdvance, Following, LifecycleInv, TypeOK
  <2> QED BY Zenon, <2>1, ListStep
<1>5. ASSUME NEW c \in esc.list, Write(c)
      PROVE  LifecycleInv' /\ DatesKept
  BY Zenon, <1>5, EscalationWriteStep
<1>6. ASSUME NEW c \in esc.list, WriteFails(c) \/ Skip(c)
      PROVE  LifecycleInv' /\ DatesKept
  <2>1. esc' = Walked(c) /\ UNCHANGED <<subs, poll>>
    BY Zenon, <1>6 DEF WriteFails, Skip
  <2> QED BY Zenon, <2>1, WalkedFacts, WalkStep
<1>7. CASE MailFails
  BY Zenon, <1>7, DropStep DEF MailFails
<1>8. CASE CheckFails
  BY Zenon, <1>8, CheckFailsStep
<1>9. CASE \E s \in Subs : HoldToggle(s)
  BY Zenon, <1>9, HoldStep
<1>10. CASE Crash
  BY Zenon, <1>10, CrashStep
<1>11. CASE Tick
  BY Zenon, <1>11, TickStep
<1>12. CASE UNCHANGED vars
  <2>1. UNCHANGED <<subs, poll, esc>>
    BY Zenon, <1>12 DEF vars
  <2>2. LifecycleInv'
    BY Zenon, <2>1 DEF LifecycleInv, TypeOK, StampsMatchState, PollCoherent,
                ListCoherent
  <2>3. DatesKept
    BY Zenon, <2>1, SameDates
  <2> QED BY Zenon, <2>2, <2>3
<1> QED BY Zenon, <1>1, <1>2, <1>3, <1>4, <1>5, <1>6, <1>7, <1>8, <1>9, <1>10, <1>11,
           <1>12 DEF Next, Check, Fault

\* LifecycleInv holds throughout: rows, and the copies the poller and the
\* escalation worker make of them, carry the stamps of their state.
THEOREM LifecycleInvariant == Spec => []LifecycleInv
<1>1. Init => LifecycleInv
  BY Zenon, InitOK
<1>2. LifecycleInv /\ [Next]_vars => LifecycleInv'
  BY Zenon, NextOK
<1> QED BY <1>1, <1>2, PTL DEF Spec

\* Whatever the poller and the escalation worker overwrite, the sweep that has
\* to close a submission sees it, and no other closes it on an old stamp.
THEOREM StampsCorrect == Spec => []StampsMatchState
<1>1. LifecycleInv => StampsMatchState
  BY Zenon DEF LifecycleInv
<1> QED BY <1>1, LifecycleInvariant, PTL

\* TransitionTo never refuses an email: the table allows awaiting and complete
\* from every state a copy can be in.
THEOREM MailFits == Spec => []MailAlwaysFits
<1>1. LifecycleInv => MailAlwaysFits
  BY DEF LifecycleInv, PollCoherent, MailAlwaysFits, CanMove, Allowed,
         StateFor, States, Gaps
<1> QED BY <1>1, LifecycleInvariant, PTL

\* No write moves the completion date of a submission that stays complete
\* forward, so mail cannot defer its closing.
THEOREM CompletionKept == Spec => CompletionDateKept
<1>1. LifecycleInv /\ [Next]_vars =>
        [\A s \in Subs : subs[s].state = "complete" /\ subs'[s].state = "complete"
           => subs'[s].done >= subs[s].done]_vars
  BY Zenon, NextOK DEF DatesKept
<1> QED BY <1>1, LifecycleInvariant, PTL DEF Spec, CompletionDateKept

=============================================================================
