------------------------------ MODULE MCIngest ------------------------------
(***************************************************************************)
(* Ingest for TLC: two lines of business with an application and loss runs *)
(* each, two brokers, and the messages of the runs.                        *)
(***************************************************************************)
EXTENDS Ingest

CONSTANTS MaxExtras, Batches

VARIABLE extras   \* what went wrong, and the lists of the worker, so far

mcvars == <<vars, extras>>

Extra == extras < MaxExtras /\ extras' = extras + 1

\* One of several sets of messages arrives.
MCInit == Init /\ unread \in Batches /\ extras = 0

\* A message left unread, a failure, a dead letter, a crash and a list of the
\* worker take from one budget.
MCNext ==
  \/ \E m \in unread : Starts(m) /\ UNCHANGED extras
  \/ \E j \in job : /\ Continues(j)
                    /\ IF j.pc = "flush" /\ j.mail \in unread' THEN Extra ELSE UNCHANGED extras
  \/ \E j \in job : Fails(j) /\ Extra
  \/ \E r \in replies : (SendReply(r) \/ RecordReply(r)) /\ UNCHANGED extras
  \/ \E r \in replies : DeadLetter(r) /\ Extra
  \/ \E s \in Stored : List({s}) /\ Extra
  \/ \E c \in listed : (escalate(c) \/ closeQuiet(c)) /\ UNCHANGED extras
  \/ job # {} /\ Crash /\ Extra

MCSpec == MCInit /\ [][MCNext]_mcvars

-----------------------------------------------------------------------------
(* The constants.                                                          *)

Checklists == [cgl |-> {"application", "losses"}, bop |-> {"application", "losses", "schedule"}]

File(item, quality, field, insured) ==
  [item |-> item, quality |-> quality, field |-> field, insured |-> insured]

Message(m) ==
  [mid |-> Inbound(m), irt |-> NoId, refs |-> {}, from |-> "b1", kind |-> "broker",
   subject |-> Unknown, body |-> Unknown, atts |-> {}, mentions |-> FALSE]

Form(name) == File("application", "good", "null", name)

Losses(quality, field) == File("losses", quality, field, NoName)

\* 1 opens an account; 2 is a second email about it with no headers, classified
\* for the other line; 3 is another broker's answer to 1, perhaps ingested
\* before it, that also cites 2; 4 is a hard bounce of our reply to 1.  5 names
\* no line, 6 answers it and names none either, 7 answers our reply to 5, cites
\* 1 and names one, 8 is an automatic answer to our reply to 6, and 9 asks
\* after 1 without attachments.
Letters ==
  <<[Message(1) EXCEPT !.subject = "cgl", !.atts = {Form("acme")}],
    [Message(2) EXCEPT !.body = "bop",
                       !.atts = {Form("acme"), Losses("good", "fails")}],
    [Message(3) EXCEPT !.from = "b2", !.irt = Inbound(1), !.refs = {Inbound(2)},
                       !.body = "cgl",
                       !.atts = {Form("acme"), Losses("good", "meets")}],
    [Message(4) EXCEPT !.irt = Outbound(1, 1), !.kind = "bounce"],
    [Message(5) EXCEPT !.from = "b2", !.mentions = TRUE],
    [Message(6) EXCEPT !.from = "b2", !.irt = Inbound(5), !.atts = {Form("acme")}],
    [Message(7) EXCEPT !.from = "b2", !.irt = Outbound(5, 5), !.refs = {Inbound(1)},
                       !.body = "cgl", !.atts = {Losses("unreadable", "null")}],
    [Message(8) EXCEPT !.from = "b2", !.irt = Outbound(6, 6), !.kind = "auto"],
    [Message(9) EXCEPT !.irt = Inbound(1)]>>

=============================================================================
