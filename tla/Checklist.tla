----------------------------- MODULE Checklist ------------------------------
(***************************************************************************)
(* The checklist of one line of business (internal/model/checklist.go):    *)
(* which required items a set of classified documents leaves open,         *)
(* and why; whom each gap concerns; what a reply about them is known by.   *)
(***************************************************************************)
CONSTANTS
  Required,     \* the items each line of business requires
  FieldItems,   \* the items with a RequiresField
  Unknown       \* PolicyTypeUnknown

Lines == DOMAIN Required

\* Whether the classifier was sure and the document could be read; a password
\* keeps a document from being read, which is told apart from a scan.
Qualities == {"good", "weak", "unreadable", "encrypted"}

\* What stands in extracted_fields: nothing (the extraction did not run), a
\* value that fails the rule of the item, or one that meets it.
Fields == {"unrun", "fails", "meets"}

Codes == {"not_provided", "low_confidence", "unreadable", "field_shortfall",
          "encrypted", "missing_attachment", "policy_unknown"}

PolicyUnknownItem == <<"policy_unknown", "policy_unknown">>

\* The bucket of one item: what its documents are, and for those that qualify
\* what became of the field.
itemDocs(docs, item) ==
  LET of == {d \in docs : d.item = item}
  IN [qualities |-> {d.quality : d \in of},
      qualifying |-> {d.field : d \in {e \in of : e.quality = "good"}}]

\* The most specific cause first.
unsatisfiedItem(b) ==
  IF "encrypted" \in b.qualities THEN "encrypted"
  ELSE IF "unreadable" \in b.qualities THEN "unreadable"
  ELSE IF "weak" \in b.qualities THEN "low_confidence"
  ELSE "not_provided"

\* "a soft-pass (extraction not run) must not mask another document's concrete
\* failure"
Satisfied(item, b) ==
  /\ b.qualifying # {}
  /\ item \in FieldItems => "meets" \in b.qualifying \/ b.qualifying = {"unrun"}

EvaluateChecklist(docs, line) ==
  LET code(b) == IF b.qualifying = {} THEN unsatisfiedItem(b) ELSE "field_shortfall"
  IN {<<item, code(itemDocs(docs, item))>> :
        item \in {i \in Required[line] : ~Satisfied(i, itemDocs(docs, i))}}

RequiresReview(missing) ==
  \E g \in missing : g[2] \in {"unreadable", "low_confidence"}

BrokerActionable(missing) ==
  {g \in missing : g[2] \in {"not_provided", "field_shortfall", "encrypted",
                             "missing_attachment", "policy_unknown"}}

\* The kind of a reply and the items it names: sha256 without collisions.
ReplyFingerprint(kind, items) == <<kind, items>>

=============================================================================
