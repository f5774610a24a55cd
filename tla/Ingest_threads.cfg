\* Four sets of four messages in any order, redelivered and reordered.
SPECIFICATION MCSpec
CONSTANTS
  Mails = {1, 2, 3, 4, 5, 6, 7, 8, 9}
  Traffic <- Letters
  Required <- Checklists
  FieldItems = {"losses"}
  Applications = {"application"}
  Unknown = "unknown"
  NoItem = "no item"
  NoName = "no name"
  MaxAsks = 2
  MaxExtras = 1
  Batches = {{1, 2, 3, 4}, {1, 5, 6, 7}, {5, 6, 7, 8}, {1, 2, 4, 9}}
INVARIANTS
  IngestInv
  MissingMatchesDocuments
  SplitIsAudited
  ClarifiedOnce
PROPERTY OnlyRelatedMail
\* The messages run out.
CHECK_DEADLOCK FALSE
