\* A hard bounce, and the broker's next message.
SPECIFICATION MCSpec
CONSTANTS
  Mails = {1, 2, 3, 4, 5, 6, 7, 8, 9}
  Traffic <- Letters
  Required <- Checklists
  FieldItems = {"losses"}
  Applications = {"application"}
  Unknown = "unknown"
  NoItem = "no item"
  NoName = "no name"
  MaxAsks = 2
  MaxExtras = 0
  Batches = {{1, 4, 9}}
PROPERTY BounceLetsOneThrough
\* The messages run out.
CHECK_DEADLOCK FALSE
