SPECIFICATION MCSpec
CONSTANTS
  Hook = {h1}
  Change = {c1, c2}
  Wants <- Everything
  Drain = {p, q}
  Backoff <- OneRetry
  AutoDisableAfter = 2
  Limit = 2
  Overdue = 0
  MaxCrashes = 1
  None = None
  Scenes = {"overlap"}
SYMMETRY Symmetric
INVARIANTS
  WebhookTypeOK
  RecordsAreTrue
  SwitchedOffRightly
PROPERTIES
  NothingComesBack
