SPECIFICATION MCSpec
CONSTANTS
  Hook = {h1, h2}
  Change = {c1, c2}
  Wants <- OneWantsLess
  Drain = {p, q}
  Backoff <- OneRetry
  AutoDisableAfter = 1
  Limit = 2
  Overdue = 1
  MaxCrashes = 2
  None = None
  Scenes = {"one delivery", "one drain"}
PROPERTIES
  ImplementsOutbox
