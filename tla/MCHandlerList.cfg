CONSTANTS
  Vectors = {timer, keyboard}
  Handlers = {h1, h2, h3}
  NULL = NULL
SPECIFICATION Spec
INVARIANTS
  HandlersFound
