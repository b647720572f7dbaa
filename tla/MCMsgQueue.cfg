SPECIFICATION Spec
CONSTANTS
  Size = 2
  Producers = {main, server, listen}
  Messages = {m1, m2}
  NoMessage = NoMessage
  Torn = Torn
  NoThread = NoThread
INVARIANTS
  NoOverwrite
PROPERTIES
  FifoSpec
