\* Five messages are three times down and twice up: enough to reach the
\* threshold of the code, inside a window of three ticks and across its edge.
\* The backoff goes 1, 2, 4 and stays, as it goes 1, 2, ..., 32 in the code.
SPECIFICATION ListenerSpec
CONSTANTS
  NoAddr = NoAddr
  Nodes <- OneNode
  Window = 3
  Threshold = 3
  FirstBackoff = 1
  BackoffLimit = 3
  MaxTime = 4
  MaxMessages = 5
INVARIANTS
  ListenerTypeOK
  FlappingExactly
PROPERTIES
  ListenerStops
  Reconnects
