\* Two publishers of two events and one, two streams, room for one event: a second
\* event overflows, and a publisher can meet a subscribe or an unsubscribe of
\* either stream at any point of its range.
SPECIFICATION Spec
CONSTANTS
  p1 = p1
  p2 = p2
  s1 = s1
  s2 = s2
  NoStream = NoStream
  Publishers <- MCPublishers
  Streams <- MCStreams
  Cap = 1
  MaxEvents <- MCMaxEvents
INVARIANTS
  TypeOK
  NeverSendOnClosed
PROPERTIES
  ImplementsFanout
  PublishReturns
  GoneStreamEnds
