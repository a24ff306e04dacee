\* A seed of one key, the default, of two or of three, in pipelines of two, or a flush
\* of three keys; every command may be sent twice, and other clients, who may be
\* other requests, change a key, or a node is elected, twice.
SPECIFICATION Spec
CONSTANTS
  Together = {{"seed"}, {"flush"}}
  Batch = 2
  DefaultCount = 1
  Limit = 3
  Asked <- MCAsked
  MaxSends = 2
  MaxEvents = 2
INVARIANTS
  TypeOK
  SeedIsWritten
  SeededExpire
  DeletedAreCounted
  FlushLeavesNone
