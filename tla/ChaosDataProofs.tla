-------------------------- MODULE ChaosDataProofs ---------------------------
(***************************************************************************)
(* Proofs about ChaosData, for any limit, any size of a pipeline, any      *)
(* number of resends, of changes by other clients and of elections.        *)
(***************************************************************************)
EXTENDS ChaosData, FiniteSetTheorems, TLAPS

-----------------------------------------------------------------------------
(* Seed's pipelines.                                                       *)

\* Before a pipeline is sent nothing of it is executed, and no more than there is after.
NothingAhead ==
  /\ seed.pc \in {"handler", "queue"} => seed.sends = 0
  /\ seed.pc # "end" /\ seed.sends = 0 => seed.done = 0 /\ ~seed.refused
  /\ seed.pc # "end" => seed.done <= Commands /\ seed.status = "none"
  /\ seed.pc = "handler" => seed.created = 0

\* While keys are queued, those in the pipeline are what is left over from full ones; it
\* is sent when it is full, or with the last key.
PipelinesAreFull ==
  /\ seed.pc = "queue" /\ seed.created # seed.count => Pending = seed.created % Batch
  /\ seed.pc = "exec" =>
       \/ seed.created % Batch = 0 \/ seed.created = seed.count
       \/ "seed" \in gone /\ seed.sends = 0

\* The server has executed the write of k in the current pipeline, or the EXPIRE after it.
Sent(k) ==
  IF seed.ttl THEN 2 * (k - seed.flushed - 1) < seed.done ELSE k - seed.flushed - 1 < seed.done
ExpireSent(k) == 2 * (k - seed.flushed) <= seed.done

\* Keys of earlier pipelines are written; those of the current one in its order, unless
\* a command was refused.
WrittenInOrder ==
  /\ \A k \in 1..seed.flushed : written[k] > 0
  /\ \A k \in seed.flushed + 1..seed.created : Sent(k) /\ ~seed.refused => written[k] > 0
  /\ ~seed.resent => \A k \in Keys : written[k] <= 1
  /\ ~seed.resent /\ seed.pc # "end" =>
       \A k \in Keys : k > seed.flushed /\ ~Sent(k) => written[k] = 0

\* So are the expiries, and only another client or an election takes one away.
ExpiringInOrder ==
  seed.ttl => \A k \in 1..seed.created :
    (k <= seed.flushed \/ (ExpireSent(k) /\ ~seed.refused)) => k \in foreign \/ key[k] # "lasting"

SeedInv == NothingAhead /\ PipelinesAreFull
WriteInv == WrittenInOrder /\ ExpiringInOrder /\ SeedIsWritten /\ SeededExpire

-----------------------------------------------------------------------------
(* Flush's batches.                                                        *)

\* Every reply that came was added.
RepliesAreCounted == flush.deleted <= removed /\ (~flush.lost => flush.deleted = removed)

\* A key that stayed is in the batch, or SCAN owes it, and the last batch is returned
\* when it owes none.
StayedIsComing ==
  /\ flush.pc = "scan" /\ ~flush.spoilt => stayed \subseteq flush.due
  /\ flush.pc = "del" /\ ~flush.spoilt => stayed \subseteq flush.due \cup flush.batch
  /\ flush.pc = "del" /\ flush.last => flush.due = {}
  /\ flush.pc # "end" => flush.status = "none"

FlushInv == RepliesAreCounted /\ StayedIsComing /\ FlushLeavesNone
-----------------------------------------------------------------------------
(* Lemmas about the steps.                                                 *)

\* Each disjunct of Next, one name for each action.
LEMMA NextCases ==
  ASSUME Next
  PROVE  \/ SeedRequest \/ QueueKey \/ Close \/ Send \/ Execute \/ Executed \/ SeedBreaks
         \/ FlushRequest \/ Scan \/ ScanFails \/ FlushCancelled
         \/ Delete \/ DeleteFails
         \/ \E k \in Keys : OtherClient(k) \/ Expires(k)
         \/ Elect
         \/ \E r \in {"seed", "flush"} : ClientGone(r)
         \/ UNCHANGED vars
BY DEF Next, Quiescent

LEMMA Division ==
  ASSUME NEW b \in Nat \ {0}, NEW c \in Nat
  PROVE  c % b \in 0..b - 1 /\ c \div b \in Int /\ c = b * (c \div b) + (c % b)
OBVIOUS

LEMMA Multiple ==
  ASSUME NEW b \in Nat \ {0}, NEW d \in Int, d >= 1
  PROVE  b * d >= b
OBVIOUS

\* One more key is one more in the pipeline, until it is full.
LEMMA OneMore ==
  ASSUME NEW b \in Nat \ {0}, NEW c \in Nat, (c + 1) % b # 0
  PROVE  (c + 1) % b = (c % b) + 1
<1> DEFINE q1 == c \div b
           r1 == c % b
           q2 == (c + 1) \div b
           r2 == (c + 1) % b
<1>1. q1 \in Int /\ r1 \in 0..b - 1 /\ c = b * q1 + r1
  BY Division
<1>2. q2 \in Int /\ r2 \in 0..b - 1 /\ c + 1 = b * q2 + r2
  BY Division
<1>3. r2 # 0
  OBVIOUS
<1> HIDE DEF q1, r1, q2, r2
<1>4. b * (q2 - q1) = r1 + 1 - r2
  BY <1>1, <1>2
<1>5. ~(q2 - q1 >= 1)
  <2>1. q2 - q1 >= 1 => b * (q2 - q1) >= b
    BY <1>1, <1>2, Multiple
  <2> QED
    BY <1>1, <1>2, <1>3, <1>4, <2>1
<1>6. ~(q1 - q2 >= 1)
  <2>1. q1 - q2 >= 1 => b * (q1 - q2) >= b
    BY <1>1, <1>2, Multiple
  <2>2. b * (q1 - q2) = r2 - r1 - 1
    BY <1>1, <1>2, <1>4
  <2> QED
    BY <1>1, <1>2, <2>1, <2>2
<1>7. q2 = q1
  BY <1>1, <1>2, <1>5, <1>6
<1> QED
  BY <1>1, <1>2, <1>7 DEF r1, r2

LEMMA KeysAreFinite == ASSUME NEW keys \in SUBSET Keys PROVE Cardinality(keys) \in Nat
<1>1. IsFiniteSet(Keys)
  BY LimitAssumption, FS_Interval DEF Keys
<1> QED
  BY <1>1, FS_Subset, FS_CardinalityType

\* What becomes of the keys.
LEMMA BecomeType ==
  ASSUME TypeOK, NEW states \in [Keys -> States], Become(states)
  PROVE  /\ key' \in [Keys -> States] /\ changed' \subseteq Keys
         /\ stayed' \subseteq Present' /\ stayed' \subseteq stayed
         /\ \A k \in stayed : states[k] # "absent" => k \in stayed'
BY DEF TypeOK, Become, Present

\* The numbers of a pipeline.
LEMMA PipelineNumbers ==
  ASSUME TypeOK
  PROVE  /\ Batch \in Nat /\ Batch > 0 /\ Limit \in Nat /\ MaxSends \in Nat /\ MaxSends > 0
         /\ seed.count \in 0..Limit /\ seed.created \in 0..seed.count
         /\ seed.flushed \in 0..seed.created
         /\ Pending \in 0..Batch /\ PerKey \in {1, 2} /\ (PerKey = 2 <=> seed.ttl)
         /\ Commands \in 0..2 * Batch
         /\ seed.done \in Nat /\ seed.sends \in 0..MaxSends
<1>1. /\ Batch \in Nat /\ Batch > 0 /\ Limit \in Nat /\ MaxSends \in Nat /\ MaxSends > 0
  BY BatchAssumption, LimitAssumption, BoundsAssumption
<1>2. /\ seed.count \in 0..Limit /\ seed.created \in 0..seed.count
      /\ seed.flushed \in 0..seed.created /\ Pending \in 0..Batch
  BY <1>1 DEF TypeOK, Seeds, Pending
<1>3. PerKey \in {1, 2} /\ (PerKey = 2 <=> seed.ttl)
  BY DEF PerKey
<1>4. Commands \in 0..2 * Batch
  <2>1. Commands = Pending \/ Commands = Pending * 2
    BY <1>2, <1>3 DEF Commands
  <2> HIDE DEF Pending, Commands
  <2> QED
    BY <1>1, <1>2, <2>1
<1>5. seed.done \in Nat /\ seed.sends \in 0..MaxSends
  BY <1>1 DEF TypeOK, Seeds
<1> QED
  BY <1>1, <1>2, <1>3, <1>4, <1>5

-----------------------------------------------------------------------------
(* Types, and the pipelines.                                               *)

LEMMA InitTypeOK == Init => TypeOK
<1> SUFFICES ASSUME Init PROVE TypeOK
  OBVIOUS
<1>1. /\ 0 \in 0..Limit /\ 0 \in 0..2 * Batch /\ 0 \in 0..MaxSends /\ 0 \in 0..MaxEvents
      /\ 0 <= Batch
  BY BatchAssumption, LimitAssumption, BoundsAssumption
<1>2. /\ seed \in Seeds
      /\ seed.flushed <= seed.created /\ seed.created <= seed.count
      /\ seed.created - seed.flushed <= Batch
  BY <1>1 DEF Init, Seeds
<1>3. flush \in Flushes
  BY <1>1 DEF Init, Flushes
<1> QED
  BY <1>1, <1>2, <1>3 DEF Init, TypeOK

\* A step of Seed that leaves the keys alone.
SeedMoves == SeedRequest \/ QueueKey \/ Close \/ Send \/ Executed \/ SeedBreaks

LEMMA SeedMovesType ==
  ASSUME TypeOK, SeedInv, SeedMoves
  PROVE  TypeOK'
<1> DEFINE InOrder == /\ seed.flushed <= seed.created /\ seed.created <= seed.count
                      /\ seed.created - seed.flushed <= Batch
<1>0. seed \in Seeds /\ InOrder /\ 0 \in 0..2 * Batch /\ 0 \in 0..MaxSends /\ 1 \in 0..MaxSends
  BY PipelineNumbers DEF TypeOK
<1>1. ASSUME SeedRequest PROVE seed' \in Seeds /\ InOrder'
  <2>1. PICK confirm \in BOOLEAN, asked \in Asked :
          LET count == IF asked <= 0 THEN DefaultCount ELSE asked
          IN  seed' = IF confirm /\ count <= Limit
                      THEN [seed EXCEPT !.pc = "queue", !.count = count]
                      ELSE [seed EXCEPT !.pc = "end", !.status = "rejected"]
    BY <1>1 DEF SeedRequest
  <2> DEFINE count == IF asked <= 0 THEN DefaultCount ELSE asked
  <2>2. count <= Limit => count \in 0..Limit
    BY AskedAssumption, LimitAssumption
  <2>3. seed.created = 0 /\ seed.flushed = 0
    BY <1>1, PipelineNumbers DEF SeedInv, NothingAhead, SeedRequest
  <2> HIDE DEF count
  <2>4. CASE count <= Limit /\ seed' = [seed EXCEPT !.pc = "queue", !.count = count]
    <3>1. seed' \in Seeds
      BY <1>0, <2>2, <2>4 DEF Seeds
    <3>2. seed'.created = 0 /\ seed'.flushed = 0 /\ seed'.count \in 0..Limit
      BY <1>0, <2>2, <2>3, <2>4 DEF Seeds
    <3> QED
      BY <3>1, <3>2, PipelineNumbers
  <2>5. CASE seed' = [seed EXCEPT !.pc = "end", !.status = "rejected"]
    <3>1. seed' \in Seeds
      BY <1>0, <2>5 DEF Seeds
    <3> QED
      BY <1>0, <2>5, <3>1 DEF Seeds
  <2> QED
    BY <2>1, <2>4, <2>5 DEF count
<1>2. ASSUME QueueKey PROVE seed' \in Seeds /\ InOrder'
  <2>1. Pending = seed.created % Batch /\ seed.created < seed.count
    BY <1>2, PipelineNumbers DEF QueueKey, SeedInv, PipelinesAreFull
  <2>2. Pending < Batch
    <3>1. Batch \in Nat \ {0} /\ seed.created \in Nat
      BY PipelineNumbers
    <3>2. seed.created % Batch \in 0..Batch - 1
      BY <3>1, Division
    <3> QED
      BY <2>1, <3>1, <3>2
  <2>3. PICK pc1 \in {"queue", "exec"} :
          seed' = [seed EXCEPT !.created = seed.created + 1, !.pc = pc1]
    BY <1>2 DEF QueueKey
  <2>4. /\ seed.created + 1 - seed.flushed <= Batch /\ seed.created + 1 \in 0..Limit
        /\ seed.created + 1 <= seed.count /\ seed.flushed <= seed.created + 1
    BY <2>1, <2>2, PipelineNumbers DEF Pending
  <2>5. seed' \in Seeds
    BY <1>0, <2>3, <2>4 DEF Seeds
  <2>6. seed'.created = seed.created + 1 /\ seed'.flushed = seed.flushed /\ seed'.count = seed.count
    BY <1>0, <2>3 DEF Seeds
  <2> QED
    BY <2>4, <2>5, <2>6, PipelineNumbers
<1>3. ASSUME NEW status \in {"ok", "error"}, SeedEnds(status) PROVE seed' \in Seeds /\ InOrder'
  <2>1. seed' \in Seeds
    BY <1>0, <1>3 DEF SeedEnds, Seeds
  <2> QED
    BY <1>0, <1>3, <2>1 DEF SeedEnds, Seeds
<1>4. ASSUME Close \/ Send PROVE seed' \in Seeds /\ InOrder'
  <2>1. CASE seed' = [seed EXCEPT !.pc = "exec"] \/ seed' = [seed EXCEPT !.sends = 1]
    <3>1. seed' \in Seeds
      BY <1>0, <2>1 DEF Seeds
    <3> QED
      BY <1>0, <2>1, <3>1 DEF Seeds
  <2> QED
    BY <1>3, <1>4, <2>1 DEF Close, Send
<1>5. ASSUME Executed PROVE seed' \in Seeds /\ InOrder'
  <2>1. CASE seed' = [seed EXCEPT !.pc = "queue", !.flushed = seed.created, !.done = 0, !.sends = 0]
    <3>1. seed.created \in 0..Limit
      BY <1>0 DEF Seeds
    <3>2. seed' \in Seeds
      BY <1>0, <2>1, <3>1 DEF Seeds
    <3>3. seed'.created = seed.created /\ seed'.flushed = seed.created /\ seed'.count = seed.count
      BY <1>0, <2>1 DEF Seeds
    <3> QED
      BY <3>2, <3>3, PipelineNumbers
  <2> QED
    BY <1>3, <1>5, <2>1 DEF Executed
<1>6. ASSUME SeedBreaks PROVE seed' \in Seeds /\ InOrder'
  <2>1. CASE /\ seed.sends < MaxSends
             /\ seed' = [seed EXCEPT !.broken = FALSE, !.refused = FALSE, !.resent = TRUE,
                                     !.done = 0, !.sends = seed.sends + 1]
    <3>1. seed.sends + 1 \in 0..MaxSends
      BY <2>1, PipelineNumbers
    <3>2. seed' \in Seeds
      BY <1>0, <2>1, <3>1 DEF Seeds
    <3> QED
      BY <1>0, <2>1, <3>2 DEF Seeds
  <2> QED
    BY <1>3, <1>6, <2>1 DEF SeedBreaks
<1>7. seed' \in Seeds /\ InOrder'
  BY <1>1, <1>2, <1>4, <1>5, <1>6 DEF SeedMoves
<1>8. SeedUnchanged
  BY DEF SeedMoves, SeedRequest, QueueKey, Close, Send, Executed, SeedBreaks
<1> QED
  BY <1>7, <1>8 DEF SeedUnchanged, cluster, history, TypeOK, Present
\* A key of the pipeline is written, or its expiry set; nothing that is there goes away.
LEMMA ExecuteType ==
  ASSUME TypeOK, Execute
  PROVE  TypeOK'
<1> DEFINE k == seed.flushed + 1 + (seed.done \div PerKey)
           isWrite == seed.done % PerKey = 0
<1>0. /\ seed \in Seeds /\ flush \in Flushes /\ key \in [Keys -> States] /\ written \in [Keys -> Nat]
      /\ stayed \subseteq Present /\ flush.due \subseteq stayed
      /\ changed \subseteq Keys
  BY DEF TypeOK
<1>1. seed.done + 1 \in 0..2 * Batch
  BY PipelineNumbers DEF Execute
<1>2. /\ UNCHANGED <<events, gone, flush, foreign, removed>>
      /\ \/ seed' = [seed EXCEPT !.done = seed.done + 1]
         \/ seed' = [seed EXCEPT !.done = seed.done + 1, !.refused = TRUE]
  BY DEF Execute
<1>3. seed' \in Seeds
  BY <1>0, <1>1, <1>2 DEF Seeds
<1>4. seed'.flushed = seed.flushed /\ seed'.created = seed.created /\ seed'.count = seed.count
  BY <1>0, <1>2 DEF Seeds
<1>5. \/ UNCHANGED <<key, changed, written, stayed>>
      \/ /\ \E s \in States : (s = "absent" => key[k] = "absent") /\ Become([key EXCEPT ![k] = s])
         /\ written' = written \/ written' = [written EXCEPT ![k] = written[k] + 1]
  BY DEF Execute, States
<1> HIDE DEF k
<1>6. CASE UNCHANGED <<key, changed, written, stayed>>
  BY <1>0, <1>2, <1>3, <1>4, <1>6 DEF TypeOK, Present
<1>7. CASE /\ \E s \in States : (s = "absent" => key[k] = "absent") /\ Become([key EXCEPT ![k] = s])
           /\ written' = written \/ written' = [written EXCEPT ![k] = written[k] + 1]
  <2>1. PICK s \in States : (s = "absent" => key[k] = "absent") /\ Become([key EXCEPT ![k] = s])
    BY <1>7
  <2> DEFINE states == [key EXCEPT ![k] = s]
  <2>2. states \in [Keys -> States]
    BY <1>0
  <2>3. \A l \in stayed : states[l] # "absent"
    BY <1>0, <2>1 DEF Present
  <2> HIDE DEF states
  <2>4. /\ key' \in [Keys -> States] /\ changed' \subseteq Keys
        /\ stayed' \subseteq Present' /\ stayed \subseteq stayed'
    BY <2>1, <2>2, <2>3, BecomeType DEF states
  <2>5. written' \in [Keys -> Nat]
    BY <1>0, <1>7
  <2> QED
    BY <1>0, <1>2, <1>3, <1>4, <2>4, <2>5 DEF TypeOK
<1> QED
  BY <1>5, <1>6, <1>7

\* A step of Flush that only changes its record.
FlushMoves == FlushRequest \/ Scan \/ ScanFails \/ FlushCancelled \/ DeleteFails

LEMMA FlushMovesType ==
  ASSUME TypeOK, FlushMoves
  PROVE  TypeOK'
<1>0. /\ flush \in Flushes /\ flush.due \subseteq stayed /\ stayed \subseteq Present
      /\ Present \subseteq Keys /\ 0 \in 0..MaxSends
  BY PipelineNumbers DEF TypeOK, Present
<1>1. ASSUME NEW f \in Flushes
      PROVE  Continued(f) \in Flushes /\ Continued(f).due = f.due
  BY DEF Flushes, Continued
<1>2. /\ flush' \in Flushes /\ flush'.due \subseteq stayed' /\ stayed' \subseteq Present
  <2>1. CASE FlushRequest
    <3>1. CASE flush' = [flush EXCEPT !.pc = "scan", !.due = Present] /\ stayed' = Present
      BY <1>0, <3>1 DEF Flushes
    <3>2. CASE flush' = [flush EXCEPT !.pc = "end", !.status = "rejected"] /\ UNCHANGED stayed
      BY <1>0, <3>2 DEF Flushes
    <3> QED
      BY <2>1, <3>1, <3>2 DEF FlushRequest
  <2>2. CASE Scan
    <3>1. PICK keys \in SUBSET Present, last \in BOOLEAN :
            LET f == [flush EXCEPT !.batch = keys, !.due = @ \ keys, !.last = last, !.sends = 0]
            IN  flush' = IF keys = {} THEN Continued(f) ELSE [f EXCEPT !.pc = "del"]
      BY <2>2 DEF Scan
    <3> DEFINE f == [flush EXCEPT !.batch = keys, !.due = flush.due \ keys, !.last = last, !.sends = 0]
    <3>2. f \in Flushes /\ f.due \subseteq stayed
      BY <1>0 DEF Flushes
    <3>3. flush' = Continued(f) \/ flush' = [f EXCEPT !.pc = "del"]
      BY <3>1
    <3> HIDE DEF f
    <3>4. CASE flush' = [f EXCEPT !.pc = "del"]
      BY <1>0, <2>2, <3>2, <3>4 DEF Scan, Flushes
    <3> QED
      BY <1>0, <1>1, <2>2, <3>2, <3>3, <3>4 DEF Scan
  <2>3. CASE ScanFails \/ FlushCancelled
    <3>1. /\ UNCHANGED stayed
          /\ \E status \in {"error", "ok"} : flush' = [flush EXCEPT !.pc = "end", !.status = status]
      BY <2>3 DEF ScanFails, FlushCancelled
    <3> QED
      BY <1>0, <3>1 DEF Flushes
  <2>4. CASE DeleteFails
    <3> DEFINE f == [flush EXCEPT !.spoilt = TRUE]
    <3>1. f \in Flushes /\ f.due = flush.due
      BY <1>0 DEF Flushes
    <3>2. flush' = Continued(f) /\ UNCHANGED stayed
      BY <2>4 DEF DeleteFails
    <3> HIDE DEF f
    <3> QED
      BY <1>0, <1>1, <3>1, <3>2
  <2> QED
    BY <2>1, <2>2, <2>3, <2>4 DEF FlushMoves
<1>3. UNCHANGED removed /\ FlushUnchanged
  BY DEF FlushMoves, FlushRequest, Scan, ScanFails, FlushCancelled, DeleteFails
<1> QED
  BY <1>2, <1>3 DEF FlushUnchanged, cluster, TypeOK, Present
\* What DEL removed is not owed any more.
LEMMA DeleteType ==
  ASSUME TypeOK, Delete
  PROVE  TypeOK'
<1> DEFINE keys == flush.batch \cap Present
           f == [flush EXCEPT !.due = flush.due \ keys]
           states == [k \in Keys |-> IF k \in keys THEN "absent" ELSE key[k]]
           n == Cardinality(keys)
<1>0. /\ flush \in Flushes /\ flush.due \subseteq stayed /\ key \in [Keys -> States]
      /\ flush.sends + 1 \in 0..MaxSends
  BY BoundsAssumption DEF TypeOK, Delete, Flushes
<1>1. n \in Nat /\ keys \in SUBSET Keys
  <2>1. keys \in SUBSET Keys
    BY DEF Present
  <2> QED
    BY <2>1, KeysAreFinite
<1>2. /\ Become(states) /\ removed' = removed + n
      /\ flush' \in {Continued([f EXCEPT !.deleted = flush.deleted + n]),
                     [f EXCEPT !.sends = flush.sends + 1, !.lost = TRUE]}
      /\ UNCHANGED <<events, gone, seed, written, foreign>>
  BY <1>0 DEF Delete, Counted, Flushes
<1>3. states \in [Keys -> States] /\ \A k \in Keys \ keys : states[k] = key[k]
  BY <1>0 DEF States
<1> HIDE DEF states, n
<1>4. /\ key' \in [Keys -> States] /\ changed' \subseteq Keys
      /\ stayed' \subseteq Present' /\ \A k \in stayed : states[k] # "absent" => k \in stayed'
  BY <1>2, <1>3, BecomeType
<1>5. f \in Flushes /\ f.due = flush.due \ keys /\ flush.deleted + n \in Nat
  BY <1>0, <1>1 DEF Flushes
<1>6. flush' \in Flushes /\ flush'.due = flush.due \ keys
  <2> HIDE DEF keys, f
  <2>1. CASE flush' = [f EXCEPT !.sends = flush.sends + 1, !.lost = TRUE]
    BY <1>0, <1>5, <2>1 DEF Flushes
  <2>2. CASE flush' = Continued([f EXCEPT !.deleted = flush.deleted + n])
    BY <1>5, <2>2 DEF Flushes, Continued
  <2> QED
    BY <1>2, <2>1, <2>2
<1>7. flush'.due \subseteq stayed'
  <2>1. \A k \in flush.due \ keys : k \in Keys /\ k \in stayed /\ key[k] # "absent"
    BY <1>0 DEF TypeOK, Present
  <2> QED
    BY <1>3, <1>4, <1>6, <2>1
<1> QED
  BY <1>1, <1>2, <1>4, <1>6, <1>7 DEF TypeOK

\* Another client, an expiry or an election: SCAN owes no key that went.
LEMMA ClusterType ==
  ASSUME TypeOK, NEW states \in [Keys -> States], Become(states),
         NEW due \in SUBSET Owed(states), NEW spoilt \in BOOLEAN, NEW broken \in BOOLEAN,
         flush' = [flush EXCEPT !.due = due, !.spoilt = spoilt],
         seed' = [seed EXCEPT !.broken = broken],
         events' \in 0..MaxEvents, foreign' \subseteq Keys, UNCHANGED <<gone, written, removed>>
  PROVE  TypeOK'
<1>0. seed \in Seeds /\ flush \in Flushes /\ flush.due \subseteq stayed
  BY DEF TypeOK
<1>1. /\ key' \in [Keys -> States] /\ changed' \subseteq Keys
      /\ stayed' \subseteq Present' /\ \A k \in stayed : states[k] # "absent" => k \in stayed'
  BY BecomeType
<1>2. due \subseteq stayed' /\ due \subseteq Keys
  BY <1>0, <1>1 DEF Owed, Flushes
<1>3. flush' \in Flushes /\ flush'.due = due
  BY <1>0, <1>2 DEF Flushes
<1>4. /\ seed' \in Seeds /\ seed'.flushed = seed.flushed /\ seed'.created = seed.created
      /\ seed'.count = seed.count
  BY <1>0 DEF Seeds
<1> QED
  BY <1>1, <1>2, <1>3, <1>4 DEF TypeOK
\* What the three have in common: a flush that is not spoilt is owed all that stays, and
\* only they take an expiry away.
LEMMA ClusterMoves ==
  ASSUME TypeOK, (\E k \in Keys : OtherClient(k) \/ Expires(k)) \/ Elect
  PROVE  \E states \in [Keys -> States] : \E due \in SUBSET Owed(states), spoilt, broken \in BOOLEAN :
           /\ Become(states)
           /\ flush' = [flush EXCEPT !.due = due, !.spoilt = spoilt]
           /\ seed' = [seed EXCEPT !.broken = broken]
           /\ flush.spoilt => spoilt
           /\ ~spoilt /\ flush.pc \in {"scan", "del"} => due = Owed(states)
           /\ events' \in 0..MaxEvents /\ foreign' \subseteq Keys /\ foreign \subseteq foreign'
           /\ \A k \in Keys : states[k] = "lasting" => key[k] = "lasting" \/ k \in foreign'
           /\ UNCHANGED <<gone, written, removed>>
<1>0. /\ seed \in Seeds /\ flush \in Flushes /\ key \in [Keys -> States] /\ foreign \subseteq Keys
      /\ events \in 0..MaxEvents /\ MaxEvents \in Nat
  BY BoundsAssumption DEF TypeOK
<1>1. ASSUME NEW states \in [Keys -> States]
      PROVE  Owed(states) \in SUBSET Owed(states) /\ {} \in SUBSET Owed(states)
  OBVIOUS
<1>2. seed = [seed EXCEPT !.broken = seed.broken] /\ seed.broken \in BOOLEAN /\ flush.spoilt \in BOOLEAN
  BY <1>0 DEF Seeds, Flushes
<1>3. ASSUME NEW k \in Keys, OtherClient(k) \/ Expires(k),
             NEW s \in States, Become([key EXCEPT ![k] = s]),
             s = "lasting" => k \in foreign'
      PROVE  LET states == [key EXCEPT ![k] = s]
             IN  /\ states \in [Keys -> States] /\ Become(states)
                 /\ flush' = [flush EXCEPT !.due = Owed(states), !.spoilt = flush.spoilt]
                 /\ seed' = [seed EXCEPT !.broken = seed.broken]
                 /\ events' \in 0..MaxEvents /\ foreign' \subseteq Keys /\ foreign \subseteq foreign'
                 /\ \A l \in Keys : states[l] = "lasting" => key[l] = "lasting" \/ l \in foreign'
                 /\ UNCHANGED <<gone, written, removed>>
  <2> DEFINE states == [key EXCEPT ![k] = s]
  <2>1. states \in [Keys -> States] /\ \A l \in Keys : states[l] = IF l = k THEN s ELSE key[l]
    BY <1>0
  <2>2. key' = states
    BY <1>3 DEF Become
  <2> HIDE DEF states
  <2>3. /\ flush' = [flush EXCEPT !.due = Owed(key')]
        /\ UNCHANGED seed /\ UNCHANGED <<gone, written, removed>>
        /\ events' \in 0..MaxEvents /\ foreign' \subseteq Keys /\ foreign \subseteq foreign'
    <3>1. CASE OtherClient(k)
      BY <1>0, <3>1 DEF OtherClient
    <3>2. CASE Expires(k)
      BY <1>0, <3>2 DEF Expires
    <3> QED
      BY <1>3, <3>1, <3>2
  <2>4. flush' = [flush EXCEPT !.due = Owed(states), !.spoilt = flush.spoilt]
    BY <1>0, <2>2, <2>3 DEF Flushes
  <2>5. Become(states)
    BY <1>3 DEF states
  <2> QED
    BY <1>2, <1>3, <2>1, <2>3, <2>4, <2>5 DEF states
<1>4. CASE \E k \in Keys : OtherClient(k) \/ Expires(k)
  <2>1. PICK k \in Keys : OtherClient(k) \/ Expires(k)
    BY <1>4
  <2>2. PICK s \in States : Become([key EXCEPT ![k] = s]) /\ (s = "lasting" => k \in foreign')
    <3>1. ASSUME NEW s \in States, Become([key EXCEPT ![k] = s]), OtherClient(k)
          PROVE  s = "lasting" => k \in foreign'
      <4>1. key'[k] = s
        BY <1>0, <3>1 DEF Become
      <4> QED
        BY <3>1, <4>1 DEF OtherClient
    <3>2. "absent" \in States
      BY DEF States
    <3> QED
      BY <2>1, <3>1, <3>2 DEF OtherClient, Expires
  <2> DEFINE states == [key EXCEPT ![k] = s]
  <2>3. /\ states \in [Keys -> States] /\ Become(states)
        /\ flush' = [flush EXCEPT !.due = Owed(states), !.spoilt = flush.spoilt]
        /\ seed' = [seed EXCEPT !.broken = seed.broken]
        /\ events' \in 0..MaxEvents /\ foreign' \subseteq Keys /\ foreign \subseteq foreign'
        /\ \A l \in Keys : states[l] = "lasting" => key[l] = "lasting" \/ l \in foreign'
        /\ UNCHANGED <<gone, written, removed>>
    BY <1>3, <2>1, <2>2
  <2> HIDE DEF states
  <2> QED
    BY <1>1, <1>2, <2>3
<1>5. CASE Elect
  <2>1. PICK missed \in SUBSET changed :
          Become([k \in Keys |-> IF k \notin missed THEN key[k]
                                 ELSE IF key[k] = "absent" THEN "lasting" ELSE "absent"])
    BY <1>5 DEF Elect
  <2> DEFINE states == [k \in Keys |-> IF k \notin missed THEN key[k]
                                       ELSE IF key[k] = "absent" THEN "lasting" ELSE "absent"]
             spoilt == flush.spoilt \/ flush.pc \in {"scan", "del"}
             broken == seed.pc = "exec" /\ seed.sends > 0
  <2>2. states \in [Keys -> States] /\ Become(states) /\ spoilt \in BOOLEAN /\ broken \in BOOLEAN
    BY <1>0, <2>1 DEF States
  <2>3. /\ flush' = [flush EXCEPT !.due = {}, !.spoilt = spoilt]
        /\ seed' = [seed EXCEPT !.broken = broken]
    BY <1>0, <1>5 DEF Elect, Flushes
  <2>4. /\ events' \in 0..MaxEvents /\ foreign' \subseteq Keys /\ foreign \subseteq foreign'
        /\ UNCHANGED <<gone, written, removed>>
    BY <1>0, <1>5 DEF Elect
  <2>5. \A k \in Keys : states[k] # "absent" => k \in foreign'
    <3>1. key' = states
      BY <2>2 DEF Become
    <3> HIDE DEF states
    <3> QED
      BY <1>5, <3>1 DEF Elect
  <2>6. /\ flush.spoilt => spoilt
        /\ ~(~spoilt /\ flush.pc \in {"scan", "del"})
    OBVIOUS
  <2> HIDE DEF states, spoilt, broken
  <2> QED
    BY <1>1, <2>2, <2>3, <2>4, <2>5, <2>6
<1> QED
  BY <1>4, <1>5

LEMMA NextTypeOK == TypeOK /\ SeedInv /\ [Next]_vars => TypeOK'
<1> SUFFICES ASSUME TypeOK, SeedInv, [Next]_vars PROVE TypeOK'
  OBVIOUS
<1>1. CASE SeedMoves
  BY <1>1, SeedMovesType
<1>2. CASE Execute
  BY <1>2, ExecuteType
<1>3. CASE FlushMoves
  BY <1>3, FlushMovesType
<1>4. CASE Delete
  BY <1>4, DeleteType
<1>5. CASE (\E k \in Keys : OtherClient(k) \/ Expires(k)) \/ Elect
  BY <1>5, ClusterMoves, ClusterType
<1>6. CASE UNCHANGED vars \/ \E r \in {"seed", "flush"} : ClientGone(r)
  BY <1>6 DEF vars, cluster, history, ClientGone, TypeOK, Present
<1> QED
  BY <1>1, <1>2, <1>3, <1>4, <1>5, <1>6, NextCases DEF SeedMoves, FlushMoves
LEMMA InitSeedInv == Init => SeedInv
<1> SUFFICES ASSUME Init PROVE SeedInv
  OBVIOUS
<1>1. /\ seed.pc \in {"handler", "end"} /\ seed.sends = 0 /\ seed.done = 0 /\ ~seed.refused
      /\ seed.status = "none" /\ seed.created = 0 /\ seed.flushed = 0
  BY DEF Init
<1>2. seed.done <= Commands
  BY <1>1 DEF Commands, Pending, PerKey
<1> QED
  BY <1>1, <1>2 DEF SeedInv, NothingAhead, PipelinesAreFull

\* The pipelines do not depend on what happens elsewhere, but that a request stays
\* cancelled.
LEMMA SeedInvKept ==
  ASSUME SeedInv, seed \in Seeds, gone \subseteq gone',
         \/ seed' = seed
         \/ \E broken : seed' = [seed EXCEPT !.broken = broken]
  PROVE  SeedInv'
<1>1. /\ seed'.pc = seed.pc /\ seed'.sends = seed.sends /\ seed'.done = seed.done
      /\ seed'.refused = seed.refused /\ seed'.status = seed.status /\ seed'.ttl = seed.ttl
      /\ seed'.created = seed.created /\ seed'.flushed = seed.flushed /\ seed'.count = seed.count
  BY DEF Seeds
<1> QED
  BY <1>1 DEF SeedInv, NothingAhead, PipelinesAreFull, Commands, Pending, PerKey

LEMMA SeedMovesInv ==
  ASSUME TypeOK, SeedInv, SeedMoves
  PROVE  SeedInv'
<1>0. seed \in Seeds /\ UNCHANGED gone
  BY DEF TypeOK, SeedMoves, SeedRequest, QueueKey, Close, Send, Executed, SeedBreaks, SeedUnchanged
<1>1. ASSUME NEW status, SeedEnds(status) PROVE SeedInv'
  <2>1. seed'.pc = "end"
    BY <1>0, <1>1 DEF SeedEnds, Seeds
  <2> QED
    BY <2>1 DEF SeedInv, NothingAhead, PipelinesAreFull
<1>2. Batch \in Nat \ {0} /\ 0 % Batch = 0
  <2>1. Batch \in Nat \ {0}
    BY BatchAssumption
  <2>2. \A b \in Nat \ {0} : 0 % b = 0
    OBVIOUS
  <2> QED
    BY <2>1, <2>2
<1>3. CASE SeedRequest
  <2>1. PICK count : seed' = [seed EXCEPT !.pc = "queue", !.count = count] \/ seed'.pc = "end"
    BY <1>0, <1>3 DEF SeedRequest, Seeds
  <2>2. /\ seed.created = 0 /\ seed.flushed = 0 /\ seed.sends = 0 /\ seed.done = 0 /\ ~seed.refused
        /\ seed.status = "none"
    BY <1>3, PipelineNumbers DEF SeedRequest, SeedInv, NothingAhead
  <2>3. CASE seed' = [seed EXCEPT !.pc = "queue", !.count = count]
    <3>1. /\ seed'.created = 0 /\ seed'.flushed = 0 /\ seed'.sends = 0 /\ seed'.done = 0
          /\ ~seed'.refused /\ seed'.status = "none" /\ seed'.pc = "queue"
      BY <1>0, <2>2, <2>3 DEF Seeds
    <3>2. Pending' = 0 /\ 0 <= Commands'
      BY <3>1 DEF Pending, Commands, PerKey
    <3> QED
      BY <1>2, <3>1, <3>2 DEF SeedInv, NothingAhead, PipelinesAreFull
  <2>4. CASE seed'.pc = "end"
    BY <2>4 DEF SeedInv, NothingAhead, PipelinesAreFull
  <2> QED
    BY <2>1, <2>3, <2>4
<1>4. CASE QueueKey
  <2>1. /\ seed.pc = "queue" /\ seed.sends = 0 /\ seed.done = 0 /\ ~seed.refused
        /\ seed.status = "none" /\ Pending = seed.created % Batch
    BY <1>4, PipelineNumbers DEF QueueKey, SeedInv, NothingAhead, PipelinesAreFull
  <2>2. /\ seed'.created = seed.created + 1 /\ seed'.flushed = seed.flushed
        /\ seed'.sends = 0 /\ seed'.done = 0 /\ ~seed'.refused /\ seed'.status = "none"
        /\ seed'.pc = IF (seed.created + 1) % Batch = 0 THEN "exec" ELSE "queue"
        /\ seed'.ttl = seed.ttl
    BY <1>0, <1>4, <2>1 DEF QueueKey, IsFull, Seeds
  <2>3. Pending' = Pending + 1 /\ 0 <= Commands'
    <3>1. Pending' = Pending + 1
      BY <2>2, PipelineNumbers DEF Pending
    <3>2. Commands' = Pending' \/ Commands' = Pending' * 2
      BY <3>1, PipelineNumbers DEF Commands, PerKey
    <3> QED
      BY <3>1, <3>2, PipelineNumbers
  <2>4. seed.created \in Nat
    BY PipelineNumbers
  <2>5. (seed.created + 1) % Batch # 0 => Pending' = (seed.created + 1) % Batch
    BY <1>2, <2>1, <2>3, <2>4, OneMore
  <2> QED
    BY <2>2, <2>3, <2>5 DEF SeedInv, NothingAhead, PipelinesAreFull
<1>5. CASE Close
  <2>1. CASE seed' = [seed EXCEPT !.pc = "exec"]
    <3>1. /\ seed.pc = "queue" /\ ("seed" \in gone \/ seed.created = seed.count)
          /\ seed.sends = 0 /\ seed.done = 0 /\ ~seed.refused /\ seed.status = "none"
      BY <1>5 DEF Close, SeedInv, NothingAhead
    <3>2. /\ seed'.created = seed.created /\ seed'.count = seed.count /\ seed'.flushed = seed.flushed
          /\ seed'.sends = 0 /\ seed'.done = 0 /\ ~seed'.refused /\ seed'.status = "none"
          /\ seed'.pc = "exec" /\ seed'.ttl = seed.ttl
      BY <1>0, <2>1, <3>1 DEF Seeds
    <3>3. 0 <= Commands'
      BY <3>2, PipelineNumbers DEF Pending, Commands, PerKey
    <3> QED
      BY <1>0, <3>1, <3>2, <3>3 DEF SeedInv, NothingAhead, PipelinesAreFull
  <2> QED
    BY <1>1, <1>5, <2>1 DEF Close
<1>6. CASE Send
  <2>1. CASE "seed" \notin gone /\ seed' = [seed EXCEPT !.sends = 1]
    <3>1. /\ seed.pc = "exec" /\ seed.done <= Commands /\ seed.status = "none"
          /\ seed.created % Batch = 0 \/ seed.created = seed.count
      BY <1>6, <2>1 DEF Send, SeedInv, NothingAhead, PipelinesAreFull
    <3>2. /\ seed'.created = seed.created /\ seed'.count = seed.count /\ seed'.flushed = seed.flushed
          /\ seed'.sends = 1 /\ seed'.done = seed.done /\ seed'.status = "none"
          /\ seed'.pc = "exec" /\ seed'.ttl = seed.ttl
      BY <1>0, <2>1, <3>1 DEF Seeds
    <3>3. Commands' = Commands
      BY <3>2 DEF Pending, Commands, PerKey
    <3> QED
      BY <3>1, <3>2, <3>3 DEF SeedInv, NothingAhead, PipelinesAreFull
  <2> QED
    BY <1>1, <1>6, <2>1 DEF Send
<1>7. CASE Executed
  <2>1. CASE /\ ~seed.refused
             /\ seed' = [seed EXCEPT !.pc = "queue", !.flushed = seed.created, !.done = 0, !.sends = 0]
    <3>1. seed.status = "none" /\ (seed.created % Batch = 0 \/ seed.created = seed.count)
      BY <1>7, PipelineNumbers DEF Executed, SeedInv, NothingAhead, PipelinesAreFull
    <3>2. /\ seed'.created = seed.created /\ seed'.count = seed.count /\ seed'.flushed = seed.created
          /\ seed'.sends = 0 /\ seed'.done = 0 /\ ~seed'.refused /\ seed'.status = "none"
          /\ seed'.pc = "queue"
      BY <1>0, <2>1, <3>1 DEF Seeds
    <3>3. Pending' = 0 /\ 0 <= Commands'
      BY <3>2, PipelineNumbers DEF Pending, Commands, PerKey
    <3> QED
      BY <3>1, <3>2, <3>3 DEF SeedInv, NothingAhead, PipelinesAreFull
  <2> QED
    BY <1>1, <1>7, <2>1 DEF Executed
<1>8. CASE SeedBreaks
  <2>1. CASE seed' = [seed EXCEPT !.broken = FALSE, !.refused = FALSE, !.resent = TRUE,
                                  !.done = 0, !.sends = seed.sends + 1]
    <3>1. /\ seed.pc = "exec" /\ seed.sends > 0 /\ seed.status = "none"
          /\ seed.created % Batch = 0 \/ seed.created = seed.count
      BY <1>8, PipelineNumbers DEF SeedBreaks, SeedInv, NothingAhead, PipelinesAreFull
    <3>2. /\ seed'.created = seed.created /\ seed'.count = seed.count /\ seed'.flushed = seed.flushed
          /\ seed'.sends = seed.sends + 1 /\ seed'.done = 0 /\ ~seed'.refused /\ seed'.status = "none"
          /\ seed'.pc = "exec" /\ seed'.ttl = seed.ttl
      BY <1>0, <2>1, <3>1 DEF Seeds
    <3>3. 0 <= Commands'
      BY <3>2, PipelineNumbers DEF Pending, Commands, PerKey
    <3> QED
      BY <3>1, <3>2, <3>3 DEF SeedInv, NothingAhead, PipelinesAreFull
  <2> QED
    BY <1>1, <1>8, <2>1 DEF SeedBreaks
<1> QED
  BY <1>3, <1>4, <1>5, <1>6, <1>7, <1>8 DEF SeedMoves
\* The fields a command changes.
LEMMA ExecuteFields ==
  ASSUME TypeOK, Execute
  PROVE  /\ seed.pc = "exec" /\ seed.sends > 0 /\ seed.done < Commands
         /\ seed'.pc = seed.pc /\ seed'.ttl = seed.ttl /\ seed'.count = seed.count
         /\ seed'.created = seed.created /\ seed'.flushed = seed.flushed
         /\ seed'.sends = seed.sends /\ seed'.done = seed.done + 1
         /\ seed'.resent = seed.resent /\ seed'.status = seed.status
         /\ seed.refused => seed'.refused
         /\ Pending' = Pending /\ PerKey' = PerKey /\ Commands' = Commands
         /\ UNCHANGED <<gone, flush, foreign>>
<1>1. /\ \/ seed' = [seed EXCEPT !.done = seed.done + 1]
         \/ seed' = [seed EXCEPT !.done = seed.done + 1, !.refused = TRUE]
      /\ seed \in Seeds
      /\ seed.pc = "exec" /\ seed.sends > 0 /\ seed.done < Commands
      /\ UNCHANGED <<gone, flush, foreign>>
  BY DEF Execute, TypeOK
<1>2. /\ seed'.pc = seed.pc /\ seed'.ttl = seed.ttl /\ seed'.count = seed.count
      /\ seed'.created = seed.created /\ seed'.flushed = seed.flushed
      /\ seed'.sends = seed.sends /\ seed'.done = seed.done + 1
      /\ seed'.resent = seed.resent /\ seed'.status = seed.status
      /\ seed.refused => seed'.refused
  BY <1>1 DEF Seeds
<1> QED
  BY <1>1, <1>2 DEF Pending, PerKey, Commands

LEMMA NextSeedInv == TypeOK /\ SeedInv /\ [Next]_vars => SeedInv'
<1> SUFFICES ASSUME TypeOK, SeedInv, [Next]_vars PROVE SeedInv'
  OBVIOUS
<1>0. seed \in Seeds
  BY DEF TypeOK
<1>1. CASE SeedMoves
  BY <1>1, SeedMovesInv
<1>2. CASE Execute
  <2>1. seed.done + 1 <= Commands
    BY <1>2, ExecuteFields, PipelineNumbers
  <2> QED
    BY <1>2, <2>1, ExecuteFields, PipelineNumbers DEF SeedInv, NothingAhead, PipelinesAreFull
<1>3. CASE FlushMoves
  BY <1>0, <1>3, SeedInvKept DEF FlushMoves, FlushRequest, Scan, ScanFails, FlushCancelled, DeleteFails,
                            FlushUnchanged
<1>4. CASE Delete
  BY <1>0, <1>4, SeedInvKept DEF Delete
<1>5. CASE (\E k \in Keys : OtherClient(k) \/ Expires(k)) \/ Elect
  <2>1. \E broken : seed' = [seed EXCEPT !.broken = broken] /\ UNCHANGED gone
    BY <1>5, ClusterMoves
  <2> QED
    BY <1>0, <2>1, SeedInvKept
<1>6. CASE UNCHANGED vars \/ \E r \in {"seed", "flush"} : ClientGone(r)
  BY <1>0, <1>6, SeedInvKept DEF vars, ClientGone
<1> QED
  BY <1>1, <1>2, <1>3, <1>4, <1>5, <1>6, NextCases DEF SeedMoves, FlushMoves

LEMMA SeedInvariance == Spec => [](TypeOK /\ SeedInv)
BY InitTypeOK, InitSeedInv, NextTypeOK, NextSeedInv, PTL DEF Spec

\* The keys, the two requests and their pipelines and batches have their types: no
\* pipeline is ever longer than a batch, and SCAN owes only keys that stayed.
THEOREM TypeCorrect == Spec => []TypeOK
BY SeedInvariance, PTL

-----------------------------------------------------------------------------
(* What a flush leaves.                                                    *)

LEMMA InitFlushInv == Init => FlushInv
BY DEF Init, FlushInv, RepliesAreCounted, StayedIsComing, FlushLeavesNone

\* While Flush does nothing, what stays may become less, SCAN owes what is left of it
\* unless there was an election, and Flush may be cancelled.
LEMMA FlushInvKept ==
  ASSUME TypeOK, FlushInv, NEW due, NEW spoilt,
         flush' = [flush EXCEPT !.due = due, !.spoilt = spoilt],
         flush.spoilt => spoilt, due \subseteq flush.due,
         stayed' \subseteq stayed, gone \subseteq gone', UNCHANGED removed,
         ~spoilt /\ flush.pc \in {"scan", "del"} => \A k \in stayed' : k \in flush.due => k \in due
  PROVE  FlushInv'
<1>1. /\ flush'.pc = flush.pc /\ flush'.batch = flush.batch /\ flush'.last = flush.last
      /\ flush'.deleted = flush.deleted /\ flush'.lost = flush.lost /\ flush'.status = flush.status
      /\ flush'.due = due /\ flush'.spoilt = spoilt
  BY DEF TypeOK, Flushes
<1> QED
  BY <1>1 DEF FlushInv, RepliesAreCounted, StayedIsComing, FlushLeavesNone

LEMMA FlushMovesInv ==
  ASSUME TypeOK, FlushInv, FlushMoves
  PROVE  FlushInv'
<1>0. /\ flush \in Flushes /\ UNCHANGED removed /\ UNCHANGED gone
      /\ RepliesAreCounted /\ StayedIsComing /\ FlushLeavesNone
  BY DEF TypeOK, FlushMoves, FlushRequest, Scan, ScanFails, FlushCancelled, DeleteFails, FlushUnchanged,
         FlushInv
<1> USE DEF FlushInv, RepliesAreCounted, StayedIsComing, FlushLeavesNone
<1>1. CASE FlushRequest
  <2>1. CASE flush' = [flush EXCEPT !.pc = "scan", !.due = Present] /\ stayed' = Present
    <3>1. /\ flush'.pc = "scan" /\ flush'.due = Present /\ flush'.status = flush.status
          /\ flush'.deleted = flush.deleted /\ flush'.lost = flush.lost /\ flush.status = "none"
      BY <1>0, <1>1, <2>1 DEF FlushRequest, Flushes
    <3> QED
      BY <1>0, <2>1, <3>1
  <2>2. CASE flush' = [flush EXCEPT !.pc = "end", !.status = "rejected"]
    BY <1>0, <2>2 DEF Flushes
  <2> QED
    BY <1>1, <2>1, <2>2 DEF FlushRequest
<1>2. CASE Scan
  <2>1. PICK keys \in SUBSET Present, last \in BOOLEAN :
          LET f == [flush EXCEPT !.batch = keys, !.due = @ \ keys, !.last = last, !.sends = 0]
          IN  /\ last => f.due = {}
              /\ flush' = IF keys = {} THEN Continued(f) ELSE [f EXCEPT !.pc = "del"]
    BY <1>2 DEF Scan
  <2> DEFINE f == [flush EXCEPT !.batch = keys, !.due = flush.due \ keys, !.last = last, !.sends = 0]
  <2>2. /\ f.due = flush.due \ keys /\ f.batch = keys /\ f.last = last /\ f.pc = "scan"
        /\ f.deleted = flush.deleted /\ f.lost = flush.lost /\ f.spoilt = flush.spoilt
        /\ f.status = "none" /\ f \in Flushes
    <3>1. flush.pc = "scan"
      BY <1>2 DEF Scan
    <3>2. keys \subseteq Keys /\ 0 \in 0..MaxSends
      BY PipelineNumbers DEF Present
    <3>3. f \in Flushes
      BY <1>0, <3>2 DEF Flushes
    <3>4. flush.status = "none"
      BY <1>0, <3>1
    <3> QED
      BY <1>0, <3>1, <3>3, <3>4 DEF Flushes
  <2>3. last => f.due = {}
    BY <2>1
  <2>4. ~flush.spoilt => stayed \subseteq flush.due
    BY <1>0, <1>2 DEF Scan
  <2>5. UNCHANGED stayed
    BY <1>2 DEF Scan
  <2>6. flush' = IF keys = {} THEN Continued(f) ELSE [f EXCEPT !.pc = "del"]
    BY <2>1
  <2> HIDE DEF f
  <2>7. CASE keys = {}
    BY <1>0, <2>2, <2>3, <2>4, <2>5, <2>6, <2>7 DEF Continued, Flushes
  <2>8. CASE keys # {}
    BY <1>0, <2>2, <2>3, <2>4, <2>5, <2>6, <2>8 DEF Flushes
  <2> QED
    BY <2>7, <2>8
<1>3. CASE ScanFails
  BY <1>0, <1>3 DEF ScanFails, Flushes
<1>4. CASE FlushCancelled
  BY <1>0, <1>4 DEF FlushCancelled, Flushes
<1>5. CASE DeleteFails
  <2> DEFINE f == [flush EXCEPT !.spoilt = TRUE]
  <2>1. /\ f.spoilt /\ f.deleted = flush.deleted /\ f.lost = flush.lost /\ f.status = "none"
        /\ f.last = flush.last /\ f \in Flushes
    BY <1>0, <1>5 DEF DeleteFails, Flushes
  <2>2. flush' = Continued(f)
    BY <1>5 DEF DeleteFails
  <2> HIDE DEF f
  <2> QED
    BY <1>0, <2>1, <2>2 DEF Continued, Flushes
<1> QED
  BY <1>1, <1>2, <1>3, <1>4, <1>5 DEF FlushMoves
\* DEL removes of the batch what is there, and counts it if the reply comes.
LEMMA DeleteInv ==
  ASSUME TypeOK, FlushInv, Delete
  PROVE  FlushInv'
<1> USE DEF FlushInv, RepliesAreCounted, StayedIsComing, FlushLeavesNone
<1> DEFINE keys == flush.batch \cap Present
           f == [flush EXCEPT !.due = flush.due \ keys]
           states == [k \in Keys |-> IF k \in keys THEN "absent" ELSE key[k]]
           n == Cardinality(keys)
<1>0. /\ flush \in Flushes /\ flush.pc = "del" /\ flush.status = "none" /\ UNCHANGED gone
      /\ stayed \subseteq Present /\ removed \in Nat
  BY DEF TypeOK, Delete
<1>1. n \in Nat
  <2>1. keys \in SUBSET Keys
    BY DEF Present
  <2> QED
    BY <2>1, KeysAreFinite
<1>2. /\ Become(states) /\ removed' = removed + n
      /\ flush' \in {Continued([f EXCEPT !.deleted = flush.deleted + n]),
                     [f EXCEPT !.sends = flush.sends + 1, !.lost = TRUE]}
  BY <1>0 DEF Delete, Counted, Flushes
<1>3. stayed' \subseteq stayed \ keys
  <2>1. \A k \in keys : k \in Keys /\ states[k] = "absent"
    BY DEF Present
  <2> QED
    BY <1>2, <2>1 DEF Become
<1>4. stayed' \cap flush.batch = {}
  BY <1>0, <1>3
<1>5. /\ f \in Flushes /\ f.due = flush.due \ keys /\ f.batch = flush.batch /\ f.last = flush.last
      /\ f.pc = "del" /\ f.status = "none" /\ f.deleted = flush.deleted /\ f.lost = flush.lost
      /\ f.spoilt = flush.spoilt /\ flush.deleted \in Nat
  BY <1>0 DEF Flushes
<1> HIDE DEF keys, f, states, n
<1>6. CASE flush' = [f EXCEPT !.sends = flush.sends + 1, !.lost = TRUE]
  <2>1. /\ flush'.due = f.due /\ flush'.batch = f.batch /\ flush'.last = f.last /\ flush'.lost
        /\ flush'.pc = "del" /\ flush'.status = "none" /\ flush'.deleted = flush.deleted
        /\ flush'.spoilt = flush.spoilt
    BY <1>5, <1>6 DEF Flushes
  <2> QED
    BY <1>0, <1>1, <1>2, <1>3, <1>5, <2>1
<1>7. CASE flush' = Continued([f EXCEPT !.deleted = flush.deleted + n])
  <2>1. /\ flush'.due = f.due /\ flush'.lost = f.lost /\ flush'.deleted = flush.deleted + n
        /\ flush'.spoilt = f.spoilt
        /\ \/ flush'.pc = "scan" /\ flush'.status = "none"
           \/ flush'.pc = "end" /\ flush.last
    BY <1>5, <1>7 DEF Continued, Flushes
  <2> QED
    BY <1>0, <1>1, <1>2, <1>3, <1>4, <1>5, <2>1
<1> QED
  BY <1>2, <1>6, <1>7

LEMMA NextFlushInv == TypeOK /\ FlushInv /\ [Next]_vars => FlushInv'
<1> SUFFICES ASSUME TypeOK, FlushInv, [Next]_vars PROVE FlushInv'
  OBVIOUS
<1>0. flush = [flush EXCEPT !.due = flush.due, !.spoilt = flush.spoilt]
  BY DEF TypeOK, Flushes
<1>1. CASE FlushMoves
  BY <1>1, FlushMovesInv
<1>2. CASE Delete
  BY <1>2, DeleteInv
<1>3. CASE SeedMoves \/ Execute \/ UNCHANGED vars \/ \E r \in {"seed", "flush"} : ClientGone(r)
  <2>1. UNCHANGED <<flush, removed>> /\ gone \subseteq gone'
    BY <1>3 DEF SeedMoves, SeedRequest, QueueKey, Close, Send, Executed, SeedBreaks, SeedUnchanged,
                Execute, ClientGone, vars, history
  <2>2. stayed' \subseteq stayed
    BY <1>3 DEF SeedMoves, SeedRequest, QueueKey, Close, Send, Executed, SeedBreaks, SeedUnchanged,
                Execute, Become, ClientGone, vars, history
  <2> QED
    BY <1>0, <2>1, <2>2, FlushInvKept
<1>4. CASE (\E k \in Keys : OtherClient(k) \/ Expires(k)) \/ Elect
  <2>1. PICK states \in [Keys -> States] : \E due \in SUBSET Owed(states), spoilt \in BOOLEAN :
           /\ Become(states)
           /\ flush' = [flush EXCEPT !.due = due, !.spoilt = spoilt]
           /\ flush.spoilt => spoilt
           /\ ~spoilt /\ flush.pc \in {"scan", "del"} => due = Owed(states)
           /\ UNCHANGED <<gone, removed>>
    BY <1>4, ClusterMoves
  <2>2. stayed' \subseteq stayed /\ \A k \in stayed' : k \in flush.due => k \in Owed(states)
    BY <2>1 DEF Become, Owed
  <2>3. Owed(states) \subseteq flush.due
    BY DEF Owed
  <2> QED
    BY <2>1, <2>2, <2>3, FlushInvKept
<1> QED
  BY <1>1, <1>2, <1>3, <1>4, NextCases DEF SeedMoves, FlushMoves

LEMMA FlushInvariance == Spec => []FlushInv
BY SeedInvariance, InitFlushInv, NextFlushInv, PTL DEF Spec

\* However often DEL is sent, and whatever others write and remove meanwhile, a flush
\* never tells of more deleted keys than it removed, and of all if no reply was lost.
THEOREM DeletionsAreCounted == Spec => []DeletedAreCounted
<1>1. FlushInv => DeletedAreCounted
  BY DEF FlushInv, RepliesAreCounted, DeletedAreCounted
<1> QED
  BY <1>1, FlushInvariance, PTL

\* No key that was there all the while outlives a flush that succeeds, in whatever
\* batches SCAN returns the keys.
THEOREM NothingIsLeft == Spec => []FlushLeavesNone
<1>1. FlushInv => FlushLeavesNone
  BY DEF FlushInv
<1> QED
  BY <1>1, FlushInvariance, PTL
-----------------------------------------------------------------------------
(* What a seed has written.                                                *)

LEMMA InitWriteInv == Init => WriteInv
<1> SUFFICES ASSUME Init PROVE WriteInv
  OBVIOUS
<1>1. /\ seed.flushed = 0 /\ seed.created = 0 /\ seed.status = "none"
      /\ \A k \in Keys : written[k] = 0
  BY DEF Init
<1> QED
  BY <1>1 DEF WriteInv, WrittenInOrder, ExpiringInOrder, SeedIsWritten, SeededExpire

\* The keys that a seed has created are keys.
LEMMA CreatedAreKeys ==
  ASSUME TypeOK
  PROVE  /\ 1..seed.created \subseteq Keys /\ \A k \in Keys : k \in Int /\ written[k] \in Nat
         /\ seed.created \in Nat /\ seed.flushed \in Nat /\ seed.flushed <= seed.created
         /\ seed.done \in Nat
<1>1. /\ seed.created \in Nat /\ seed.flushed \in Nat /\ seed.flushed <= seed.created
      /\ seed.done \in Nat /\ seed.created <= Limit /\ Limit \in Nat
  BY PipelineNumbers
<1> QED
  BY <1>1 DEF TypeOK, Keys

\* While Seed does nothing, nobody else writes for it, and who takes an expiry away is
\* a stranger.
LEMMA WriteInvKept ==
  ASSUME TypeOK, WriteInv, UNCHANGED written, foreign \subseteq foreign', gone \subseteq gone',
         seed' = seed \/ \E broken : seed' = [seed EXCEPT !.broken = broken],
         \A k \in Keys : key'[k] = "lasting" => key[k] = "lasting" \/ k \in foreign'
  PROVE  WriteInv'
<1>1. /\ seed'.pc = seed.pc /\ seed'.done = seed.done
      /\ seed'.refused = seed.refused /\ seed'.status = seed.status /\ seed'.ttl = seed.ttl
      /\ seed'.created = seed.created /\ seed'.flushed = seed.flushed /\ seed'.count = seed.count
      /\ seed'.resent = seed.resent
  BY DEF TypeOK, Seeds
<1>2. WrittenInOrder' /\ SeedIsWritten'
  BY <1>1 DEF WriteInv, WrittenInOrder, SeedIsWritten, Sent
<1>3. ExpiringInOrder' /\ SeededExpire'
  BY <1>1, CreatedAreKeys DEF WriteInv, ExpiringInOrder, SeededExpire, ExpireSent
<1> QED
  BY <1>2, <1>3 DEF WriteInv

\* A seed that ends without success claims nothing.
LEMMA SeedEndsWrite ==
  ASSUME TypeOK, WriteInv, SeedEnds("error"), UNCHANGED <<key, written, foreign>>
  PROVE  WriteInv'
<1>1. /\ seed'.pc = "end" /\ seed'.status = "error" /\ seed'.done = seed.done
      /\ seed'.refused = seed.refused /\ seed'.ttl = seed.ttl
      /\ seed'.created = seed.created /\ seed'.flushed = seed.flushed
      /\ seed'.resent = seed.resent
  BY DEF TypeOK, Seeds, SeedEnds
<1> QED
  BY <1>1 DEF WriteInv, WrittenInOrder, ExpiringInOrder, SeedIsWritten, SeededExpire, Sent, ExpireSent

LEMMA SeedMovesWrite ==
  ASSUME TypeOK, SeedInv, WriteInv, SeedMoves
  PROVE  WriteInv'
<1>0. /\ seed \in Seeds /\ UNCHANGED <<key, written, foreign, gone>>
      /\ WrittenInOrder /\ ExpiringInOrder
  BY DEF TypeOK, SeedMoves, SeedRequest, QueueKey, Close, Send, Executed, SeedBreaks, SeedUnchanged,
         cluster, history, WriteInv
<1>1. CASE SeedRequest
  <2>1. PICK count : \/ seed' = [seed EXCEPT !.pc = "queue", !.count = count]
                     \/ seed' = [seed EXCEPT !.pc = "end", !.status = "rejected"]
    BY <1>1 DEF SeedRequest
  <2>2. /\ seed'.done = seed.done /\ seed'.refused = seed.refused /\ seed'.ttl = seed.ttl
        /\ seed'.created = seed.created /\ seed'.flushed = seed.flushed
        /\ seed'.resent = seed.resent /\ seed'.status # "ok"
    BY <1>0, <1>1, <2>1 DEF SeedRequest, SeedInv, NothingAhead, Seeds
  <2>3. seed.pc # "end"
    BY <1>1 DEF SeedRequest
  <2> QED
    BY <1>0, <2>2, <2>3 DEF WriteInv, WrittenInOrder, ExpiringInOrder, SeedIsWritten, SeededExpire,
                            Sent, ExpireSent
<1>2. CASE QueueKey
  <2>1. /\ seed'.done = 0 /\ seed'.refused = seed.refused /\ seed'.ttl = seed.ttl
        /\ seed'.created = seed.created + 1 /\ seed'.flushed = seed.flushed
        /\ seed'.resent = seed.resent /\ seed'.status # "ok" /\ seed.done = 0 /\ seed.pc # "end"
    BY <1>0, <1>2 DEF QueueKey, SeedInv, NothingAhead, Seeds
  <2>2. \A k \in Int : k > seed.flushed => ~Sent(k)' /\ ~ExpireSent(k)'
    BY <2>1, CreatedAreKeys DEF Sent, ExpireSent
  <2>3. WrittenInOrder'
    BY <1>0, <2>1, <2>2, CreatedAreKeys DEF WrittenInOrder, Sent
  <2>4. ExpiringInOrder'
    BY <1>0, <2>1, <2>2, CreatedAreKeys DEF ExpiringInOrder
  <2> QED
    BY <2>1, <2>3, <2>4 DEF WriteInv, SeedIsWritten, SeededExpire
<1>3. CASE Close
  <2>1. CASE seed' = [seed EXCEPT !.pc = "exec"]
    <3>1. /\ seed'.done = seed.done /\ seed'.refused = seed.refused /\ seed'.ttl = seed.ttl
          /\ seed'.created = seed.created /\ seed'.flushed = seed.flushed
          /\ seed'.resent = seed.resent /\ seed'.status # "ok" /\ seed.pc # "end"
      BY <1>0, <1>3, <2>1 DEF Close, SeedInv, NothingAhead, Seeds
    <3> QED
      BY <1>0, <3>1 DEF WriteInv, WrittenInOrder, ExpiringInOrder, SeedIsWritten, SeededExpire,
                        Sent, ExpireSent
  <2>2. CASE Pending = 0 /\ SeedEnds("ok")
    <3>1. /\ seed'.done = seed.done /\ seed'.refused = seed.refused /\ seed'.ttl = seed.ttl
          /\ seed'.created = seed.created /\ seed'.flushed = seed.flushed /\ seed'.count = seed.count
          /\ seed'.resent = seed.resent /\ seed'.pc = "end"
      BY <1>0, <2>2 DEF SeedEnds, Seeds
    <3>2. seed.created = seed.flushed
      BY <2>2, CreatedAreKeys DEF Pending
    <3>3. \/ seed.created = seed.count
          \/ "seed" \in gone /\ seed.created % Batch = 0
      BY <1>3, <2>2 DEF Close, SeedInv, PipelinesAreFull
    <3>4. WrittenInOrder' /\ ExpiringInOrder'
      BY <1>0, <3>1 DEF WrittenInOrder, ExpiringInOrder, Sent, ExpireSent
    <3>5. \A k \in 1..seed.created : written[k] > 0 /\ (~seed.resent => written[k] = 1)
      BY <1>0, <3>2, CreatedAreKeys DEF WrittenInOrder
    <3>6. SeedIsWritten'
      BY <1>0, <3>1, <3>3, <3>5 DEF SeedIsWritten
    <3>7. SeededExpire'
      BY <1>0, <3>1, <3>2, CreatedAreKeys DEF ExpiringInOrder, SeededExpire
    <3> QED
      BY <3>4, <3>6, <3>7 DEF WriteInv
  <2> QED
    BY <1>3, <2>1, <2>2 DEF Close
<1>4. CASE Send
  <2>1. CASE seed' = [seed EXCEPT !.sends = 1]
    <3>1. /\ seed'.done = seed.done /\ seed'.refused = seed.refused /\ seed'.ttl = seed.ttl
          /\ seed'.created = seed.created /\ seed'.flushed = seed.flushed
          /\ seed'.resent = seed.resent /\ seed'.status # "ok" /\ seed.pc # "end"
      BY <1>0, <1>4, <2>1 DEF Send, SeedInv, NothingAhead, Seeds
    <3> QED
      BY <1>0, <3>1 DEF WriteInv, WrittenInOrder, ExpiringInOrder, SeedIsWritten, SeededExpire,
                        Sent, ExpireSent
  <2> QED
    BY <1>0, <1>4, <2>1, SeedEndsWrite DEF Send
<1>5. CASE Executed
  <2>1. CASE /\ ~seed.refused
             /\ seed' = [seed EXCEPT !.pc = "queue", !.flushed = seed.created, !.done = 0, !.sends = 0]
    <3>1. /\ seed'.done = 0 /\ seed'.refused = seed.refused /\ seed'.ttl = seed.ttl
          /\ seed'.created = seed.created /\ seed'.flushed = seed.created
          /\ seed'.resent = seed.resent /\ seed'.status # "ok" /\ seed.pc # "end"
      BY <1>0, <1>5, <2>1 DEF Executed, SeedInv, NothingAhead, Seeds
    <3>2. seed.done = IF seed.ttl THEN 2 * (seed.created - seed.flushed) ELSE seed.created - seed.flushed
      BY <1>5, CreatedAreKeys DEF Executed, Commands, Pending, PerKey
    <3>3. \A k \in seed.flushed + 1..seed.created : Sent(k) /\ (seed.ttl => ExpireSent(k))
      BY <3>2, CreatedAreKeys DEF Sent, ExpireSent
    <3>4. \A k \in Int : k > seed.created => ~Sent(k)
      BY <3>2, CreatedAreKeys DEF Sent
    <3>5. \A k \in 1..seed.created : written[k] > 0
      BY <1>0, <2>1, <3>3, CreatedAreKeys DEF WrittenInOrder
    <3>6. ~seed.resent => \A k \in Keys : k > seed.created => written[k] = 0
      BY <1>0, <3>1, <3>4, CreatedAreKeys DEF WrittenInOrder
    <3>7. WrittenInOrder'
      BY <1>0, <3>1, <3>5, <3>6, CreatedAreKeys DEF WrittenInOrder
    <3>8. ExpiringInOrder'
      BY <1>0, <2>1, <3>1, <3>3, CreatedAreKeys DEF ExpiringInOrder
    <3> QED
      BY <3>1, <3>7, <3>8 DEF WriteInv, SeedIsWritten, SeededExpire
  <2> QED
    BY <1>0, <1>5, <2>1, SeedEndsWrite DEF Executed
<1>6. CASE SeedBreaks
  <2>1. CASE seed' = [seed EXCEPT !.broken = FALSE, !.refused = FALSE, !.resent = TRUE,
                                  !.done = 0, !.sends = seed.sends + 1]
    <3>1. /\ seed'.done = 0 /\ seed'.ttl = seed.ttl
          /\ seed'.created = seed.created /\ seed'.flushed = seed.flushed
          /\ seed'.resent /\ seed'.status # "ok"
      BY <1>0, <1>6, <2>1 DEF SeedBreaks, SeedInv, NothingAhead, Seeds
    <3>2. \A k \in Int : k > seed.flushed => ~Sent(k)' /\ ~ExpireSent(k)'
      BY <3>1, CreatedAreKeys DEF Sent, ExpireSent
    <3>3. WrittenInOrder'
      BY <1>0, <3>1, <3>2, CreatedAreKeys DEF WrittenInOrder
    <3>4. ExpiringInOrder'
      BY <1>0, <3>1, <3>2, CreatedAreKeys DEF ExpiringInOrder
    <3> QED
      BY <3>1, <3>3, <3>4 DEF WriteInv, SeedIsWritten, SeededExpire
  <2> QED
    BY <1>0, <1>6, <2>1, SeedEndsWrite DEF SeedBreaks
<1> QED
  BY <1>1, <1>2, <1>3, <1>4, <1>5, <1>6 DEF SeedMoves
\* Which key the server's next command is for, and which commands that adds.
LEMMA NextCommand ==
  ASSUME TypeOK, Execute
  PROVE  LET k == seed.flushed + 1 + (seed.done \div PerKey)
             isWrite == seed.done % PerKey = 0
         IN  /\ k \in Keys /\ k > seed.flushed /\ k <= seed.created
             /\ \A l \in Int : Sent(l)' <=> Sent(l) \/ (isWrite /\ l = k)
             /\ isWrite => ~Sent(k)
             /\ seed.ttl => \A l \in Int : ExpireSent(l)' <=> ExpireSent(l) \/ (~isWrite /\ l = k)
             /\ ~isWrite => seed.ttl
             /\ seed.ttl /\ isWrite => \A l \in Int : l = k => ~ExpireSent(l)'
<1> DEFINE k == seed.flushed + 1 + (seed.done \div PerKey)
           isWrite == seed.done % PerKey = 0
<1>1. /\ seed'.done = seed.done + 1 /\ seed'.ttl = seed.ttl /\ seed'.flushed = seed.flushed
      /\ seed.done < Commands /\ seed.done \in Nat /\ seed.flushed \in Nat /\ seed.created \in Nat
      /\ Pending = seed.created - seed.flushed /\ Pending \in Nat /\ seed.created <= Limit
      /\ Limit \in Nat
  BY ExecuteFields, PipelineNumbers DEF Pending
<1>2. CASE ~seed.ttl
  <2>1. PerKey = 1 /\ seed.done < Pending
    BY <1>1, <1>2 DEF Commands, PerKey
  <2>2. k = seed.flushed + 1 + seed.done /\ isWrite
    BY <1>1, <2>1
  <2> HIDE DEF k, isWrite
  <2>3. \A l \in Int : (Sent(l) <=> l - seed.flushed - 1 < seed.done)
                       /\ (Sent(l)' <=> l - seed.flushed - 1 < seed.done + 1)
    BY <1>1, <1>2 DEF Sent
  <2>4. k \in Keys /\ k \in Int /\ k > seed.flushed /\ k <= seed.created
    BY <1>1, <2>1, <2>2 DEF Keys
  <2> QED
    BY <1>1, <1>2, <2>2, <2>3, <2>4 DEF k, isWrite
<1>3. CASE seed.ttl
  <2>1. PerKey = 2 /\ seed.done < 2 * Pending
    BY <1>1, <1>3 DEF Commands, PerKey
  <2>2. PICK q \in Nat : q = seed.done \div 2 /\ (seed.done = 2 * q \/ seed.done = 2 * q + 1)
    BY <1>1
  <2>3. k = seed.flushed + 1 + q /\ (isWrite <=> seed.done = 2 * q)
    BY <1>1, <2>1, <2>2
  <2> HIDE DEF k, isWrite
  <2>4. \A l \in Int : /\ Sent(l) <=> 2 * (l - seed.flushed - 1) < seed.done
                       /\ Sent(l)' <=> 2 * (l - seed.flushed - 1) < seed.done + 1
                       /\ ExpireSent(l) <=> 2 * (l - seed.flushed) <= seed.done
                       /\ ExpireSent(l)' <=> 2 * (l - seed.flushed) <= seed.done + 1
    BY <1>1, <1>3 DEF Sent, ExpireSent
  <2>5. k \in Keys /\ k \in Int /\ k > seed.flushed /\ k <= seed.created
    BY <1>1, <2>1, <2>2, <2>3 DEF Keys
  <2>6. \A l \in Int : Sent(l)' <=> Sent(l) \/ (isWrite /\ l = k)
    <3> SUFFICES ASSUME NEW l \in Int
                 PROVE  2 * (l - seed.flushed - 1) < seed.done + 1 <=>
                          2 * (l - seed.flushed - 1) < seed.done \/ (isWrite /\ l = k)
      BY <2>4
    <3> QED
      BY <1>1, <2>2, <2>3
  <2>7. \A l \in Int : ExpireSent(l)' <=> ExpireSent(l) \/ (~isWrite /\ l = k)
    <3> SUFFICES ASSUME NEW l \in Int
                 PROVE  2 * (l - seed.flushed) <= seed.done + 1 <=>
                          2 * (l - seed.flushed) <= seed.done \/ (~isWrite /\ l = k)
      BY <2>4
    <3> QED
      BY <1>1, <2>2, <2>3
  <2>8. isWrite => ~Sent(k) /\ \A l \in Int : l = k => ~ExpireSent(l)'
    BY <1>1, <2>2, <2>3, <2>4, <2>5
  <2> QED
    BY <1>3, <2>5, <2>6, <2>7, <2>8 DEF k, isWrite
<1> QED
  BY <1>2, <1>3

LEMMA ExecuteWrite ==
  ASSUME TypeOK, SeedInv, WriteInv, Execute
  PROVE  WriteInv'
<1> DEFINE k == seed.flushed + 1 + (seed.done \div PerKey)
           isWrite == seed.done % PerKey = 0
<1>0. WrittenInOrder /\ ExpiringInOrder /\ key \in [Keys -> States] /\ written \in [Keys -> Nat]
  BY DEF WriteInv, TypeOK
<1>1. /\ k \in Keys /\ k > seed.flushed /\ k <= seed.created
      /\ \A l \in Int : Sent(l)' <=> Sent(l) \/ (isWrite /\ l = k)
      /\ isWrite => ~Sent(k)
      /\ seed.ttl => \A l \in Int : ExpireSent(l)' <=> ExpireSent(l) \/ (~isWrite /\ l = k)
      /\ ~isWrite => seed.ttl
      /\ seed.ttl /\ isWrite => \A l \in Int : l = k => ~ExpireSent(l)'
  BY NextCommand
<1>2. /\ seed'.ttl = seed.ttl /\ seed'.created = seed.created /\ seed'.flushed = seed.flushed
      /\ seed'.resent = seed.resent /\ seed'.status = "none" /\ seed.pc # "end" /\ seed'.pc = seed.pc
      /\ (~seed'.refused => ~seed.refused) /\ UNCHANGED foreign
  BY ExecuteFields DEF SeedInv, NothingAhead
<1>3. \/ /\ seed'.refused /\ UNCHANGED <<key, written>>
      \/ /\ \E s \in IF isWrite THEN States ELSE {"absent", "expiring"} : Become([key EXCEPT ![k] = s])
         /\ written' = IF isWrite THEN [written EXCEPT ![k] = written[k] + 1] ELSE written
  <2>1. seed \in Seeds
    BY DEF TypeOK
  <2> QED
    BY <2>1 DEF Execute, States, Seeds
<1> HIDE DEF k, isWrite
<1>4. CASE seed'.refused /\ UNCHANGED <<key, written>>
  <2>1. \A l \in Int : ~Sent(l)' => ~Sent(l)
    BY <1>1
  <2>2. WrittenInOrder'
    BY <1>0, <1>2, <1>4, <2>1, CreatedAreKeys DEF WrittenInOrder
  <2>3. ExpiringInOrder'
    BY <1>0, <1>2, <1>4 DEF ExpiringInOrder
  <2> QED
    BY <1>2, <2>2, <2>3 DEF WriteInv, SeedIsWritten, SeededExpire
<1>5. CASE /\ \E s \in IF isWrite THEN States ELSE {"absent", "expiring"} : Become([key EXCEPT ![k] = s])
           /\ written' = IF isWrite THEN [written EXCEPT ![k] = written[k] + 1] ELSE written
  <2>1. \A l \in Keys : /\ l # k => key'[l] = key[l]
                        /\ ~isWrite /\ l = k => key'[l] # "lasting"
    BY <1>0, <1>5 DEF Become
  <2>2. \A l \in Keys : written'[l] = IF isWrite /\ l = k THEN written[l] + 1 ELSE written[l]
    BY <1>0, <1>5
  <2>3. WrittenInOrder'
    <3>1. \A l \in 1..seed.flushed : l \in Keys /\ written'[l] > 0
      BY <1>0, <2>2, CreatedAreKeys DEF WrittenInOrder
    <3>2. \A l \in seed.flushed + 1..seed.created : Sent(l)' /\ ~seed'.refused => written'[l] > 0
      BY <1>0, <1>1, <1>2, <2>2, CreatedAreKeys DEF WrittenInOrder
    <3>3. ~seed.resent => \A l \in Keys : written'[l] <= 1
      BY <1>0, <1>1, <1>2, <2>2, CreatedAreKeys DEF WrittenInOrder
    <3>4. ~seed.resent => \A l \in Keys : l > seed.flushed /\ ~Sent(l)' => written'[l] = 0
      BY <1>0, <1>1, <1>2, <2>2, CreatedAreKeys DEF WrittenInOrder
    <3> QED
      BY <1>2, <3>1, <3>2, <3>3, <3>4 DEF WrittenInOrder
  <2>4. ExpiringInOrder'
    <3> SUFFICES ASSUME seed.ttl, NEW l \in 1..seed.created,
                        l <= seed.flushed \/ (ExpireSent(l)' /\ ~seed'.refused)
                 PROVE  l \in foreign \/ key'[l] # "lasting"
      BY <1>2 DEF ExpiringInOrder
    <3>1. l \in Keys /\ l \in Int
      BY CreatedAreKeys
    <3>2. CASE l = k
      BY <1>1, <2>1, <3>1, <3>2, CreatedAreKeys
    <3>3. CASE l # k
      BY <1>0, <1>1, <1>2, <2>1, <3>1, <3>3 DEF ExpiringInOrder
    <3> QED
      BY <3>2, <3>3
  <2> QED
    BY <1>2, <2>3, <2>4 DEF WriteInv, SeedIsWritten, SeededExpire
<1> QED
  BY <1>3, <1>4, <1>5

LEMMA NextWriteInv == TypeOK /\ SeedInv /\ WriteInv /\ [Next]_vars => WriteInv'
<1> SUFFICES ASSUME TypeOK, SeedInv, WriteInv, [Next]_vars PROVE WriteInv'
  OBVIOUS
<1>1. CASE SeedMoves
  BY <1>1, SeedMovesWrite
<1>2. CASE Execute
  BY <1>2, ExecuteWrite
<1>3. CASE FlushMoves \/ UNCHANGED vars \/ \E r \in {"seed", "flush"} : ClientGone(r)
  <2>1. UNCHANGED <<key, written, foreign, seed>> /\ gone \subseteq gone'
    BY <1>3 DEF FlushMoves, FlushRequest, Scan, ScanFails, FlushCancelled, DeleteFails, FlushUnchanged,
                cluster, vars, history, ClientGone
  <2> QED
    BY <2>1, WriteInvKept
<1>4. CASE Delete
  <2>1. UNCHANGED <<written, foreign, seed, gone>>
    BY <1>4 DEF Delete
  <2>2. \A k \in Keys : key'[k] = "lasting" => key[k] = "lasting"
    BY <1>4 DEF Delete, Become
  <2> QED
    BY <2>1, <2>2, WriteInvKept
<1>5. CASE (\E k \in Keys : OtherClient(k) \/ Expires(k)) \/ Elect
  <2>1. PICK states \in [Keys -> States], broken \in BOOLEAN :
           /\ Become(states)
           /\ seed' = [seed EXCEPT !.broken = broken]
           /\ foreign \subseteq foreign'
           /\ \A k \in Keys : states[k] = "lasting" => key[k] = "lasting" \/ k \in foreign'
           /\ UNCHANGED <<gone, written>>
    BY <1>5, ClusterMoves
  <2>2. key' = states
    BY <2>1 DEF Become
  <2> QED
    BY <2>1, <2>2, WriteInvKept
<1> QED
  BY <1>1, <1>2, <1>3, <1>4, <1>5, NextCases DEF SeedMoves, FlushMoves

LEMMA WriteInvariance == Spec => []WriteInv
BY SeedInvariance, InitWriteInv, NextWriteInv, PTL DEF Spec

\* A seed that succeeds has written every key it counts, once if no pipeline was sent
\* twice, and counts all it was asked for unless it was cancelled just after a full
\* pipeline: for any count and any size of a pipeline.
THEOREM SeedsAreWritten == Spec => []SeedIsWritten
<1>1. WriteInv => SeedIsWritten
  BY DEF WriteInv
<1> QED
  BY <1>1, WriteInvariance, PTL

\* Whatever breaks, is refused, or is flushed between a key and its EXPIRE: a seed with
\* a TTL that succeeds leaves no key of its own without one.
THEOREM SeedsExpire == Spec => []SeededExpire
<1>1. WriteInv => SeededExpire
  BY DEF WriteInv
<1> QED
  BY <1>1, WriteInvariance, PTL
=============================================================================
