------------------------------ MODULE ChaosData ------------------------------
(***************************************************************************)
(* POST /ops/chaos/seed and /ops/chaos/flush (internal/chaos/seeder.go and *)
(* their handlers): one request of each, or of one kind only, when another *)
(* request of the other kind is as good as another client.                 *)
(*                                                                         *)
(* Seed queues a write, and an EXPIRE if a TTL is asked for, for one key   *)
(* after the other and sends them in pipelines; the server takes other     *)
(* clients' commands between those of a pipeline.  Flush deletes what SCAN *)
(* returns, batch by batch.                                                *)
(*                                                                         *)
(* External: other clients change keys; another node is elected, which may *)
(* have missed the latest changes, and go-redis dials it; a connection     *)
(* breaks, and go-redis sends the same commands again, or gives up.        *)
(***************************************************************************)
EXTENDS Integers, FiniteSets

CONSTANTS
  Together,      \* which of "seed" and "flush" may be requested together
  Batch,         \* seedPipelineBatch
  DefaultCount,  \* the key_count of a request that names none
  Limit,         \* the largest key_count
  Asked,         \* bound: the values of key_count
  MaxSends,      \* bound: go-redis sends a command so often
  MaxEvents      \* bound: changes by other clients, and elections

ASSUME TogetherAssumption == Together \subseteq SUBSET {"seed", "flush"}
ASSUME BatchAssumption == Batch \in Nat \ {0}
ASSUME LimitAssumption == Limit \in Nat /\ DefaultCount \in 1..Limit
ASSUME AskedAssumption == Asked # {} /\ Asked \subseteq Int
ASSUME BoundsAssumption == MaxSends \in Nat \ {0} /\ MaxEvents \in Nat

VARIABLES
  key,        \* key[k]: whether the master has k, and with an expiry
  changed,    \* the keys that were changed by anyone
  events,     \* how often another client did, or a node was elected
  gone,       \* the requests whose context is cancelled
  seed,       \* Seed
  flush,      \* Flush
  written,    \* history: written[k], how often Seed's command wrote k
  foreign,    \* history: the keys another client wrote, or an election brought back
  removed,    \* history: how many keys Flush's DELs removed
  stayed      \* history: the keys that are there since Flush began

cluster == <<key, changed, events>>
history == <<written, foreign, removed, stayed>>
vars == <<cluster, gone, seed, flush, history>>

\* "<prefix><i>", all of which match the pattern.
Keys == 1..Limit
States == {"absent", "lasting", "expiring"}
Present == {k \in Keys : key[k] # "absent"}

Seeds ==
  [pc : {"handler", "queue", "exec", "end"},
   ttl : BOOLEAN,            \* ttl_seconds > 0
   count : 0..Limit, created : 0..Limit,
   flushed : 0..Limit,       \* those before are in no pipeline any more
   done : 0..2*Batch,        \* the pipeline's commands the server executed
   sends : 0..MaxSends,
   broken : BOOLEAN,         \* this connection is
   refused : BOOLEAN,        \* a command of the pipeline was
   resent : BOOLEAN,         \* history: some pipeline was
   status : {"none", "ok", "rejected", "error"}]

Flushes ==
  [pc : {"handler", "scan", "del", "end"},
   due : SUBSET Keys,        \* what SCAN still owes
   batch : SUBSET Keys,
   last : BOOLEAN,           \* the cursor was 0
   sends : 0..MaxSends,
   deleted : Nat,
   spoilt : BOOLEAN,         \* history: a DEL failed, or an election came
   lost : BOOLEAN,           \* history: a reply to DEL was lost
   status : {"none", "ok", "rejected", "error"}]

TypeOK ==
  /\ key \in [Keys -> States]
  /\ changed \subseteq Keys /\ foreign \subseteq Keys
  /\ events \in 0..MaxEvents
  /\ gone \subseteq {"seed", "flush"}
  /\ seed \in Seeds /\ flush \in Flushes
  /\ seed.flushed <= seed.created /\ seed.created <= seed.count
  /\ seed.created - seed.flushed <= Batch
  /\ written \in [Keys -> Nat] /\ removed \in Nat
  /\ stayed \subseteq Present
  /\ flush.due \subseteq stayed

Init ==
  /\ key \in [Keys -> States]
  /\ changed = {} /\ events = 0 /\ gone = {}
  /\ \E requests \in Together, ttl \in BOOLEAN :
       /\ seed = [pc |-> IF "seed" \in requests THEN "handler" ELSE "end", ttl |-> ttl,
                  count |-> 0, created |-> 0, flushed |-> 0, done |-> 0, sends |-> 0,
                  broken |-> FALSE, refused |-> FALSE, resent |-> FALSE, status |-> "none"]
       /\ flush = [pc |-> IF "flush" \in requests THEN "handler" ELSE "end",
                   due |-> {}, batch |-> {}, last |-> FALSE, sends |-> 0, deleted |-> 0,
                   spoilt |-> FALSE, lost |-> FALSE, status |-> "none"]
  /\ written = [k \in Keys |-> 0] /\ foreign = {} /\ removed = 0 /\ stayed = {}

-----------------------------------------------------------------------------
(* The cluster (external).                                                 *)

\* The keys become these; what is absent now does not stay, and is not owed.
Become(states) ==
  /\ key' = states
  /\ changed' = changed \cup {k \in Keys : states[k] # key[k]}
  /\ stayed' = {k \in stayed : states[k] # "absent"}

Owed(states) == {k \in flush.due : states[k] # "absent"}

Underway == seed.pc # "end" \/ flush.pc # "end"

OtherClient(k) ==
  /\ Underway /\ events < MaxEvents
  /\ events' = events + 1
  /\ \E s \in States \ {key[k]} :
       /\ Become([key EXCEPT ![k] = s])
       /\ flush' = [flush EXCEPT !.due = Owed(key')]
  /\ foreign' = IF key'[k] = "absent" THEN foreign ELSE foreign \cup {k}
  /\ UNCHANGED <<gone, seed, written, removed>>

Expires(k) ==
  /\ Underway /\ key[k] = "expiring"
  /\ Become([key EXCEPT ![k] = "absent"])
  /\ flush' = [flush EXCEPT !.due = Owed(key')]
  /\ UNCHANGED <<events, gone, seed, written, foreign, removed>>

\* The new master has missed some changes: a key that was written is not there, or one
\* that was removed is.  Its SCAN takes the old one's cursor and owes nothing.  What is
\* on its way is not answered.
Elect ==
  /\ Underway /\ events < MaxEvents
  /\ events' = events + 1
  /\ \E missed \in SUBSET changed :
       Become([k \in Keys |-> IF k \notin missed THEN key[k]
                             ELSE IF key[k] = "absent" THEN "lasting" ELSE "absent"])
  /\ seed' = [seed EXCEPT !.broken = seed.pc = "exec" /\ seed.sends > 0]
  /\ flush' = [flush EXCEPT !.due = {}, !.spoilt = @ \/ flush.pc \in {"scan", "del"}]
  /\ foreign' = foreign \cup {k \in Keys : key'[k] # "absent"}
  /\ UNCHANGED <<gone, written, removed>>

ClientGone(r) ==
  /\ IF r = "seed" THEN seed.pc # "end" ELSE flush.pc # "end"
  /\ gone' = gone \cup {r}
  /\ UNCHANGED <<cluster, seed, flush, history>>

-----------------------------------------------------------------------------
(* Seed.                                                                   *)

SeedUnchanged == UNCHANGED <<cluster, gone, flush, history>>

\* SeedData: confirm must be set; no key_count is the default, too many are rejected.
SeedRequest ==
  /\ seed.pc = "handler"
  /\ \E confirm \in BOOLEAN, asked \in Asked :
       LET count == IF asked <= 0 THEN DefaultCount ELSE asked
       IN  seed' = IF confirm /\ count <= Limit
                   THEN [seed EXCEPT !.pc = "queue", !.count = count]
                   ELSE [seed EXCEPT !.pc = "end", !.status = "rejected"]
  /\ SeedUnchanged

\* Wrong variant: counted after the pipeline is looked at.
IsFullOnceMore(created) == created > 1 /\ (created - 1) % Batch = 0

IsFull(created) == created % Batch = 0

\* The context is checked before every key; the key is queued and counted.
QueueKey ==
  /\ seed.pc = "queue"
  /\ "seed" \notin gone /\ seed.created < seed.count
  /\ seed' = [seed EXCEPT !.created = @ + 1,
                          !.pc = IF IsFull(seed.created + 1) THEN "exec" ELSE "queue"]
  /\ SeedUnchanged

Pending == seed.created - seed.flushed
PerKey == IF seed.ttl THEN 2 ELSE 1
Commands == Pending * PerKey

SeedEnds(status) == seed' = [seed EXCEPT !.pc = "end", !.status = status]

\* Wrong variant: the last, incomplete pipeline is not sent.
CloseUnflushed ==
  /\ seed.pc = "queue"
  /\ "seed" \in gone \/ seed.created = seed.count
  /\ SeedEnds("ok")
  /\ SeedUnchanged

\* The loop is over: what is left in the pipeline is sent, and an empty pipeline is
\* not: then the request succeeds though it was cancelled.
Close ==
  /\ seed.pc = "queue"
  /\ "seed" \in gone \/ seed.created = seed.count
  /\ IF Pending = 0 THEN SeedEnds("ok") ELSE seed' = [seed EXCEPT !.pc = "exec"]
  /\ SeedUnchanged

\* pipe.Exec sends the pipeline, if the request is not cancelled.
Send ==
  /\ seed.pc = "exec" /\ seed.sends = 0
  /\ IF "seed" \in gone THEN SeedEnds("error") ELSE seed' = [seed EXCEPT !.sends = 1]
  /\ SeedUnchanged

\* The server takes the next command: it writes a key, as SET does, or leaves the
\* key's expiry alone, as the other types do; or it sets the key's expiry.  It may
\* refuse to, and goes on with the next.
Execute ==
  /\ seed.pc = "exec" /\ seed.sends > 0 /\ ~seed.broken
  /\ seed.done < Commands
  /\ LET k == seed.flushed + 1 + (seed.done \div PerKey)
         isWrite == seed.done % PerKey = 0
     IN  \/ /\ \E s \in IF isWrite THEN {"lasting", IF key[k] = "expiring" THEN "expiring" ELSE "lasting"}
                        ELSE {IF key[k] = "absent" THEN "absent" ELSE "expiring"} :
                 Become([key EXCEPT ![k] = s])
            /\ written' = IF isWrite THEN [written EXCEPT ![k] = @ + 1] ELSE written
            /\ seed' = [seed EXCEPT !.done = @ + 1]
         \/ /\ seed' = [seed EXCEPT !.done = @ + 1, !.refused = TRUE]
            /\ UNCHANGED <<key, changed, written, stayed>>
  /\ UNCHANGED <<events, gone, flush, foreign, removed>>

\* Wrong variant: the replies to the single commands are not looked at.
ExecutedUnchecked ==
  /\ seed.pc = "exec" /\ seed.sends > 0 /\ ~seed.broken
  /\ seed.done = Commands
  /\ seed' = [seed EXCEPT !.pc = "queue", !.flushed = seed.created, !.done = 0, !.sends = 0,
                          !.refused = FALSE]
  /\ SeedUnchanged

\* All replies have come: the request fails if one is an error, or goes on.
Executed ==
  /\ seed.pc = "exec" /\ seed.sends > 0 /\ ~seed.broken
  /\ seed.done = Commands
  /\ IF seed.refused THEN SeedEnds("error")
     ELSE seed' = [seed EXCEPT !.pc = "queue", !.flushed = seed.created, !.done = 0, !.sends = 0]
  /\ SeedUnchanged

\* The connection breaks, or the replies come too late: go-redis sends the whole
\* pipeline again, or gives up.
SeedBreaks ==
  /\ seed.pc = "exec" /\ seed.sends > 0
  /\ \/ /\ seed.sends < MaxSends /\ "seed" \notin gone
        /\ seed' = [seed EXCEPT !.broken = FALSE, !.refused = FALSE, !.resent = TRUE,
                                !.done = 0, !.sends = @ + 1]
     \/ SeedEnds("error")
  /\ SeedUnchanged

-----------------------------------------------------------------------------
(* Flush.                                                                  *)

FlushUnchanged == UNCHANGED <<cluster, gone, seed, written, foreign>>

\* FlushData: confirm must be set.
FlushRequest ==
  /\ flush.pc = "handler"
  /\ \/ /\ flush' = [flush EXCEPT !.pc = "scan", !.due = Present]
        /\ stayed' = Present
     \/ /\ flush' = [flush EXCEPT !.pc = "end", !.status = "rejected"]
        /\ UNCHANGED stayed
  /\ UNCHANGED removed
  /\ FlushUnchanged

\* Wrong variant: or with a batch without keys.
ContinuedToEmptyBatch(f) ==
  IF f.last \/ f.batch = {} THEN [f EXCEPT !.pc = "end", !.status = "ok"]
                            ELSE [f EXCEPT !.pc = "scan"]

\* The batch is done, without or with an error: the loop ends with the cursor 0.
Continued(f) ==
  IF f.last THEN [f EXCEPT !.pc = "end", !.status = "ok"] ELSE [f EXCEPT !.pc = "scan"]

\* SCAN returns some keys, and the cursor 0 at the earliest when it owes none.
Scan ==
  /\ flush.pc = "scan" /\ "flush" \notin gone
  /\ \E keys \in SUBSET Present, last \in BOOLEAN :
       LET f == [flush EXCEPT !.batch = keys, !.due = @ \ keys, !.last = last, !.sends = 0]
       IN  /\ last => f.due = {}
           /\ flush' = IF keys = {} THEN Continued(f) ELSE [f EXCEPT !.pc = "del"]
  /\ UNCHANGED <<removed, stayed>>
  /\ FlushUnchanged

\* An error, and what was deleted is not told.
ScanFails ==
  /\ flush.pc = "scan"
  /\ flush' = [flush EXCEPT !.pc = "end", !.status = "error"]
  /\ UNCHANGED <<removed, stayed>>
  /\ FlushUnchanged

\* The context is checked before every SCAN: a cancelled flush has succeeded.
FlushCancelled ==
  /\ flush.pc = "scan" /\ "flush" \in gone
  /\ flush' = [flush EXCEPT !.pc = "end", !.status = "ok"]
  /\ UNCHANGED <<removed, stayed>>
  /\ FlushUnchanged

\* Wrong variant: the keys that were asked for are counted.
CountedOfBatch(keys) == flush.deleted + Cardinality(flush.batch)

\* n, the reply to DEL, is added.
Counted(keys) == flush.deleted + Cardinality(keys)

\* DEL is sent, for the first time or again, and the master removes the keys it has.
\* Its reply comes, or is lost.
Delete ==
  /\ flush.pc = "del"
  /\ flush.sends < MaxSends /\ "flush" \notin gone
  /\ LET keys == flush.batch \cap Present
         f == [flush EXCEPT !.due = @ \ keys]
     IN  /\ Become([k \in Keys |-> IF k \in keys THEN "absent" ELSE key[k]])
         /\ removed' = removed + Cardinality(keys)
         /\ flush' \in {Continued([f EXCEPT !.deleted = Counted(keys)]),
                       [f EXCEPT !.sends = @ + 1, !.lost = TRUE]}
  /\ UNCHANGED <<events, gone, seed, written, foreign>>

\* DEL is refused, or go-redis gives up; n is 0, and the error is only logged.
DeleteFails ==
  /\ flush.pc = "del"
  /\ flush' = Continued([flush EXCEPT !.spoilt = TRUE])
  /\ UNCHANGED <<removed, stayed>>
  /\ FlushUnchanged

-----------------------------------------------------------------------------
Quiescent == seed.pc = "end" /\ flush.pc = "end" /\ UNCHANGED vars

Next ==
  \/ SeedRequest \/ QueueKey \/ Close \/ Send \/ Execute \/ Executed \/ SeedBreaks
  \/ FlushRequest \/ Scan \/ ScanFails \/ FlushCancelled
  \/ Delete \/ DeleteFails
  \/ \E k \in Keys : OtherClient(k) \/ Expires(k)
  \/ Elect
  \/ \E r \in {"seed", "flush"} : ClientGone(r)
  \/ Quiescent

Spec == Init /\ [][Next]_vars

-----------------------------------------------------------------------------
(* Safety                                                                  *)

\* A seed that succeeds has written every key it counts, once if no pipeline was sent
\* twice; and it counts all that were asked for, unless it was cancelled just after a
\* full pipeline.
SeedIsWritten ==
  seed.status = "ok" =>
    /\ \A k \in 1..seed.created : written[k] > 0 /\ (~seed.resent => written[k] = 1)
    /\ seed.created = seed.count \/ ("seed" \in gone /\ seed.created % Batch = 0)

\* After a seed with a TTL that succeeds no key of its own is left without an expiry:
\* not by a pipeline that broke between a key and its EXPIRE, nor by a flush that came
\* between the two.
SeededExpire ==
  (seed.status = "ok" /\ seed.ttl) => \A k \in 1..seed.created : k \in foreign \/ key[k] # "lasting"

\* Flush never tells of more deleted keys than it removed, and tells of them all
\* unless a reply was lost.
DeletedAreCounted ==
  /\ flush.deleted <= removed
  /\ (flush.status = "ok" /\ ~flush.lost) => flush.deleted = removed

\* No key that was there when a flush began, and ever since, outlives its success,
\* unless it was cancelled, a DEL failed or another node was elected: not a key that
\* is written again and again meanwhile, nor one SCAN returns late.
FlushLeavesNone ==
  (flush.status = "ok" /\ "flush" \notin gone /\ ~flush.spoilt) => stayed = {}
=============================================================================
