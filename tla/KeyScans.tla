------------------------------ MODULE KeyScans ------------------------------
(***************************************************************************)
(* The requests that walk the keys of the replicas with SCAN:              *)
(*   locks     GetStaleLocks (internal/diagnostics/locks.go)               *)
(*   bigkeys   ScanBigKeys (internal/keys/scanner.go), an event stream     *)
(*   ttl       GetTTLReport (internal/keys/ttl.go)                         *)
(*   hotkeys   GetHotkeys (internal/keys/hotkey.go)                        *)
(*                                                                         *)
(* One request visits its target nodes one after the other.  Meanwhile the *)
(* keys change, on each node on its own: replication reaches them at       *)
(* different times.  What a job asks of a key is one number, its TTL or    *)
(* for bigkeys its size.                                                   *)
(*                                                                         *)
(* SCAN (external) returns every key that exists from the first call of an *)
(* iteration to the last, any of the keys that do not, some of them twice, *)
(* and sometimes none at all.                                              *)
(***************************************************************************)
EXTENDS Integers, Sequences, FiniteSets

CONSTANTS
  Master, Replicas,  \* the addresses Sentinel names
  Keys,              \* the keys that match the pattern
  TTLs, Sizes,       \* bound: the seconds a key may have left, its bytes
  StaleThresholds,   \* bound: the values of stale_threshold
  BigThresholds,     \* bound: the values of threshold_bytes
  MaxScans,          \* bound: calls of SCAN in an iteration
  MaxChanges         \* bound: changes to the keys during the request

NoExpiry == -1       \* the reply to TTL for a key without an expiry
Absent == -2         \* and for a key that does not exist

ASSUME MasterAssumption == Master \notin Replicas /\ IsFiniteSet(Replicas)
ASSUME ValuesAssumption == TTLs \cup Sizes \subseteq Nat \ {0}
ASSUME StaleAssumption == StaleThresholds # {} /\ StaleThresholds \subseteq Nat
ASSUME BigAssumption == BigThresholds # {} /\ BigThresholds \subseteq Nat \ {0}
ASSUME BoundsAssumption == MaxScans \in Nat \ {0} /\ MaxChanges \in Nat

VARIABLES
  value,      \* value[n][k]: what the job's command says of k on node n
  changes,    \* how many changes there were
  job,        \* which request it is
  pc,         \* where it is
  threshold,  \* staleThresholdSec or thresholdBytes
  targets,    \* the nodes left to visit, the current one first
  due,        \* the keys SCAN still owes the current iteration
  scans,      \* how often it was called in this iteration
  batch,      \* the keys of the last call that are left to process
  last,       \* its cursor was 0
  seen,       \* locks: the keys processed so far, on any node
  result,     \* result[k]: how often the current node reported or counted k
  all,        \* all[n][k]: the same of the nodes before it, what was dropped left out
  noTTL,      \* ttl: the keys that were counted as having no expiry
  failed,     \* the nodes with an error
  status,     \* the answer
  unread,     \* history: the keys whose value the current node, or for locks any
              \* node, did not tell
  dropped,    \* history: the locks found by a node that then failed
  over,       \* history: the keys over the threshold on every node throughout
  forever,    \* history: the keys without an expiry on every node throughout
  steady      \* history: the keys wanted on the current node since it was visited

keyVars == <<value, changes>>
request == <<job, threshold>>
scanVars == <<targets, due, scans, batch, last, seen, result>>
answer == <<all, noTTL, failed, status>>
lasting == <<over, forever, steady>>
history == <<unread, dropped, lasting>>
vars == <<keyVars, pc, request, scanVars, answer, history>>

Nodes == Replicas \cup {Master}
Jobs == {"locks", "bigkeys", "ttl", "hotkeys"}
ValuesOf(j) == {Absent} \cup IF j = "bigkeys" THEN Sizes ELSE TTLs \cup {NoExpiry}
Counts == [Keys -> Nat]
NoCounts == [k \in Keys |-> 0]

TypeOK ==
  /\ job \in Jobs
  /\ value \in [Nodes -> [Keys -> ValuesOf(job)]]
  /\ changes \in 0..MaxChanges
  /\ pc \in {"resolve", "scan", "keys", "answer", "end"}
  /\ threshold \in Nat
  /\ targets \in Seq(Nodes)
  /\ scans \in 0..MaxScans
  /\ due \subseteq Keys /\ batch \subseteq Keys /\ last \in BOOLEAN
  /\ seen \subseteq Keys /\ batch \cap due = {}
  /\ result \in Counts /\ all \in [Nodes -> Counts]
  /\ noTTL \subseteq Keys
  /\ failed \subseteq Nodes
  /\ status \in {"none", "ok", "error"}
  /\ job = "locks" => unread \subseteq seen
  /\ unread \subseteq Keys /\ dropped \subseteq Keys
  /\ over \subseteq Keys /\ forever \subseteq Keys /\ steady \subseteq Keys

\* The request comes with a threshold, or gets a default, while the replicas have
\* caught up with the master.
Init ==
  /\ job \in Jobs
  /\ \E keys \in [Keys -> ValuesOf(job)] : value = [n \in Nodes |-> keys]
  /\ changes = 0
  /\ pc = "resolve"
  /\ threshold \in IF job = "locks" THEN StaleThresholds
                   ELSE IF job = "bigkeys" THEN BigThresholds ELSE {0}
  /\ targets = << >>
  /\ due = {} /\ scans = 0 /\ batch = {} /\ last = FALSE
  /\ seen = {} /\ result = NoCounts
  /\ all = [n \in Nodes |-> NoCounts] /\ noTTL = {}
  /\ failed = {} /\ status = "none"
  /\ unread = {} /\ dropped = {}
  /\ over = {} /\ forever = {} /\ steady = {}

-----------------------------------------------------------------------------
(* The keys (external).                                                    *)

Present(n) == {k \in Keys : value[n][k] # Absent}

\* The job is after keys like this one (for the history "steady").
IsWanted(v) ==
  CASE job = "locks"   -> v > threshold
    [] job = "bigkeys" -> v >= threshold
    [] OTHER           -> v # Absent

Visited == IF targets = << >> THEN {} ELSE {Head(targets)}

\* A key is set, deleted, expires, grows or is given another TTL on one node.  What
\* happens on a node that will not be read (again) is left out.
Change(n, k) ==
  /\ pc = "resolve" \/ n \in {targets[i] : i \in DOMAIN targets}
  /\ changes < MaxChanges
  /\ changes' = changes + 1
  /\ \E v \in ValuesOf(job) \ {value[n][k]} :
       /\ value' = [value EXCEPT ![n][k] = v]
       /\ due' = IF v = Absent /\ n \in Visited THEN due \ {k} ELSE due
       /\ over' = IF v > threshold THEN over ELSE over \ {k}
       /\ forever' = IF v = NoExpiry THEN forever ELSE forever \ {k}
       /\ steady' = IF n \in Visited /\ ~IsWanted(v) THEN steady \ {k} ELSE steady
  /\ UNCHANGED <<pc, request, targets, scans, batch, last, seen, result, answer, unread, dropped>>

-----------------------------------------------------------------------------
(* The request.                                                            *)

\* The iteration on the first of these nodes begins, or the nodes are done.
Visit(nodes) ==
  /\ targets' = nodes
  /\ IF nodes = << >>
     THEN pc' = "answer" /\ due' = {} /\ steady' = {}
     ELSE /\ pc' = "scan"
          /\ due' = Present(Head(nodes))
          /\ steady' = {k \in Keys : IsWanted(value[Head(nodes)][k])}
  /\ scans' = 0 /\ batch' = {} /\ last' = FALSE /\ result' = NoCounts
  /\ unread' = IF job = "locks" THEN unread ELSE {}

\* The orders in which Sentinel may list these nodes.
Orders(nodes) == {s \in [1..Cardinality(nodes) -> nodes] : \A i, j \in DOMAIN s : i # j => s[i] # s[j]}

\* GetNodeAddresses: the replicas, or the master if none is listed.
Resolve ==
  /\ pc = "resolve"
  /\ \E replicas \in SUBSET Replicas :
       LET nodes == IF replicas = {} THEN {Master} ELSE replicas
       IN  /\ \E s \in Orders(nodes) : Visit(s)
           /\ over' = {k \in Keys : \A n \in nodes : value[n][k] > threshold}
           /\ forever' = {k \in Keys : \A n \in nodes : value[n][k] = NoExpiry}
  /\ UNCHANGED <<keyVars, request, seen, answer, dropped>>

\* An error, for bigkeys an "error" event.
ResolveFails ==
  /\ pc = "resolve"
  /\ pc' = "end"
  /\ status' = "error"
  /\ UNCHANGED <<keyVars, request, scanVars, all, noTTL, failed, history>>

\* Wrong variant: a batch without keys ends the iteration.
ScanToEmptyBatch ==
  /\ pc = "scan" /\ job # "hotkeys"
  /\ scans < MaxScans
  /\ scans' = scans + 1
  /\ \E keys \in SUBSET Present(Head(targets)) :
       /\ batch' = keys
       /\ due' = due \ keys
       /\ last' = (keys = {} \/ scans' = MaxScans)
  /\ pc' = "keys"
  /\ UNCHANGED <<keyVars, request, targets, seen, result, answer, history>>

\* SCAN returns some keys, and the cursor 0 at the earliest when it owes none.
Scan ==
  /\ pc = "scan" /\ job # "hotkeys"
  /\ scans < MaxScans
  /\ scans' = scans + 1
  /\ \E keys \in SUBSET Present(Head(targets)) :
       /\ batch' = keys
       /\ due' = due \ keys
       /\ last' \in {FALSE, due' = {}}
  /\ scans' = MaxScans => last'
  /\ pc' = "keys"
  /\ UNCHANGED <<keyVars, request, targets, seen, result, answer, history>>

\* CONFIG GET maxmemory-policy answers a map with one entry; the policy is taken
\* from none with fewer than two, and "" is no LFU policy: whatever the node's
\* policy is, the node fails before its first SCAN.
PolicyFails ==
  /\ pc = "scan" /\ job = "hotkeys"
  /\ Visit(Tail(targets))
  /\ failed' = failed \cup {Head(targets)}
  /\ UNCHANGED <<keyVars, request, seen, all, noTTL, status, dropped, over, forever>>

\* What a node reports outlives its failure, but for locks.
Kept == IF job = "locks" THEN NoCounts ELSE result

\* SCAN fails, or the request is cancelled, which bigkeys and ttl also notice between
\* two keys.
NodeFails ==
  /\ job # "hotkeys"
  /\ pc = "scan" \/ (pc = "keys" /\ batch # {} /\ job # "locks")
  /\ Visit(Tail(targets))
  /\ failed' = failed \cup {Head(targets)}
  /\ all' = [all EXCEPT ![Head(targets)] = Kept]
  /\ dropped' = dropped \cup {k \in Keys : result[k] > Kept[k]}
  /\ UNCHANGED <<keyVars, request, seen, noTTL, status, over, forever>>

Second == 1000000000

\* go-redis (external) reads -1 and -2 as so many nanoseconds, and any other reply as
\* seconds.
Duration(t) == IF t \in {NoExpiry, Absent} THEN t ELSE t * Second

\* int64(ttlDur.Seconds()), which rounds towards zero, and ttlDur.Seconds() == -1.
TTLSeconds(t) == IF Duration(t) < 0 THEN -((-Duration(t)) \div Second) ELSE Duration(t) \div Second
IsNoTTL(t) == Duration(t) = -Second

IsStale(sec) == sec = -1 \/ (threshold > 0 /\ sec > threshold)

\* Wrong variant: the threshold itself is not big enough.
IsReportedAbove(v) ==
  CASE job = "locks"   -> IsStale(TTLSeconds(v))
    [] job = "bigkeys" -> v > threshold
    [] OTHER           -> TRUE

\* ttl counts whatever TTL answered, also that there is no such key.
IsReported(v) ==
  CASE job = "locks"   -> IsStale(TTLSeconds(v))
    [] job = "bigkeys" -> v >= threshold
    [] OTHER           -> TRUE

\* Wrong variant: "seen" is not consulted.
SkipNothing(k) == FALSE

\* Another node, or an earlier batch, has returned this lock.
Skip(k) == job = "locks" /\ k \in seen

\* The key is skipped, or marked and asked for its value, which may fail; if it is
\* what the job looks for it is reported and counted.
Process(k) ==
  /\ pc = "keys"
  /\ k \in batch
  /\ batch' = batch \ {k}
  /\ LET v == value[Head(targets)][k]
     IN  \/ /\ Skip(k)
            /\ UNCHANGED <<seen, result, noTTL, unread>>
         \/ /\ ~Skip(k)
            /\ seen' = IF job = "locks" THEN seen \cup {k} ELSE seen
            /\ \/ /\ result' = IF IsReported(v) THEN [result EXCEPT ![k] = @ + 1] ELSE result
                  /\ noTTL' = IF job = "ttl" /\ IsNoTTL(v) THEN noTTL \cup {k} ELSE noTTL
                  /\ UNCHANGED unread
               \/ /\ unread' = unread \cup {k}
                  /\ UNCHANGED <<result, noTTL>>
  /\ UNCHANGED <<keyVars, pc, request, targets, due, scans, last, all, failed, status, dropped, lasting>>

\* The batch is done, and there is another one.
NextBatch ==
  /\ pc = "keys"
  /\ batch = {} /\ ~last
  /\ pc' = "scan"
  /\ UNCHANGED <<keyVars, request, scanVars, answer, history>>

\* The cursor was 0, and the next target is visited.
NodeDone ==
  /\ pc = "keys"
  /\ batch = {} /\ last
  /\ all' = [all EXCEPT ![Head(targets)] = result]
  /\ Visit(Tail(targets))
  /\ UNCHANGED <<keyVars, request, seen, noTTL, failed, status, dropped, over, forever>>

\* locks answers with an error if nodes failed and there is nothing to return; the
\* others only log the nodes that failed, and bigkeys sends "summary" and "done".
Answer ==
  /\ pc = "answer"
  /\ pc' = "end"
  /\ status' = IF job = "locks" /\ failed # {} /\ \A n \in Nodes : all[n] = NoCounts
               THEN "error" ELSE "ok"
  /\ UNCHANGED <<keyVars, request, scanVars, all, noTTL, failed, history>>

-----------------------------------------------------------------------------
Quiescent == pc = "end" /\ UNCHANGED vars

Next ==
  \/ Resolve \/ ResolveFails
  \/ Scan \/ PolicyFails \/ NodeFails
  \/ \E k \in Keys : Process(k)
  \/ NextBatch \/ NodeDone \/ Answer
  \/ \E n \in Nodes, k \in Keys : Change(n, k)
  \/ Quiescent

Spec == Init /\ [][Next]_vars

-----------------------------------------------------------------------------
(* Safety                                                                  *)

Reported == {k \in Keys : \E n \in Nodes : all[n][k] > 0}

\* A lock is reported once, although every replica has it and SCAN repeats
\* itself.
NoKeyTwice ==
  job = "locks" => \A k \in Keys, n1, n2 \in Nodes :
    all[n1][k] > 0 /\ all[n2][k] > 0 => n1 = n2 /\ all[n1][k] = 1

\* A lock that stayed over the threshold on every node is reported, unless its TTL
\* could not be read, or the node that found it failed before it was scanned to the
\* end: neither batches without keys, nor locks that come and go, nor the failures
\* of other nodes hide it.
StaleIsReported ==
  (job = "locks" /\ status = "ok" /\ threshold > 0) => over \subseteq Reported \cup unread \cup dropped

\* When the iteration on a node ends, bigkeys has reported every key that was big
\* there all the while, and ttl has counted every key that was there, except those
\* that could not be read.
LastingIsCounted ==
  (job \in {"bigkeys", "ttl"} /\ pc = "keys" /\ batch = {} /\ last)
    => \A k \in steady \ unread : result[k] > 0

-----------------------------------------------------------------------------
(* What the documents say and the code does not do.                        *)

\* locks.go: "IsStale: true: no TTL or TTL > stale threshold"; ttl.go counts "no TTL"
\* keys.  A key that had no expiry on any node is reported as such by a request
\* whose nodes did not fail.
PersistentIsReported ==
  (job \in {"locks", "ttl"} /\ status = "ok" /\ failed = {})
    => forever \subseteq unread \cup IF job = "ttl" THEN noTTL ELSE Reported
=============================================================================
