----------------------------- MODULE NodeReports -----------------------------
(***************************************************************************)
(* The reports that ask the nodes one after the other and keep the errors: *)
(*   memory        GetMemory (internal/diagnostics/memory.go), with the    *)
(*                 eviction baseline its requests share                    *)
(*   slowlog       GetSlowlog (slowlog.go)                                 *)
(*   pipeline      GetPipelineStats (pipeline.go)                          *)
(*   diff          GetConfigDiff (internal/operations/configdiff.go)       *)
(*   distribution  GetDistribution (internal/connection/distribution.go)   *)
(*   resync        GetResyncStats (internal/replication/resync.go)         *)
(*   topology      GetTopology (internal/sentinel/topology.go)             *)
(*                                                                         *)
(* External: nodes evict keys and restart, time passes, another node is    *)
(* elected.  What a node tells for the other reports is any of a few       *)
(* replies; one parameter stands for all, and what is only copied from a   *)
(* reply, sorted or cut off is left out.                                   *)
(***************************************************************************)
EXTENDS Integers, Sequences, FiniteSets, Functions

CONSTANTS
  Nodes,        \* the Redis nodes there may be
  Requests,     \* the requests
  NoRequest,    \* the kind of one that is not made
  Together,     \* which nodes there are, and which kinds of requests at once
  Values,       \* bound: what a parameter may be set to
  Calls,        \* bound: how many reads a replica may have served
  MaxEvents     \* bound: evictions, restarts, elections and ticks of the clock

Kinds == {"memory", "slowlog", "pipeline", "diff", "distribution", "resync", "topology"}
Empty == "empty"        \* a parameter set to ""
Missing == "missing"    \* a parameter the node does not have

ASSUME NodesAssumption == Nodes # {} /\ IsFiniteSet(Nodes)
ASSUME TogetherAssumption == 
  /\ Together \subseteq [nodes : (SUBSET Nodes) \ {{}}, kinds : [Requests -> Kinds \cup {NoRequest}]]
  /\ NoRequest \notin Kinds
ASSUME RepliesAssumption == Calls \subseteq Nat /\ {Empty, Missing} \cap Values = {}
ASSUME BoundsAssumption == MaxEvents \in Nat

NoSample == [count |-> -1, at |-> -1, total |-> -1, boot |-> -1]

VARIABLES
  nodes,        \* the nodes of the cluster
  master,       \* the master, as the sentinels see it
  evicted,      \* evicted[n]: evicted_keys of node n, since it started
  total,        \* history: total[n], how many keys it ever evicted
  boots,        \* history: boots[n], how often it restarted
  time,
  events,       \* how much has happened (bound)
  lastEvicted,  \* the baselines
  req           \* the requests

cluster == <<nodes, master, evicted, total, boots, time, events>>
vars == <<cluster, lastEvicted, req>>

\* diff: that the parameter drifts; distribution: that a replica is overloaded.
Flags == {"drift"} \cup Nodes

\* evictedSample, and when its count was read (history).
Samples == [count : Nat, at : Nat, total : Nat, boot : Nat]

IsRequest(q) ==
  /\ q.kind \in Kinds \cup {NoRequest}
  /\ q.pc \in {"master", "replicas", "node", "stamp", "swap", "end"}
  /\ q.master \in Nodes
  /\ q.left \in Seq(Nodes)        \* the nodes to ask
  /\ q.sample \in Samples         \* memory: what was read of the current one
  /\ q.errs \in Seq(Nodes)        \* the nodes that failed
  /\ q.split \in BOOLEAN          \* history: an election came between the two queries,
                                  \* or the second one failed
  /\ q.flags \subseteq Flags       \* what the answer points out
  /\ q.status \in {"none", "ok", "error"}
  /\ \A i \in DOMAIN q.reports : q.reports[i].node \in Nodes

TypeOK ==
  /\ nodes \subseteq Nodes /\ master \in nodes
  /\ evicted \in [Nodes -> Nat] /\ total \in [Nodes -> Nat] /\ boots \in [Nodes -> Nat]
  /\ events \in 0..MaxEvents /\ time \in 0..events
  /\ lastEvicted \in [Nodes -> Samples \cup {NoSample}]
  /\ DOMAIN req = Requests /\ \A r \in Requests : IsRequest(req[r])

Zero == [count |-> 0, at |-> 0, total |-> 0, boot |-> 0]

\* The nodes have been asked for their memory before, or not.
Init ==
  /\ evicted = [n \in Nodes |-> 0] /\ total = evicted /\ boots = evicted
  /\ time = 0 /\ events = 0
  /\ \E s \in {NoSample, Zero} : lastEvicted = [n \in Nodes |-> s]
  /\ \E t \in Together :
       /\ nodes = t.nodes
       /\ master \in nodes
       /\ req = [r \in Requests |->
                   [kind |-> t.kinds[r], pc |-> IF t.kinds[r] = NoRequest THEN "end" ELSE "master",
                    master |-> master, left |-> << >>, sample |-> Zero, reports |-> << >>,
                    errs |-> << >>, split |-> FALSE, flags |-> {}, status |-> "none"]]

-----------------------------------------------------------------------------
(* The cluster (external).  What no request reads is left out.             *)

IsRead(n) ==
  \E r \in Requests :
    /\ req[r].kind = "memory"
    /\ req[r].pc \in {"master", "replicas"} \/ n \in {req[r].left[i] : i \in DOMAIN req[r].left}

Happens == events < MaxEvents /\ events' = events + 1

Evict(n) ==
  /\ n \in nodes /\ IsRead(n) /\ Happens
  /\ evicted' = [evicted EXCEPT ![n] = @ + 1]
  /\ total' = [total EXCEPT ![n] = @ + 1]
  /\ UNCHANGED <<nodes, master, boots, time, lastEvicted, req>>

Restart(n) ==
  /\ n \in nodes /\ IsRead(n) /\ Happens
  /\ boots' = [boots EXCEPT ![n] = @ + 1]
  /\ evicted' = [evicted EXCEPT ![n] = 0]
  /\ UNCHANGED <<nodes, master, total, time, lastEvicted, req>>

Tick ==
  /\ (\E n \in nodes : IsRead(n)) /\ Happens
  /\ time' = time + 1
  /\ UNCHANGED <<nodes, master, evicted, total, boots, lastEvicted, req>>

Elect(n) ==
  /\ n \in nodes \ {master} /\ Happens
  /\ \E r \in Requests : req[r].pc \in {"master", "replicas"}
  /\ master' = n
  /\ req' = [r \in Requests |-> [req[r] EXCEPT !.split = @ \/ req[r].pc = "replicas"]]
  /\ UNCHANGED <<nodes, evicted, total, boots, time, lastEvicted>>

-----------------------------------------------------------------------------
(* A request.                                                              *)

Step(r, q) == req' = [req EXCEPT ![r] = q]

\* topology also asks the master for its INFO before the second query.
ResolveMaster(r) ==
  /\ req[r].pc = "master"
  /\ \E healthy \in BOOLEAN :
       Step(r, [req[r] EXCEPT !.master = master, !.pc = "replicas",
                  !.reports = IF req[r].kind = "topology"
                              THEN <<[node |-> master, data |-> healthy]>> ELSE @])
  /\ UNCHANGED <<cluster, lastEvicted>>

Orders(set) == {s \in [1..Cardinality(set) -> set] : \A i, j \in DOMAIN s : i # j => s[i] # s[j]}

\* Distribution asks the replicas only, and topology has asked the master.
Asked(q, replicas) ==
  IF q.kind \in {"distribution", "topology"} THEN replicas ELSE <<q.master>> \o replicas

\* The replicas come from a second query, or there are none if it fails.
ResolveReplicas(r) ==
  /\ req[r].pc = "replicas"
  /\ \E replicas \in Orders(nodes \ {master}) \cup {<< >>} :
       Step(r, [req[r] EXCEPT !.pc = "node", !.left = Asked(req[r], replicas),
                              !.split = @ \/ replicas = << >>])
  /\ UNCHANGED <<cluster, lastEvicted>>

ResolveFails(r) ==
  /\ req[r].pc \in {"master", "replicas"}
  /\ Step(r, [req[r] EXCEPT !.pc = "end", !.status = "error"])
  /\ UNCHANGED <<cluster, lastEvicted>>

\* The node's report is kept, and the next node is asked.
Reported(q, data) ==
  [q EXCEPT !.reports = Append(@, [node |-> Head(q.left), data |-> data]),
            !.left = Tail(@), !.pc = "node"]

\* What a node may tell.
SlowlogReply == {"entries", "none"}

\* The commands after INFO stats that were not answered, and count 0.
PipelineReply == SUBSET {"INFO clients", "INFO errorstats", "CLIENT LIST"}

\* The value of the parameter.
ConfigReply == Values \cup {Empty, Missing}

\* The calls of commands that only read.
CommandsReply == Calls

\* BacklogAlert.  repl_backlog_active is 0 or 1.
IsBacklogFull(size, active) == size > 0 /\ active > 0 /\ 10 * active > 9 * size
ResyncReply == {IsBacklogFull(size, active) : size \in {0, 16384}, active \in 0..1}

\* Whether it answered; then its flags count too.
InfoReply == BOOLEAN

RepliesTo(kind) ==
  CASE kind = "slowlog"      -> SlowlogReply
    [] kind = "pipeline"     -> PipelineReply
    [] kind = "diff"         -> ConfigReply
    [] kind = "distribution" -> CommandsReply
    [] kind = "resync"       -> ResyncReply
    [] kind = "topology"     -> InfoReply

ReadNode(r) ==
  /\ req[r].pc = "node" /\ req[r].left # << >>
  /\ req[r].kind # "memory"
  /\ \E data \in RepliesTo(req[r].kind) : Step(r, Reported(req[r], data))
  /\ UNCHANGED <<cluster, lastEvicted>>

\* Wrong variant: a node that fails ends the loop.
NodeFailsAll(r) ==
  /\ req[r].pc = "node" /\ req[r].left # << >> /\ req[r].kind # "topology"
  /\ Step(r, [req[r] EXCEPT !.errs = Append(@, Head(req[r].left)), !.left = << >>])
  /\ UNCHANGED <<cluster, lastEvicted>>

\* No answer, or none in time: an error of the request, but for topology.
NodeFails(r) ==
  /\ req[r].pc = "node" /\ req[r].left # << >> /\ req[r].kind # "topology"
  /\ Step(r, [req[r] EXCEPT !.errs = Append(@, Head(req[r].left)), !.left = Tail(@)])
  /\ UNCHANGED <<cluster, lastEvicted>>

-----------------------------------------------------------------------------
(* memory.                                                                 *)

\* INFO is answered.
ReadMemory(r) ==
  /\ req[r].pc = "node" /\ req[r].left # << >>
  /\ req[r].kind = "memory"
  /\ LET n == Head(req[r].left)
     IN  Step(r, [req[r] EXCEPT !.pc = "stamp",
                    !.sample = [count |-> evicted[n], at |-> 0, total |-> total[n], boot |-> boots[n]]])
  /\ UNCHANGED <<cluster, lastEvicted>>

\* evictionRate: the time is taken before the lock.
Stamp(r) ==
  /\ req[r].pc = "stamp"
  /\ Step(r, [req[r] EXCEPT !.pc = "swap", !.sample.at = time])
  /\ UNCHANGED <<cluster, lastEvicted>>

\* Wrong variant: a counter that went back is not noticed.
RateOfDifference(prev, sample) ==
  IF prev = NoSample \/ sample.at <= prev.at
  THEN [keys |-> 0, seconds |-> 1]
  ELSE [keys |-> sample.count - prev.count, seconds |-> sample.at - prev.at]

\* The rate is keys / seconds: 0 without a baseline, with a counter that went back and
\* with no time between.
Rate(prev, sample) ==
  IF prev = NoSample \/ sample.count < prev.count \/ sample.at <= prev.at
  THEN [keys |-> 0, seconds |-> 1]
  ELSE [keys |-> sample.count - prev.count, seconds |-> sample.at - prev.at]

\* Under the lock the baseline is read and replaced; the report is kept.  "evictions"
\* and "behind" are history: how many keys the node evicted between the two readings,
\* and that it restarted between them and the baseline was read later.
Swap(r) ==
  /\ req[r].pc = "swap"
  /\ LET n == Head(req[r].left)
         sample == req[r].sample
         prev == lastEvicted[n]
     IN  /\ lastEvicted' = [lastEvicted EXCEPT ![n] = sample]
         /\ Step(r, Reported([req[r] EXCEPT !.sample = Zero],
                             [rate |-> Rate(prev, sample), evictions |-> sample.total - prev.total,
                              behind |-> sample.boot < prev.boot]))
  /\ UNCHANGED cluster

-----------------------------------------------------------------------------
(* The answer.                                                             *)

\* diff: configMap, in which a node asked twice has its last value only.
ConfigMap(q) ==
  LET told(n) == {i \in DOMAIN q.reports : q.reports[i].node = n /\ q.reports[i].data # Missing}
  IN  [n \in {n \in Nodes : told(n) # {}} |->
         q.reports[CHOOSE i \in told(n) : \A j \in told(n) : j <= i].data]

\* Wrong variant: the first value stands for all, and only the next one is compared.
DriftsAtSecond(values) == Len(values) > 1 /\ values[1] # Empty /\ values[2] # values[1]

\* The values, in this order, are compared with the first that is not empty.
Drifts(values) ==
  \E i \in DOMAIN values : /\ values[i] # Empty
                           /\ \A j \in 1..(i-1) : values[j] = Empty
                           /\ \E j \in (i+1)..Len(values) : values[j] # values[i]

\* The map is read in any order.
DriftFlags(q) ==
  {IF Drifts([i \in DOMAIN order |-> ConfigMap(q)[order[i]]]) THEN {"drift"} ELSE {} :
     order \in Orders(DOMAIN ConfigMap(q))}

\* Wrong variant: 80 % is enough.
OverloadedAtTheLimit(q) ==
  LET totalReads == FoldFunction(+, 0, [i \in DOMAIN q.reports |-> q.reports[i].data])
  IN  {q.reports[i].node : i \in {i \in DOMAIN q.reports : 10 * q.reports[i].data >= 8 * totalReads}}

\* More than 80 % of the reads the replicas that answered have told.
Overloaded(q) ==
  LET totalReads == FoldFunction(+, 0, [i \in DOMAIN q.reports |-> q.reports[i].data])
  IN  {q.reports[i].node : i \in {i \in DOMAIN q.reports : 10 * q.reports[i].data > 8 * totalReads}}

FlagsOf(q) ==
  CASE q.kind = "diff"         -> DriftFlags(q)
    [] q.kind = "distribution" -> {Overloaded(q)}
    [] OTHER                   -> {{}}

\* A nil slice: slowlog joins the entries of all nodes, and diff lists only a parameter
\* that drifts.
IsNothing(q, flags) ==
  CASE q.kind = "diff"    -> flags = {}
    [] q.kind = "slowlog" -> \A i \in DOMAIN q.reports : q.reports[i].data = "none"
    [] OTHER              -> q.reports = << >>

\* An error only if a node failed and there is nothing to show.
Answer(r) ==
  /\ req[r].pc = "node" /\ req[r].left = << >>
  /\ \E flags \in FlagsOf(req[r]) :
       Step(r, [req[r] EXCEPT !.pc = "end", !.flags = flags,
                  !.status = IF req[r].errs # << >> /\ IsNothing(req[r], flags) THEN "error" ELSE "ok"])
  /\ UNCHANGED <<cluster, lastEvicted>>

-----------------------------------------------------------------------------
Quiescent == (\A r \in Requests : req[r].pc = "end") /\ UNCHANGED vars

Next ==
  \/ \E r \in Requests :
       \/ ResolveMaster(r) \/ ResolveReplicas(r) \/ ResolveFails(r)
       \/ ReadNode(r) \/ NodeFails(r)
       \/ ReadMemory(r) \/ Stamp(r) \/ Swap(r)
       \/ Answer(r)
  \/ \E n \in Nodes : Evict(n) \/ Restart(n) \/ Elect(n)
  \/ Tick
  \/ Quiescent

Spec == Init /\ [][Next]_vars

-----------------------------------------------------------------------------
(* Safety                                                                  *)

\* However concurrent requests replace each other's baselines, a rate that is shown is
\* over some time, and of no more keys than the node evicted between the readings of
\* the two samples, also over a restart; unless the baseline was read after a restart
\* the request's own sample was taken before.
RateIsOfEvictions ==
  \A r \in Requests : req[r].kind = "memory" =>
    \A i \in DOMAIN req[r].reports :
      LET data == req[r].reports[i].data
      IN  /\ data.rate.keys >= 0 /\ data.rate.seconds > 0
          /\ data.rate.keys > 0 => data.behind \/ data.rate.keys <= data.evictions

Told(q) == [i \in DOMAIN q.reports |-> q.reports[i].node] \o q.errs
Expected(q) == IF q.kind = "distribution" THEN nodes \ {q.master} ELSE nodes

\* Every node is in the answer or among the errors, once; unless an election came
\* between the two queries, or the second one failed.
EachNodeOnce ==
  \A r \in Requests : (req[r].status = "ok" /\ ~req[r].split) =>
    \A n \in Expected(req[r]) : Cardinality({i \in DOMAIN Told(req[r]) : Told(req[r])[i] = n}) = 1

\* The answer shows a drift only if two nodes told different values, and always if they
\* told different values that are not empty.
DriftsAreReal ==
  \A r \in Requests : (req[r].kind = "diff" /\ req[r].pc = "end") =>
    LET value == ConfigMap(req[r])
    IN  /\ req[r].flags # {} => \E n, m \in DOMAIN value : value[n] # value[m]
        /\ (\E n, m \in DOMAIN value : value[n] # value[m] /\ Empty \notin {value[n], value[m]})
             => req[r].flags # {}

\* A replica is called overloaded only if each other replica that answered has less than
\* a quarter of its reads.
OverloadsAreReal ==
  \A r \in Requests : (req[r].kind = "distribution" /\ req[r].pc = "end") =>
    LET reports == req[r].reports
    IN  \A i, j \in DOMAIN reports :
          (i # j /\ reports[i].node \in req[r].flags) => 4 * reports[j].data < reports[i].data
=============================================================================
