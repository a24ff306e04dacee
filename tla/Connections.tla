---------------------------- MODULE Connections ----------------------------
(***************************************************************************)
(* GET /connections and GET /connections/analysis: one request that reads  *)
(* CLIENT LIST from node after node (internal/connection/monitor.go), names *)
(* each client with a lookup in the pod cache (mapper.go) as PodDirectory  *)
(* promises it, and the analysis it makes of what it read.                 *)
(*                                                                         *)
(* External: the nodes.  A CLIENT LIST is a set of groups, the connections *)
(* of one kind from one address with their number and longest idle time.   *)
(***************************************************************************)
EXTENDS PodDirectory, Naturals, Sequences, FiniteSetsExt

CONSTANTS
  MonitoredNodes,  \* the Redis nodes
  Listings,    \* bound: the CLIENT LISTs a node may return
  AdminPods,   \* pods of the deployments redis-cmd and redis-commander
  Day, Hour, FiveMinutes   \* idle times in seconds

ASSUME AdminPodsAssumption == AdminPods \subseteq Pods
ASSUME IdleAssumption ==
  /\ {Day, Hour, FiveMinutes} \subseteq Nat
  /\ FiveMinutes < Hour /\ Hour < Day

VARIABLE request   \* the request

monitorVars == <<directoryVars, request>>

Groups == [from : IPs, link : {"app", "replica", "master"}, count : Nat, idle : Nat]
ASSUME ListingsAssumption == \A l \in Listings : l \subseteq Groups /\ IsFiniteSet(l)

Jobs == [node : MonitoredNodes, role : {"master", "replica"}]

\* ClientInfo: the connections of an address, and the pod the cache gave for it.
Clients == [count : Nat, idle : Nat, pod : Pods \cup {Nobody}]

\* NodeConnections: a node that was read and its clients by address.
IsNodeResult(nc) ==
  /\ nc.job \in Jobs
  /\ nc.listing \in Listings    \* history: what the node returned
  /\ DOMAIN nc.clients \subseteq IPs
  /\ \A i \in DOMAIN nc.clients : nc.clients[i] \in Clients

MonitorTypeOK ==
  /\ cache \in [IPs -> Pods \cup {Nobody}]
  /\ held \subseteq Pods \X IPs
  /\ request.pc \in {"start", "fetch", "enrich", "end"}
  /\ request.kind \in {"connections", "analysis"}
  /\ request.jobs \subseteq Jobs                     \* nodes resolved
  /\ request.left \subseteq request.jobs             \* those not read yet
  /\ request.failed \subseteq request.jobs \ request.left  \* those with an error in errs
  /\ \A k \in DOMAIN request.results : IsNodeResult(request.results[k])
  /\ request.unnamed \subseteq IPs                   \* clients of the last one to be looked up
  /\ request.status \in {"none", "ok", "error"}

MonitorInit ==
  /\ DirectoryInit
  /\ \E k \in {"connections", "analysis"} :
       request = [pc |-> "start", kind |-> k, jobs |-> {}, left |-> {}, failed |-> {},
              results |-> <<>>, unnamed |-> {}, status |-> "none"]

-----------------------------------------------------------------------------
(* The request.                                                            *)

\* GetNodeAddresses: an election between its two queries can make the master
\* one of its own replicas.
Resolve ==
  /\ request.pc = "start"
  /\ \E m \in MonitoredNodes, rs \in SUBSET MonitoredNodes :
       LET jobs == {[node |-> m, role |-> "master"]} \cup [node : rs, role : {"replica"}] IN
       request' = [request EXCEPT !.pc = "fetch", !.jobs = jobs, !.left = jobs]
  /\ UNCHANGED directoryVars

Unresolved ==
  /\ request.pc = "start"
  /\ request' = [request EXCEPT !.pc = "end", !.status = "error"]
  /\ UNCHANGED directoryVars

\* The master is read first, then the replicas.
IsNext(job) == job \in request.left /\ (job.role = "replica" => \A j \in request.left : j.role = "replica")

\* Links of replicas are left out, the link to the master is not.
Counted(listing) == {g \in listing : g.link # "replica"}

\* The connections of an address on one node, yet without a pod.
ClientOf(i, listing) ==
  LET mine == {g \in Counted(listing) : g.from = i} IN
  [count |-> MapThenSumSet(LAMBDA g : g.count, mine),
   idle  |-> Max({g.idle : g \in mine}),
   pod   |-> Nobody]

Fetch ==
  /\ request.pc = "fetch"
  /\ \E job \in request.left, listing \in Listings :
       LET from == {g.from : g \in Counted(listing)} IN
       /\ IsNext(job)
       /\ request' = [request EXCEPT
            !.pc = "enrich",
            !.left = @ \ {job},
            !.results = Append(@, [job |-> job, listing |-> listing,
                                   clients |-> [i \in from |-> ClientOf(i, listing)]]),
            !.unnamed = from]
  /\ UNCHANGED directoryVars

\* The node does not answer CLIENT LIST: it is skipped and the error kept.
FetchFails ==
  /\ request.pc = "fetch"
  /\ \E job \in request.left :
       /\ IsNext(job)
       /\ request' = [request EXCEPT !.left = @ \ {job}, !.failed = @ \cup {job}]
  /\ UNCHANGED directoryVars

\* enrichWithPodInfo looks up one client after the other, in no order, each with
\* a read lock of its own.
Enrich ==
  /\ request.pc = "enrich"
  /\ \E i \in request.unnamed :
       request' = [request EXCEPT !.results[Len(request.results)].clients[i].pod = LookupEnriched(i),
                          !.unnamed = @ \ {i}]
  /\ UNCHANGED directoryVars

NodeDone ==
  /\ request.pc = "enrich"
  /\ request.unnamed = {}
  /\ request' = [request EXCEPT !.pc = "fetch"]
  /\ UNCHANGED directoryVars

\* Wrong variant: the analysis is made of what was read.
StatusIfAny == IF request.results = <<>> THEN "error" ELSE "ok"

\* GetConnections is an error only if no node was read, the analysis if one was not.
Status ==
  IF request.failed # {} /\ (request.kind = "analysis" \/ request.results = <<>>) THEN "error" ELSE "ok"

Respond ==
  /\ request.pc = "fetch"
  /\ request.left = {}
  /\ request' = [request EXCEPT !.pc = "end", !.status = Status]
  /\ UNCHANGED directoryVars

-----------------------------------------------------------------------------
(* What the answer says, a function of the results.                        *)

\* Wrong variant: a client with few connections is never suspicious.
SeverityOfMany(c) ==
  IF c.count >= 5 /\ c.idle > Day THEN "critical"
  ELSE IF c.count >= 3 /\ (c.idle > FiveMinutes \/ c.idle > Hour) THEN "warning"
  ELSE "none"

\* One rule for each client of a node, the most severe that applies.
Severity(c) ==
  IF c.count >= 5 /\ c.idle > Day THEN "critical"
  ELSE IF (c.count >= 3 /\ c.idle > FiveMinutes) \/ c.idle > Hour THEN "warning"
  ELSE "none"

IsAdmin(c) == c.pod \in AdminPods

\* filteredSuspicious: a suspicious client of a node, unless it is an admin tool.
Suspicious ==
  {s \in [at : DOMAIN request.results, from : IPs] :
     LET clients == request.results[s.at].clients IN
     /\ s.from \in DOMAIN clients
     /\ Severity(clients[s.from]) # "none"
     /\ ~IsAdmin(clients[s.from])}

\* clientMap: the clients of all nodes, merged by address.
ReadFrom(i) == {k \in DOMAIN request.results : i \in DOMAIN request.results[k].clients}
Merged ==
  [i \in {j \in IPs : ReadFrom(j) # {}} |->
     [count |-> MapThenSumSet(LAMBDA k : request.results[k].clients[i].count, ReadFrom(i)),
      idle  |-> Max({request.results[k].clients[i].idle : k \in ReadFrom(i)}),
      pod   |-> request.results[Min(ReadFrom(i))].clients[i].pod]]

MonitorNext ==
  \/ DirectoryNext /\ UNCHANGED request
  \/ Resolve \/ Unresolved \/ Fetch \/ FetchFails \/ Enrich \/ NodeDone \/ Respond

MonitorSpec == MonitorInit /\ [][MonitorNext]_monitorVars

-----------------------------------------------------------------------------
(* Properties.                                                             *)

Analysed == request.kind = "analysis" /\ request.status = "ok"
Shown(k, i) == [at |-> k, from |-> i] \in Suspicious

\* What address i is left out for: the lookup found an admin tool that has, or has had, i.
TakenForAdmin(k, i) ==
  LET pod == request.results[k].clients[i].pod IN pod \in AdminPods /\ <<pod, i>> \in held

\* An analysis is of the whole cluster: no node is missing, and a leak on any of
\* them is shown as critical, one client with connections of several kinds
\* being one client.  Only what is taken for an admin tool is left out, and it is never
\* so for a pod that has not had its address, whichever pods came and went meanwhile.
NoLeakOverlooked ==
  Analysed => \A job \in request.jobs : \E k \in DOMAIN request.results :
    /\ request.results[k].job = job
    /\ \A i \in IPs :
         LET app == {g \in request.results[k].listing : g.from = i /\ g.link = "app"} IN
         /\ MapThenSumSet(LAMBDA g : g.count, app) >= 5
         /\ \E g \in app : g.idle > Day
         => /\ Severity(request.results[k].clients[i]) = "critical"
            /\ Shown(k, i) \/ TakenForAdmin(k, i)

\* What the recommendation "Some connections idle >1h" speaks of is shown for
\* one node at least, though it is found in the clients merged over the nodes
\* and the rules are applied to each node by itself, or is that of an admin tool there.
IdleIsExplained ==
  Analysed => \A i \in DOMAIN Merged :
    Merged[i].idle > Hour => \E k \in ReadFrom(i) :
      /\ Severity(request.results[k].clients[i]) # "none"
      /\ Shown(k, i) \/ TakenForAdmin(k, i)

=============================================================================
