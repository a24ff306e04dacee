------------------------------ MODULE PodCache ------------------------------
(***************************************************************************)
(* The pod cache of internal/k8s/informer.go: a map from IP to pod that    *)
(* the handlers of a shared informer keep, with Lookup for its readers.    *)
(*                                                                         *)
(* External: the cluster, whose pods come, get an address, finish and go;  *)
(* the API server's watch, which may break; and client-go's informer, that *)
(* lists again after a break.  The informer holds back the changes of one  *)
(* pod under the pod's name and hands out all of them when the name is     *)
(* first in its queue.  So the handlers see the changes of each pod in     *)
(* order, and those of different pods not always.                          *)
(*                                                                         *)
(* A pod is known by its name, and a name may be used again.  All pods     *)
(* have an address of their own (no host network).                         *)
(***************************************************************************)
EXTENDS Naturals, Sequences, FiniteSets

CONSTANTS
  Pods,        \* names of pods in the namespace that is watched
  IPs,         \* addresses
  NoIP,        \* pod.Status.PodIP is empty
  Nobody,      \* a lookup that misses
  MaxChanges   \* bound: changes of the cluster and breaks of the watch

ASSUME PodsAssumption == IsFiniteSet(Pods)
ASSUME NoIPAssumption == NoIP \notin IPs
ASSUME NobodyAssumption == Nobody \notin Pods
ASSUME MaxChangesAssumption == MaxChanges \in Nat

VARIABLES
  pods,      \* pods[p]: the pod named p in the cluster
  changes,   \* how often the cluster has changed and the watch has broken
  watching,  \* the watch is up
  known,     \* known[p]: the pod as the informer has last heard of it
  deltas,    \* deltas[p]: the calls held back under the name p
  queue,     \* names with calls held back, in the order they are handed out
  calls,     \* the calls of the handlers that are due, in order
  cache,     \* PodCache.ipToPod
  held,      \* history: which pod has had which address
  moved      \* history: pods the informer saw lose an address without being deleted

clusterVars == <<pods, changes, held>>
informerVars == <<watching, known, deltas, queue, moved>>
vars == <<clusterVars, informerVars, calls, cache>>

Phases == {"absent", "pending", "running", "finished"}
PodStates == [phase : Phases, ip : IPs \cup {NoIP}]
Absent == [phase |-> "absent", ip |-> NoIP]

\* A handler is called with a pod, of which it uses the name and the address.
Calls == [op : {"set", "delete"}, pod : Pods, ip : IPs \cup {NoIP}]

TypeOK ==
  /\ pods \in [Pods -> PodStates]
  /\ \A p \in Pods : (pods[p].ip = NoIP) <=> (pods[p].phase \in {"absent", "pending"})
  /\ changes \in 0..MaxChanges
  /\ watching \in BOOLEAN
  /\ known \in [Pods -> PodStates]
  /\ deltas \in [Pods -> Seq(Calls)]
  /\ queue \in Seq(Pods)
  /\ calls \in Seq(Calls)
  /\ cache \in [IPs -> Pods \cup {Nobody}]
  /\ held \in SUBSET (Pods \X IPs)
  /\ moved \in SUBSET Pods

\* A pod that has finished keeps its address in its status, and the network
\* gives it to another one.
Free(i) == \A p \in Pods : ~(pods[p].phase = "running" /\ pods[p].ip = i)

\* The server starts beside a cluster in any state: running pods differ in
\* their addresses.
Init ==
  /\ pods \in {f \in [Pods -> {Absent, [phase |-> "pending", ip |-> NoIP]}
                                \cup [phase : {"running", "finished"}, ip : IPs]] :
                 \A p, q \in Pods : f[p].phase = "running" /\ f[q] = f[p] => p = q}
  /\ changes = 0
  /\ watching = FALSE
  /\ known = [p \in Pods |-> Absent]
  /\ deltas = [p \in Pods |-> <<>>]
  /\ queue = <<>>
  /\ calls = <<>>
  /\ cache = [i \in IPs |-> Nobody]
  /\ held = {<<p, pods[p].ip>> : p \in {q \in Pods : pods[q].ip # NoIP}}
  /\ moved = {}

-----------------------------------------------------------------------------
(* The informer (external): what it makes of pods it hears of.             *)

\* The informer calls AddFunc or UpdateFunc for a pod that exists, and DeleteFunc
\* with the state given for one that is gone.
CallFor(p, now, last) ==
  IF now.phase = "absent"
    THEN [op |-> "delete", pod |-> p, ip |-> last.ip]
    ELSE [op |-> "set", pod |-> p, ip |-> now.ip]

\* The informer hears of the pods in ps, whose names join the queue in the order
\* of some sequence unless they are in it.
Hear(ps, now, last) ==
  /\ known' = [p \in Pods |-> IF p \in ps THEN now[p] ELSE known[p]]
  /\ deltas' = [p \in Pods |-> IF p \in ps
                                 THEN Append(deltas[p], CallFor(p, now[p], last[p]))
                                 ELSE deltas[p]]
  /\ \E order \in [1..Cardinality({p \in ps : deltas[p] = <<>>})
                     -> {p \in ps : deltas[p] = <<>>}] :
       /\ \A p \in ps : deltas[p] = <<>> => \E k \in DOMAIN order : order[k] = p
       /\ queue' = queue \o order
  /\ moved' = moved \cup {p \in ps : /\ now[p].phase # "absent"
                                     /\ known[p].ip \notin {NoIP, now[p].ip}}

\* A pod changes: a watch that is up tells the informer, and the pod it shows for
\* a deletion is the pod as it was.
Change(p, new) ==
  /\ changes < MaxChanges
  /\ changes' = changes + 1
  /\ pods' = [pods EXCEPT ![p] = new]
  /\ held' = IF new.ip = NoIP THEN held ELSE held \cup {<<p, new.ip>>}
  /\ IF watching THEN Hear({p}, pods', pods)
                 ELSE UNCHANGED <<known, deltas, queue, moved>>
  /\ UNCHANGED <<watching, calls, cache>>

Create(p) == pods[p].phase = "absent" /\ Change(p, [phase |-> "pending", ip |-> NoIP])

\* A pod gets an address when it starts, and a new one when its node restarts.
Start(p) ==
  /\ pods[p].phase \in {"pending", "running"}
  /\ \E i \in IPs : Free(i) /\ Change(p, [phase |-> "running", ip |-> i])

Finish(p) == pods[p].phase = "running" /\ Change(p, [pods[p] EXCEPT !.phase = "finished"])

Delete(p) == pods[p].phase # "absent" /\ Change(p, Absent)

WatchBreaks ==
  /\ watching
  /\ changes < MaxChanges
  /\ changes' = changes + 1
  /\ watching' = FALSE
  /\ UNCHANGED <<pods, held, known, deltas, queue, moved, calls, cache>>

\* The first list, and the one after a break.  A pod that has gone meanwhile is
\* deleted as it was last known (DeletedFinalStateUnknown), and one with a name
\* that was there before is an update.
List ==
  /\ ~watching
  /\ watching' = TRUE
  /\ Hear({p \in Pods : pods[p] # Absent \/ known[p] # Absent}, pods, known)
  /\ UNCHANGED <<clusterVars, calls, cache>>

\* The first name in the queue is processed: its calls become due.
Pop ==
  /\ queue # <<>>
  /\ calls' = calls \o deltas[Head(queue)]
  /\ deltas' = [deltas EXCEPT ![Head(queue)] = <<>>]
  /\ queue' = Tail(queue)
  /\ UNCHANGED <<clusterVars, watching, known, moved, cache>>

-----------------------------------------------------------------------------
(* The handlers and the map.                                               *)

\* Wrong variant: set stores a pod without an address under the empty one.
StoredAnyway(call) ==
  [i \in IPs \cup {call.ip} |-> IF i = call.ip THEN call.pod ELSE cache[i]]

\* Wrong variant: set stores a pod only once.
StoredOnce(call) ==
  IF call.ip = NoIP \/ \E i \in IPs : cache[i] = call.pod
    THEN cache
    ELSE [cache EXCEPT ![call.ip] = call.pod]

\* PodCache.set ignores a pod without an address.
Stored(call) ==
  IF call.ip = NoIP THEN cache ELSE [cache EXCEPT ![call.ip] = call.pod]

\* Wrong variant: deleted pods stay.
RemovedNever(call) == cache

\* PodCache.delete removes the entry of the address, whoever is in it.
Removed(call) ==
  IF call.ip = NoIP THEN cache ELSE [cache EXCEPT ![call.ip] = Nobody]

\* Wrong variant: a handler uses the pod of a later call.
HandleLatestPod ==
  /\ calls # <<>>
  /\ LET call == [Head(calls) EXCEPT !.pod = calls[Len(calls)].pod] IN
     cache' = IF call.op = "set" THEN Stored(call) ELSE Removed(call)
  /\ calls' = Tail(calls)
  /\ UNCHANGED <<clusterVars, informerVars>>

\* AddFunc, UpdateFunc or DeleteFunc is called.  The map changes under its lock.
Handle ==
  /\ calls # <<>>
  /\ cache' = IF Head(calls).op = "set" THEN Stored(Head(calls)) ELSE Removed(Head(calls))
  /\ calls' = Tail(calls)
  /\ UNCHANGED <<clusterVars, informerVars>>

\* Everything that happened in the cluster has reached the map.
Settled == watching /\ queue = <<>> /\ calls = <<>>

\* The changes are used up and all of them have reached the map.
Quiescent ==
  /\ changes = MaxChanges
  /\ Settled
  /\ UNCHANGED vars

Next ==
  \/ \E p \in Pods : Create(p) \/ Start(p) \/ Finish(p) \/ Delete(p)
  \/ WatchBreaks \/ List \/ Pop \/ Handle
  \/ Quiescent

Spec == Init /\ [][Next]_vars

-----------------------------------------------------------------------------
(* Properties.                                                             *)

\* What a reader of the map may rely on: see PodDirectory.
Directory == INSTANCE PodDirectory
ImplementsDirectory == Directory!DirectorySpec

\* A running pod is found under its address once the informer has caught up,
\* unless another pod has had that address: breaks of the watch, deletions and
\* calls in another order lose no pod that shares its address with none.
UnsharedIsFound ==
  Settled => \A p \in Pods :
    /\ pods[p].phase = "running"
    /\ \A q \in Pods \ {p} : <<q, pods[p].ip>> \notin held
    => cache[pods[p].ip] = p

\* What the map says of an address its pod no longer has is left from a pod
\* that got another address, or a name that came back after a break: UpdateFunc
\* ignores the old pod.  A deletion by itself leaves nothing behind.
LeftoversMoved ==
  Settled => \A i \in IPs :
    cache[i] # Nobody => pods[cache[i]].ip = i \/ cache[i] \in moved

=============================================================================
