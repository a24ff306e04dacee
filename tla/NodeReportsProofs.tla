------------------------- MODULE NodeReportsProofs -------------------------
(***************************************************************************)
(* Proofs about the two components that read from node after node.         *)
(* NodeReports: for any nodes, any requests of any kinds and any number of *)
(* evictions, restarts and elections.  Connections: for any pods, any      *)
(* listings, and whatever the pod cache learns and forgets meanwhile.      *)
(***************************************************************************)
EXTENDS NodeReports, Connections, FiniteSetTheorems, WellFoundedInduction, TLAPS

\* What the reports of a request tell.
Rates == [rate : [keys : Int, seconds : Int], evictions : Int, behind : BOOLEAN]

Data(kind) ==
  CASE kind = "memory"  -> Rates
    [] kind = NoRequest -> {}
    [] OTHER            -> RepliesTo(kind)

Reports(kind) == [node : Nodes, data : Data(kind)]

Steps == {"master", "replicas", "node", "stamp", "swap", "end"}

RequestSet(kind) ==
  [kind : {kind}, pc : Steps, master : Nodes, left : Seq(Nodes), sample : Samples,
   reports : Seq(Reports(kind)), errs : Seq(Nodes), split : BOOLEAN,
   flags : SUBSET Flags, status : {"none", "ok", "error"}]

\* What is known of a request by the step it is at.
Course(q) ==
  /\ q.pc \in {"master", "replicas"} => q.errs = << >> /\ q.left = << >>
  /\ q.pc = "master" => q.reports = << >>
  /\ q.pc = "replicas" =>
       IF q.kind = "topology" THEN Len(q.reports) = 1 /\ q.reports[1].node = q.master
                              ELSE q.reports = << >>
  /\ q.pc \in {"stamp", "swap"} => q.kind = "memory" /\ q.left # << >>
  /\ q.pc # "end" => q.status = "none" /\ q.flags = {} /\ q.kind # NoRequest
  /\ q.status = "ok" => q.left = << >>

IsTyped(q) == q.kind \in Kinds \cup {NoRequest} /\ q \in RequestSet(q.kind) /\ Course(q)

ClusterType ==
  /\ nodes \subseteq Nodes /\ master \in nodes
  /\ evicted \in [Nodes -> Nat] /\ total \in [Nodes -> Nat] /\ boots \in [Nodes -> Nat]
  /\ events \in 0..MaxEvents /\ time \in 0..events

\* TypeOK with what the reports of each kind tell and with the course of the requests.
TypeInv ==
  /\ ClusterType
  /\ lastEvicted \in [Nodes -> Samples \cup {NoSample}]
  /\ DOMAIN req = Requests /\ \A r \in Requests : IsTyped(req[r])

-----------------------------------------------------------------------------
\* Each disjunct of Next, one name for each action.
LEMMA NextCases ==
  ASSUME Next
  PROVE  \/ \E r \in Requests : ResolveMaster(r)
         \/ \E r \in Requests : ResolveReplicas(r)
         \/ \E r \in Requests : ResolveFails(r)
         \/ \E r \in Requests : ReadNode(r)
         \/ \E r \in Requests : NodeFails(r)
         \/ \E r \in Requests : ReadMemory(r)
         \/ \E r \in Requests : Stamp(r)
         \/ \E r \in Requests : Swap(r)
         \/ \E r \in Requests : Answer(r)
         \/ \E n \in Nodes : Evict(n)
         \/ \E n \in Nodes : Restart(n)
         \/ \E n \in Nodes : Elect(n)
         \/ Tick
         \/ UNCHANGED vars
BY DEF Next, Quiescent

\* A step of request r makes q of it and leaves the others.
LEMMA OneStep ==
  ASSUME DOMAIN req = Requests, NEW r \in Requests, NEW q, Step(r, q)
  PROVE  /\ DOMAIN req' = Requests
         /\ req'[r] = q
         /\ \A o \in Requests : req'[o] = IF o = r THEN q ELSE req[o]
BY DEF Step

LEMMA OthersStay ==
  ASSUME DOMAIN req = Requests, NEW r \in Requests,
         \/ ResolveMaster(r) \/ ResolveReplicas(r) \/ ResolveFails(r) \/ ReadNode(r)
         \/ NodeFails(r) \/ ReadMemory(r) \/ Stamp(r) \/ Swap(r) \/ Answer(r)
  PROVE  \A o \in Requests \ {r} : req'[o] = req[o]
<1>1. \E q : Step(r, q)
  BY DEF ResolveMaster, ResolveReplicas, ResolveFails, ReadNode, NodeFails, ReadMemory, Stamp,
         Swap, Answer
<1> QED
  BY <1>1 DEF Step

LEMMA TypedStep ==
  ASSUME TypeInv, NEW r \in Requests, NEW q, IsTyped(q), Step(r, q),
         UNCHANGED cluster, lastEvicted' \in [Nodes -> Samples \cup {NoSample}]
  PROVE  TypeInv'
<1>1. ClusterType'
  BY DEF TypeInv, ClusterType, cluster
<1>2. DOMAIN req' = Requests /\ \A o \in Requests : IsTyped(req'[o])
  BY OneStep DEF TypeInv
<1> QED
  BY <1>1, <1>2 DEF TypeInv

\* The order of some nodes names each of them, once.
Distinct(s) == \A i, j \in DOMAIN s : s[i] = s[j] => i = j
Named(n, s) == \E i \in DOMAIN s : s[i] = n

LEMMA OrdersName ==
  ASSUME NEW set \in SUBSET Nodes, NEW s \in Orders(set)
  PROVE  s \in Seq(Nodes) /\ s \in Seq(set) /\ Distinct(s) /\ \A n \in set : Named(n, s)
<1> DEFINE c == Cardinality(set)
<1>1. c \in Nat /\ IsFiniteSet(set)
  BY NodesAssumption, FS_Subset, FS_CardinalityType
<1>2. s \in [1..c -> set] /\ \A i, j \in 1..c : i # j => s[i] # s[j]
  BY DEF Orders
<1>3. IsFiniteSet(1..c) /\ Cardinality(1..c) = c
  BY <1>1, FS_Interval
<1>4. s \in Injection(1..c, set)
  BY <1>2 DEF Injection, IsInjective
<1> HIDE DEF c
<1>5. s \in Surjection(1..c, set)
  <2>1. Cardinality(1..c) = Cardinality(set)
    BY <1>3 DEF c
  <2> QED
    BY <1>1, <1>4, <2>1, FS_Injection
<1>6. \A n \in set : \E i \in 1..c : s[i] = n
  BY <1>5 DEF Surjection
<1>7. s \in [1..c -> Nodes]
  BY <1>2
<1> QED
  BY <1>1, <1>2, <1>6, <1>7 DEF Distinct, Named
-----------------------------------------------------------------------------
\* Appending the report of the first node that is left.
LEMMA ReportedType ==
  ASSUME NEW q, IsTyped(q), q.pc \in {"node", "swap"}, q.left # << >>, NEW data \in Data(q.kind)
  PROVE  /\ IsTyped(Reported(q, data))
         /\ Reported(q, data).reports = Append(q.reports, [node |-> Head(q.left), data |-> data])
         /\ Reported(q, data).left = Tail(q.left) /\ Reported(q, data).errs = q.errs
         /\ Reported(q, data).pc = "node" /\ Reported(q, data).kind = q.kind
         /\ Reported(q, data).master = q.master /\ Reported(q, data).split = q.split
         /\ Reported(q, data).sample = q.sample /\ Reported(q, data).status = "none"
<1>1. q \in RequestSet(q.kind) /\ Course(q) /\ q.kind \in Kinds \cup {NoRequest}
  BY DEF IsTyped
<1>2. q.left \in Seq(Nodes) /\ Head(q.left) \in Nodes /\ Tail(q.left) \in Seq(Nodes)
  <2>1. q.left \in Seq(Nodes)
    BY <1>1 DEF RequestSet
  <2> QED
    BY <2>1
<1>3. Append(q.reports, [node |-> Head(q.left), data |-> data]) \in Seq(Reports(q.kind))
  <2>1. q.reports \in Seq(Reports(q.kind))
    BY <1>1 DEF RequestSet
  <2>2. [node |-> Head(q.left), data |-> data] \in Reports(q.kind)
    BY <1>2 DEF Reports
  <2> QED
    BY <2>1, <2>2
<1> DEFINE t == [q EXCEPT !.reports = Append(q.reports, [node |-> Head(q.left), data |-> data]),
                          !.left = Tail(q.left), !.pc = "node"]
<1>4. t = Reported(q, data)
  BY <1>1 DEF Reported, RequestSet
<1>5. t \in RequestSet(q.kind)
  BY <1>1, <1>2, <1>3 DEF RequestSet, Steps
<1>6. /\ t.reports = Append(q.reports, [node |-> Head(q.left), data |-> data])
      /\ t.left = Tail(q.left) /\ t.errs = q.errs
      /\ t.pc = "node" /\ t.kind = q.kind /\ t.master = q.master /\ t.split = q.split
      /\ t.sample = q.sample /\ t.status = q.status /\ t.flags = q.flags
  BY <1>1 DEF RequestSet
<1> HIDE DEF t
<1>7. Course(t) /\ t.status = "none"
  BY <1>1, <1>6 DEF Course
<1>8. IsTyped(t)
  BY <1>1, <1>5, <1>6, <1>7 DEF IsTyped
<1> QED
  BY <1>4, <1>6, <1>7, <1>8, Zenon

LEMMA MemoryIsAKind ==
  /\ "memory" \in Kinds /\ Data("memory") = Rates
  /\ \A kind \in Kinds : kind # NoRequest
  /\ \A kind \in Kinds \ {"memory"} : Data(kind) = RepliesTo(kind)
  /\ Data("topology") = BOOLEAN
BY TogetherAssumption DEF Kinds, Data, RepliesTo, InfoReply

LEMMA ResolveMasterType ==
  ASSUME TypeInv, NEW r \in Requests, ResolveMaster(r)
  PROVE  /\ TypeInv' /\ req'[r].pc = "replicas" /\ req'[r].master = master
         /\ req'[r].split = req[r].split /\ req'[r].kind = req[r].kind
         /\ req'[r].status = "none"
         /\ req[r].kind # "topology" => req'[r].reports = req[r].reports
<1>1. PICK healthy \in BOOLEAN :
        Step(r, [req[r] EXCEPT !.master = master, !.pc = "replicas",
                   !.reports = IF req[r].kind = "topology"
                               THEN <<[node |-> master, data |-> healthy]>> ELSE @])
  BY DEF ResolveMaster
<1> DEFINE first == IF req[r].kind = "topology" THEN <<[node |-> master, data |-> healthy]>>
                                                ELSE req[r].reports
           q == [req[r] EXCEPT !.master = master, !.pc = "replicas", !.reports = first]
<1>2. req[r] \in RequestSet(req[r].kind) /\ Course(req[r]) /\ req[r].kind \in Kinds \cup {NoRequest}
      /\ req[r].pc = "master" /\ master \in Nodes
  BY DEF TypeInv, IsTyped, ClusterType, ResolveMaster
<1>3. Step(r, q)
  BY <1>1, <1>2 DEF RequestSet
<1>4. first \in Seq(Reports(req[r].kind))
  <2>1. req[r].reports \in Seq(Reports(req[r].kind))
    BY <1>2 DEF RequestSet
  <2>2. [node |-> master, data |-> healthy] \in Reports("topology")
    BY <1>2, MemoryIsAKind DEF Reports
  <2>3. CASE req[r].kind = "topology"
    <3>1. first = <<[node |-> master, data |-> healthy]>>
      BY <2>3
    <3> HIDE DEF first
    <3> QED
      BY <2>2, <2>3, <3>1
  <2> QED
    BY <2>1, <2>3
<1>5. /\ req[r].kind = "topology" => Len(first) = 1 /\ first[1].node = master
      /\ req[r].kind # "topology" => first = << >>
  BY <1>2 DEF Course
<1> HIDE DEF first
<1>6. q \in RequestSet(req[r].kind)
  BY <1>2, <1>4 DEF RequestSet, Steps
<1>7. /\ q.kind = req[r].kind /\ q.pc = "replicas" /\ q.master = master /\ q.reports = first
      /\ q.errs = req[r].errs /\ q.left = req[r].left /\ q.status = req[r].status
      /\ q.flags = req[r].flags /\ q.split = req[r].split
  BY <1>2 DEF RequestSet
<1> HIDE DEF q
<1>8. Course(q)
  BY <1>2, <1>5, <1>7 DEF Course
<1>9. IsTyped(q)
  BY <1>2, <1>6, <1>7, <1>8 DEF IsTyped
<1>10. TypeInv'
  BY <1>3, <1>9, TypedStep DEF ResolveMaster, TypeInv
<1>11. req'[r] = q /\ q.status = "none" /\ (req[r].kind # "topology" => first = req[r].reports)
  BY <1>2, <1>3, <1>5, <1>7, OneStep DEF TypeInv, Course
<1> QED
  BY <1>7, <1>10, <1>11

\* The nodes to ask: each that is listed, once, and the master where it is asked too.
LEMMA ResolveReplicasType ==
  ASSUME TypeInv, NEW r \in Requests, ResolveReplicas(r)
  PROVE  /\ TypeInv'
         /\ \E replicas \in Seq(Nodes) :
              /\ req'[r].pc = "node" /\ req'[r].kind = req[r].kind
              /\ req'[r].left = Asked(req[r], replicas)
              /\ req'[r].reports = req[r].reports /\ req'[r].errs = req[r].errs
              /\ req'[r].master = req[r].master /\ req'[r].status = "none"
              /\ Distinct(replicas)
              /\ ~req'[r].split => /\ ~req[r].split
                                   /\ replicas \in Orders(nodes \ {master})
<1>1. PICK replicas \in Orders(nodes \ {master}) \cup {<< >>} :
        Step(r, [req[r] EXCEPT !.pc = "node", !.left = Asked(req[r], replicas),
                               !.split = @ \/ replicas = << >>])
  BY DEF ResolveReplicas
<1> DEFINE q == [req[r] EXCEPT !.pc = "node", !.left = Asked(req[r], replicas),
                               !.split = req[r].split \/ replicas = << >>]
<1>2. req[r] \in RequestSet(req[r].kind) /\ Course(req[r]) /\ req[r].kind \in Kinds \cup {NoRequest}
      /\ req[r].pc = "replicas"
  BY DEF TypeInv, IsTyped, ResolveReplicas
<1>3. Step(r, q)
  BY <1>1, <1>2 DEF RequestSet
<1>4. replicas \in Seq(Nodes) /\ Distinct(replicas)
  <2>1. nodes \ {master} \in SUBSET Nodes
    BY DEF TypeInv, ClusterType
  <2>2. CASE replicas \in Orders(nodes \ {master})
    BY <2>1, <2>2, OrdersName
  <2>3. CASE replicas = << >>
    BY <2>3 DEF Distinct
  <2> QED
    BY <2>2, <2>3
<1>5. Asked(req[r], replicas) \in Seq(Nodes)
  <2>1. req[r].master \in Nodes
    BY <1>2 DEF RequestSet
  <2> QED
    BY <1>4, <2>1 DEF Asked
<1>6. q \in RequestSet(req[r].kind)
  BY <1>2, <1>5 DEF RequestSet, Steps
<1>7. /\ q.kind = req[r].kind /\ q.pc = "node" /\ q.master = req[r].master
      /\ q.reports = req[r].reports /\ q.left = Asked(req[r], replicas)
      /\ q.errs = req[r].errs /\ q.status = req[r].status
      /\ q.flags = req[r].flags /\ q.split = (req[r].split \/ replicas = << >>)
  BY <1>2 DEF RequestSet
<1> HIDE DEF q
<1>8. Course(q) /\ q.status = "none"
  BY <1>2, <1>7 DEF Course
<1>9. IsTyped(q)
  BY <1>2, <1>6, <1>7, <1>8 DEF IsTyped
<1>10. TypeInv'
  BY <1>3, <1>9, TypedStep DEF ResolveReplicas, TypeInv
<1>11. req'[r] = q
  BY <1>3, OneStep DEF TypeInv
<1>12. ~q.split => ~req[r].split /\ replicas \in Orders(nodes \ {master})
  BY <1>1, <1>7
<1> QED
  BY <1>4, <1>7, <1>8, <1>10, <1>11, <1>12

LEMMA ResolveFailsType ==
  ASSUME TypeInv, NEW r \in Requests, ResolveFails(r)
  PROVE  /\ TypeInv' /\ req'[r].pc = "end" /\ req'[r].status = "error"
         /\ req'[r].flags = {} /\ req'[r].kind = req[r].kind /\ req'[r].reports = req[r].reports
<1> DEFINE q == [req[r] EXCEPT !.pc = "end", !.status = "error"]
<1>1. Step(r, q)
  BY DEF ResolveFails
<1>2. req[r] \in RequestSet(req[r].kind) /\ Course(req[r]) /\ req[r].kind \in Kinds \cup {NoRequest}
      /\ req[r].pc \in {"master", "replicas"}
  BY DEF TypeInv, IsTyped, ResolveFails
<1>3. q \in RequestSet(req[r].kind)
  BY <1>2 DEF RequestSet, Steps
<1>4. q.kind = req[r].kind /\ q.pc = "end" /\ q.status = "error" /\ q.flags = req[r].flags
      /\ q.reports = req[r].reports
  BY <1>2 DEF RequestSet
<1> HIDE DEF q
<1>5. IsTyped(q)
  BY <1>2, <1>3, <1>4 DEF IsTyped, Course
<1>6. TypeInv'
  BY <1>1, <1>5, TypedStep DEF ResolveFails, TypeInv
<1>7. req'[r] = q /\ req[r].flags = {}
  BY <1>1, <1>2, OneStep DEF TypeInv, Course
<1> QED
  BY <1>4, <1>6, <1>7

LEMMA ReadNodeType ==
  ASSUME TypeInv, NEW r \in Requests, ReadNode(r)
  PROVE  /\ TypeInv'
         /\ \E data \in Data(req[r].kind) : req'[r] = Reported(req[r], data)
<1>1. PICK data \in RepliesTo(req[r].kind) : Step(r, Reported(req[r], data))
  BY DEF ReadNode
<1>2. IsTyped(req[r]) /\ req[r].pc = "node" /\ req[r].left # << >> /\ req[r].kind # "memory"
  BY DEF TypeInv, ReadNode
<1>3. data \in Data(req[r].kind)
  <2>1. req[r].kind \in Kinds
    BY <1>2 DEF IsTyped, Course
  <2> QED
    BY <1>2, <2>1, MemoryIsAKind
<1>4. IsTyped(Reported(req[r], data))
  BY <1>2, <1>3, ReportedType
<1>5. TypeInv'
  BY <1>1, <1>4, TypedStep DEF ReadNode, TypeInv
<1>6. req'[r] = Reported(req[r], data)
  BY <1>1, OneStep DEF TypeInv
<1> QED
  BY <1>3, <1>5, <1>6

LEMMA NodeFailsType ==
  ASSUME TypeInv, NEW r \in Requests, NodeFails(r)
  PROVE  /\ TypeInv'
         /\ req'[r].errs = Append(req[r].errs, Head(req[r].left))
         /\ req'[r].left = Tail(req[r].left) /\ req'[r].reports = req[r].reports
         /\ req'[r].pc = "node" /\ req'[r].kind = req[r].kind /\ req'[r].status = "none"
         /\ req'[r].master = req[r].master /\ req'[r].split = req[r].split
<1> DEFINE q == [req[r] EXCEPT !.errs = Append(req[r].errs, Head(req[r].left)),
                               !.left = Tail(req[r].left)]
<1>1. req[r] \in RequestSet(req[r].kind) /\ Course(req[r]) /\ req[r].kind \in Kinds \cup {NoRequest}
      /\ req[r].pc = "node" /\ req[r].left # << >>
  BY DEF TypeInv, IsTyped, NodeFails
<1>2. Step(r, q)
  BY <1>1 DEF NodeFails, RequestSet
<1>3. Append(req[r].errs, Head(req[r].left)) \in Seq(Nodes) /\ Tail(req[r].left) \in Seq(Nodes)
  <2>1. req[r].errs \in Seq(Nodes) /\ req[r].left \in Seq(Nodes)
    BY <1>1 DEF RequestSet
  <2> QED
    BY <1>1, <2>1
<1>4. q \in RequestSet(req[r].kind)
  BY <1>1, <1>3 DEF RequestSet, Steps
<1>5. /\ q.kind = req[r].kind /\ q.pc = "node" /\ q.status = req[r].status
      /\ q.flags = req[r].flags /\ q.reports = req[r].reports /\ q.master = req[r].master
      /\ q.split = req[r].split /\ q.left = Tail(req[r].left)
      /\ q.errs = Append(req[r].errs, Head(req[r].left))
  BY <1>1 DEF RequestSet
<1> HIDE DEF q
<1>6. IsTyped(q) /\ q.status = "none"
  BY <1>1, <1>4, <1>5 DEF IsTyped, Course
<1>7. TypeInv'
  BY <1>2, <1>6, TypedStep DEF NodeFails, TypeInv
<1>8. req'[r] = q
  BY <1>2, OneStep DEF TypeInv
<1> QED
  BY <1>5, <1>6, <1>7, <1>8

LEMMA ReadMemoryType ==
  ASSUME TypeInv, NEW r \in Requests, ReadMemory(r)
  PROVE  /\ TypeInv'
         /\ Head(req[r].left) \in Nodes
         /\ req'[r] = [req[r] EXCEPT !.pc = "stamp", !.sample =
                         [count |-> evicted[Head(req[r].left)], at |-> 0,
                          total |-> total[Head(req[r].left)], boot |-> boots[Head(req[r].left)]]]
<1> DEFINE n == Head(req[r].left)
           sample == [count |-> evicted[n], at |-> 0, total |-> total[n], boot |-> boots[n]]
           q == [req[r] EXCEPT !.pc = "stamp", !.sample = sample]
<1>1. req[r] \in RequestSet(req[r].kind) /\ Course(req[r]) /\ req[r].kind \in Kinds \cup {NoRequest}
      /\ req[r].pc = "node" /\ req[r].left # << >> /\ req[r].kind = "memory"
  BY DEF TypeInv, IsTyped, ReadMemory
<1>2. Step(r, q)
  BY DEF ReadMemory
<1>3. n \in Nodes
  <2>1. req[r].left \in Seq(Nodes)
    BY <1>1 DEF RequestSet
  <2> QED
    BY <1>1, <2>1
<1>4. sample \in Samples
  BY <1>3 DEF TypeInv, ClusterType, Samples
<1> HIDE DEF n, sample
<1>5. q \in RequestSet(req[r].kind)
  BY <1>1, <1>4 DEF RequestSet, Steps
<1>6. /\ q.kind = req[r].kind /\ q.pc = "stamp" /\ q.status = req[r].status
      /\ q.flags = req[r].flags /\ q.left = req[r].left
  BY <1>1 DEF RequestSet
<1>7. IsTyped(q)
  <2> HIDE DEF q
  <2> QED
    BY <1>1, <1>5, <1>6 DEF IsTyped, Course
<1>8. TypeInv'
  <2> HIDE DEF q
  <2> QED
    BY <1>2, <1>7, TypedStep DEF ReadMemory, TypeInv
<1>9. req'[r] = q
  <2> HIDE DEF q
  <2> QED
    BY <1>2, OneStep DEF TypeInv
<1> QED
  BY <1>3, <1>8, <1>9 DEF n, sample

LEMMA StampType ==
  ASSUME TypeInv, NEW r \in Requests, Stamp(r)
  PROVE  /\ TypeInv'
         /\ req'[r].pc = "swap" /\ req'[r].sample = [req[r].sample EXCEPT !.at = time]
         /\ req'[r].left = req[r].left /\ req'[r].kind = req[r].kind
         /\ req'[r].reports = req[r].reports /\ req'[r].errs = req[r].errs
         /\ req'[r].master = req[r].master /\ req'[r].split = req[r].split
         /\ req'[r].status = "none"
<1> DEFINE sample == [req[r].sample EXCEPT !.at = time]
           q == [req[r] EXCEPT !.pc = "swap", !.sample = sample]
<1>1. req[r] \in RequestSet(req[r].kind) /\ Course(req[r]) /\ req[r].kind \in Kinds \cup {NoRequest}
      /\ req[r].pc = "stamp"
  BY DEF TypeInv, IsTyped, Stamp
<1>2. Step(r, q)
  BY <1>1 DEF Stamp, RequestSet
<1>3. sample \in Samples
  <2>1. req[r].sample \in Samples
    BY <1>1 DEF RequestSet
  <2>2. time \in Nat
    BY BoundsAssumption DEF TypeInv, ClusterType
  <2> QED
    BY <2>1, <2>2 DEF Samples
<1> HIDE DEF sample
<1>4. q \in RequestSet(req[r].kind)
  BY <1>1, <1>3 DEF RequestSet, Steps
<1>5. /\ q.kind = req[r].kind /\ q.pc = "swap" /\ q.status = req[r].status
      /\ q.flags = req[r].flags /\ q.left = req[r].left /\ q.sample = sample
      /\ q.reports = req[r].reports /\ q.errs = req[r].errs
      /\ q.master = req[r].master /\ q.split = req[r].split
  BY <1>1 DEF RequestSet
<1> HIDE DEF q
<1>6. IsTyped(q) /\ q.status = "none"
  BY <1>1, <1>4, <1>5 DEF IsTyped, Course
<1>7. TypeInv'
  BY <1>2, <1>6, TypedStep DEF Stamp, TypeInv
<1>8. req'[r] = q
  BY <1>2, OneStep DEF TypeInv
<1> QED
  BY <1>5, <1>6, <1>7, <1>8 DEF sample

\* What a request for the memory tells of a node.
ReportOf(prev, sample) ==
  [rate |-> Rate(prev, sample), evictions |-> sample.total - prev.total,
   behind |-> sample.boot < prev.boot]

LEMMA SwapType ==
  ASSUME TypeInv, NEW r \in Requests, Swap(r)
  PROVE  /\ TypeInv'
         /\ Head(req[r].left) \in Nodes /\ req[r].sample \in Samples
         /\ lastEvicted' = [lastEvicted EXCEPT ![Head(req[r].left)] = req[r].sample]
         /\ req'[r] = Reported([req[r] EXCEPT !.sample = Zero],
                               ReportOf(lastEvicted[Head(req[r].left)], req[r].sample))
         /\ req'[r].reports = Append(req[r].reports,
                                     [node |-> Head(req[r].left),
                                      data |-> ReportOf(lastEvicted[Head(req[r].left)], req[r].sample)])
         /\ req'[r].left = Tail(req[r].left) /\ req'[r].kind = req[r].kind
         /\ req'[r].errs = req[r].errs /\ req'[r].pc = "node" /\ req'[r].status = "none"
         /\ req'[r].master = req[r].master /\ req'[r].split = req[r].split
<1> DEFINE n == Head(req[r].left)
           prev == lastEvicted[n]
           q == [req[r] EXCEPT !.sample = Zero]
           data == ReportOf(prev, req[r].sample)
<1>1. req[r] \in RequestSet(req[r].kind) /\ Course(req[r]) /\ req[r].kind \in Kinds \cup {NoRequest}
      /\ req[r].pc = "swap"
  BY DEF TypeInv, IsTyped, Swap
<1>2. req[r].left # << >> /\ req[r].kind = "memory"
  BY <1>1 DEF Course
<1>3. n \in Nodes /\ req[r].sample \in Samples
  <2>1. req[r].left \in Seq(Nodes) /\ req[r].sample \in Samples
    BY <1>1 DEF RequestSet
  <2> QED
    BY <1>2, <2>1
<1>4. prev \in Samples \cup {NoSample}
  BY <1>3 DEF TypeInv
<1>5. lastEvicted' = [lastEvicted EXCEPT ![n] = req[r].sample] /\ Step(r, Reported(q, data))
  BY DEF Swap, ReportOf
<1>6. data \in Data(req[r].kind)
  <2>1. /\ req[r].sample.count \in Int /\ req[r].sample.at \in Int
        /\ req[r].sample.total \in Int /\ req[r].sample.boot \in Int
    BY <1>3 DEF Samples
  <2>2. prev.count \in Int /\ prev.at \in Int /\ prev.total \in Int /\ prev.boot \in Int
    BY <1>4 DEF Samples, NoSample
  <2> HIDE DEF prev
  <2>3. Rate(prev, req[r].sample) \in [keys : Int, seconds : Int]
    BY <2>1, <2>2 DEF Rate
  <2>4. data \in Rates
    BY <2>1, <2>2, <2>3 DEF ReportOf, Rates
  <2> QED
    BY <1>2, <2>4, MemoryIsAKind
<1>7. /\ q \in RequestSet(req[r].kind)
      /\ q.kind = req[r].kind /\ q.pc = "swap" /\ q.status = req[r].status
      /\ q.flags = req[r].flags /\ q.left = req[r].left /\ q.reports = req[r].reports
      /\ q.errs = req[r].errs /\ q.master = req[r].master /\ q.split = req[r].split
  <2>1. Zero \in Samples
    BY DEF Zero, Samples
  <2>2. q \in RequestSet(req[r].kind)
    BY <1>1, <2>1 DEF RequestSet
  <2> QED
    BY <1>1, <2>2 DEF RequestSet
<1> HIDE DEF q, data, prev
<1>8. IsTyped(q)
  BY <1>1, <1>7 DEF IsTyped, Course
<1>9. /\ IsTyped(Reported(q, data))
      /\ Reported(q, data).reports = Append(q.reports, [node |-> Head(q.left), data |-> data])
      /\ Reported(q, data).left = Tail(q.left) /\ Reported(q, data).errs = q.errs
      /\ Reported(q, data).pc = "node" /\ Reported(q, data).kind = q.kind
      /\ Reported(q, data).master = q.master /\ Reported(q, data).split = q.split
      /\ Reported(q, data).status = "none"
  <2>1. q.pc \in {"node", "swap"} /\ q.left # << >> /\ data \in Data(q.kind)
    BY <1>2, <1>6, <1>7
  <2> QED
    BY <1>8, <2>1, ReportedType
<1>10. lastEvicted' \in [Nodes -> Samples \cup {NoSample}]
  BY <1>3, <1>5 DEF TypeInv
<1>11. TypeInv'
  BY <1>5, <1>9, <1>10, TypedStep DEF Swap
<1>12. req'[r] = Reported(q, data)
  BY <1>5, OneStep DEF TypeInv
<1> QED
  BY <1>3, <1>5, <1>7, <1>9, <1>11, <1>12 DEF q, data, prev, n

LEMMA FlagsType ==
  ASSUME NEW q, IsTyped(q), NEW flags \in FlagsOf(q)
  PROVE  flags \in SUBSET Flags
<1>1. \A i \in DOMAIN q.reports : q.reports[i].node \in Nodes
  <2>1. q.reports \in Seq(Reports(q.kind))
    BY DEF IsTyped, RequestSet
  <2>2. \A i \in DOMAIN q.reports : q.reports[i] \in Reports(q.kind)
    BY <2>1
  <2> QED
    BY <2>2 DEF Reports
<1>2. Overloaded(q) \subseteq Nodes
  BY <1>1 DEF Overloaded
<1>3. \A f \in DriftFlags(q) : f \subseteq {"drift"}
  BY DEF DriftFlags
<1>4. flags \in DriftFlags(q) \/ flags = Overloaded(q) \/ flags = {}
  <2>1. CASE q.kind = "diff"
    BY <2>1 DEF FlagsOf
  <2>2. CASE q.kind = "distribution"
    BY <2>2 DEF FlagsOf
  <2>3. CASE q.kind \notin {"diff", "distribution"}
    BY <2>3 DEF FlagsOf
  <2> QED
    BY <2>1, <2>2, <2>3
<1> QED
  BY <1>2, <1>3, <1>4 DEF Flags

LEMMA AnswerType ==
  ASSUME TypeInv, NEW r \in Requests, Answer(r)
  PROVE  /\ TypeInv'
         /\ req'[r].flags \in FlagsOf(req[r])
         /\ req'[r].pc = "end" /\ req'[r].status \in {"ok", "error"}
         /\ req'[r].left = req[r].left /\ req'[r].kind = req[r].kind
         /\ req'[r].reports = req[r].reports /\ req'[r].errs = req[r].errs
         /\ req'[r].master = req[r].master /\ req'[r].split = req[r].split
<1>1. PICK flags \in FlagsOf(req[r]) :
        Step(r, [req[r] EXCEPT !.pc = "end", !.flags = flags,
                   !.status = IF req[r].errs # << >> /\ IsNothing(req[r], flags) THEN "error" ELSE "ok"])
  BY DEF Answer
<1>2. IsTyped(req[r]) /\ req[r] \in RequestSet(req[r].kind) /\ Course(req[r])
      /\ req[r].kind \in Kinds \cup {NoRequest}
      /\ req[r].pc = "node" /\ req[r].left = << >>
  BY DEF TypeInv, IsTyped, Answer
<1>3. flags \in SUBSET Flags
  BY <1>2, FlagsType
<1> DEFINE status == IF req[r].errs # << >> /\ IsNothing(req[r], flags) THEN "error" ELSE "ok"
           q == [req[r] EXCEPT !.pc = "end", !.flags = flags, !.status = status]
<1>4. status \in {"ok", "error"}
  OBVIOUS
<1>5. Step(r, q)
  BY <1>1
<1> HIDE DEF status
<1>6. q \in RequestSet(req[r].kind)
  BY <1>2, <1>3, <1>4 DEF RequestSet, Steps
<1>7. /\ q.kind = req[r].kind /\ q.pc = "end" /\ q.status = status
      /\ q.flags = flags /\ q.left = req[r].left /\ q.reports = req[r].reports
      /\ q.errs = req[r].errs /\ q.master = req[r].master /\ q.split = req[r].split
  BY <1>2 DEF RequestSet
<1> HIDE DEF q
<1>8. IsTyped(q)
  BY <1>2, <1>6, <1>7 DEF IsTyped, Course
<1>9. TypeInv'
  BY <1>5, <1>8, TypedStep DEF Answer, TypeInv
<1>10. req'[r] = q
  BY <1>5, OneStep DEF TypeInv
<1> QED
  BY <1>4, <1>7, <1>9, <1>10

\* An election only tells the requests between their two queries.
LEMMA ElectType ==
  ASSUME TypeInv, NEW n \in Nodes, Elect(n)
  PROVE  /\ TypeInv'
         /\ \A r \in Requests :
              req'[r] = [req[r] EXCEPT !.split = req[r].split \/ req[r].pc = "replicas"]
<1>1. \A r \in Requests : IsTyped(req[r]) /\ req[r] \in RequestSet(req[r].kind)
  BY DEF TypeInv, IsTyped
<1>2. \A r \in Requests :
        req'[r] = [req[r] EXCEPT !.split = req[r].split \/ req[r].pc = "replicas"]
  BY <1>1 DEF Elect, RequestSet
<1>3. ASSUME NEW r \in Requests PROVE IsTyped(req'[r])
  <2> DEFINE q == [req[r] EXCEPT !.split = req[r].split \/ req[r].pc = "replicas"]
  <2>1. q \in RequestSet(req[r].kind)
    BY <1>1 DEF RequestSet
  <2>2. /\ q.kind = req[r].kind /\ q.pc = req[r].pc /\ q.errs = req[r].errs
        /\ q.left = req[r].left /\ q.reports = req[r].reports /\ q.master = req[r].master
        /\ q.status = req[r].status /\ q.flags = req[r].flags
    BY <1>1 DEF RequestSet
  <2>3. req'[r] = q
    BY <1>2
  <2> HIDE DEF q
  <2> QED
    BY <1>1, <2>1, <2>2, <2>3 DEF IsTyped, Course
<1>4. ClusterType' /\ lastEvicted' = lastEvicted /\ DOMAIN req' = Requests
  BY BoundsAssumption DEF Elect, Happens, TypeInv, ClusterType
<1> QED
  BY <1>2, <1>3, <1>4 DEF TypeInv

LEMMA ClusterStepType ==
  ASSUME TypeInv, (\E n \in Nodes : Evict(n) \/ Restart(n)) \/ Tick
  PROVE  TypeInv'
<1>1. ASSUME NEW n \in Nodes, Evict(n) PROVE ClusterType'
  BY <1>1, BoundsAssumption DEF Evict, Happens, TypeInv, ClusterType
<1>2. ASSUME NEW n \in Nodes, Restart(n) PROVE ClusterType'
  BY <1>2, BoundsAssumption DEF Restart, Happens, TypeInv, ClusterType
<1>3. ASSUME Tick PROVE ClusterType'
  BY <1>3, BoundsAssumption DEF Tick, Happens, TypeInv, ClusterType
<1>4. lastEvicted' = lastEvicted /\ req' = req
  BY DEF Evict, Restart, Tick
<1>5. ClusterType'
  BY <1>1, <1>2, <1>3
<1> QED
  BY <1>4, <1>5 DEF TypeInv

LEMMA NextTypeInv == TypeInv /\ [Next]_vars => TypeInv'
<1>1. ASSUME TypeInv, UNCHANGED vars PROVE TypeInv'
  BY <1>1 DEF vars, cluster, TypeInv, ClusterType
<1> QED
  BY <1>1, NextCases, ResolveMasterType, ResolveReplicasType, ResolveFailsType, ReadNodeType,
     NodeFailsType, ReadMemoryType, StampType, SwapType, AnswerType, ElectType, ClusterStepType

LEMMA InitTypeInv == Init => TypeInv
<1> SUFFICES ASSUME Init PROVE TypeInv
  OBVIOUS
<1>1. PICK t \in Together :
        /\ nodes = t.nodes /\ master \in nodes
        /\ req = [r \in Requests |->
                   [kind |-> t.kinds[r], pc |-> IF t.kinds[r] = NoRequest THEN "end" ELSE "master",
                    master |-> master, left |-> << >>, sample |-> Zero, reports |-> << >>,
                    errs |-> << >>, split |-> FALSE, flags |-> {}, status |-> "none"]]
  BY DEF Init
<1>2. t.nodes \subseteq Nodes /\ t.kinds \in [Requests -> Kinds \cup {NoRequest}]
  BY TogetherAssumption
<1>3. ClusterType
  BY <1>1, <1>2, BoundsAssumption DEF Init, ClusterType
<1>4. lastEvicted \in [Nodes -> Samples \cup {NoSample}]
  BY DEF Init, Zero, Samples
<1>5. ASSUME NEW r \in Requests PROVE IsTyped(req[r])
  <2>1. master \in Nodes /\ Zero \in Samples /\ t.kinds[r] \in Kinds \cup {NoRequest}
    BY <1>1, <1>2 DEF Zero, Samples
  <2>2. req[r] \in RequestSet(t.kinds[r])
    BY <1>1, <2>1 DEF RequestSet, Steps
  <2>3. /\ req[r].kind = t.kinds[r] /\ req[r].left = << >> /\ req[r].reports = << >>
        /\ req[r].errs = << >> /\ req[r].flags = {} /\ req[r].status = "none"
        /\ req[r].pc = IF t.kinds[r] = NoRequest THEN "end" ELSE "master"
    BY <1>1
  <2> QED
    BY <2>1, <2>2, <2>3 DEF IsTyped, Course
<1> QED
  BY <1>1, <1>3, <1>4, <1>5 DEF TypeInv

LEMMA TypeInvariance == Spec => []TypeInv
  BY InitTypeInv, NextTypeInv, PTL DEF Spec

\* The types of the cluster, the baselines and the requests, for any nodes and requests.
THEOREM TypeCorrect == Spec => []TypeOK
<1>1. TypeInv => TypeOK
  <2> SUFFICES ASSUME TypeInv, NEW r \in Requests PROVE IsRequest(req[r])
    BY DEF TypeInv, ClusterType, TypeOK
  <2>1. req[r] \in RequestSet(req[r].kind) /\ req[r].kind \in Kinds \cup {NoRequest}
    BY DEF TypeInv, IsTyped
  <2>2. \A i \in DOMAIN req[r].reports : req[r].reports[i].node \in Nodes
    <3>1. req[r].reports \in Seq(Reports(req[r].kind))
      BY <2>1 DEF RequestSet
    <3>2. \A i \in DOMAIN req[r].reports : req[r].reports[i] \in Reports(req[r].kind)
      BY <3>1
    <3> QED
      BY <3>2 DEF Reports
  <2> QED
    BY <2>1, <2>2 DEF IsRequest, RequestSet, Steps
<1> QED
  BY <1>1, TypeInvariance, PTL
-----------------------------------------------------------------------------
(* The eviction rate.                                                      *)

\* What a sample of node n tells of its evictions since.
StillTrue(s, n) ==
  /\ s.total <= total[n] /\ s.boot <= boots[n]
  /\ s.boot = boots[n] => evicted[n] - s.count = total[n] - s.total
  /\ s.boot < boots[n] => evicted[n] <= total[n] - s.total

\* And what two samples tell of the evictions between them.
Agree(s, t) ==
  /\ s.boot = t.boot => s.count - t.count = s.total - t.total
  /\ s.boot > t.boot => s.count <= s.total - t.total

Holds(q, n) == q.pc \in {"stamp", "swap"} /\ Head(q.left) = n

\* The baseline of n, and the samples that are about to replace it.
IsInPlay(s, n) ==
  \/ s = lastEvicted[n] /\ s # NoSample
  \/ \E r \in Requests : Holds(req[r], n) /\ s = req[r].sample

SamplesAgree ==
  \A n \in Nodes : \A s, t \in Samples :
    IsInPlay(s, n) /\ IsInPlay(t, n) => StillTrue(s, n) /\ Agree(s, t)

\* RateIsOfEvictions speaks of the reports; that the samples not reported yet are of one
\* history, in whatever order they replace each other, makes it inductive.
RateInv == SamplesAgree /\ RateIsOfEvictions

\* Samples that were in play before, but for their times, still agree.
LEMMA SamplesStillAgree ==
  ASSUME SamplesAgree, UNCHANGED <<evicted, total, boots>>,
         \A n \in Nodes : \A s \in Samples :
           IsInPlay(s, n)' => \E t \in Samples : /\ IsInPlay(t, n)
                                               /\ t.count = s.count /\ t.total = s.total
                                               /\ t.boot = s.boot
  PROVE  SamplesAgree'
<1> SUFFICES ASSUME NEW n \in Nodes, NEW s \in Samples, NEW t \in Samples,
                    IsInPlay(s, n)', IsInPlay(t, n)'
             PROVE  StillTrue(s, n)' /\ Agree(s, t)'
  BY DEF SamplesAgree
<1>1. PICK s0 \in Samples : IsInPlay(s0, n) /\ s0.count = s.count /\ s0.total = s.total /\ s0.boot = s.boot
  OBVIOUS
<1>2. PICK t0 \in Samples : IsInPlay(t0, n) /\ t0.count = t.count /\ t0.total = t.total /\ t0.boot = t.boot
  OBVIOUS
<1>3. StillTrue(s0, n) /\ Agree(s0, t0)
  BY <1>1, <1>2 DEF SamplesAgree
<1> QED
  BY <1>1, <1>2, <1>3 DEF StillTrue, Agree

\* A step of a request that holds no sample after it.
LEMMA NoNewSample ==
  ASSUME SamplesAgree, UNCHANGED <<evicted, total, boots, lastEvicted>>, NEW r \in Requests,
         \A o \in Requests \ {r} : req'[o] = req[o], req'[r].pc \notin {"stamp", "swap"}
  PROVE  SamplesAgree'
<1>1. \A n \in Nodes : \A s : IsInPlay(s, n)' => IsInPlay(s, n)
  BY DEF IsInPlay, Holds
<1> QED
  BY <1>1, SamplesStillAgree

\* The rate of two samples that agree.
LEMMA RateOfAgreeing ==
  ASSUME NEW sample \in Samples, NEW prev \in Samples \cup {NoSample},
         prev # NoSample => Agree(sample, prev)
  PROVE  LET data == ReportOf(prev, sample)
         IN  /\ data.rate.keys >= 0 /\ data.rate.seconds > 0
             /\ data.rate.keys > 0 => data.behind \/ data.rate.keys <= data.evictions
<1>1. /\ sample.count \in Nat /\ sample.at \in Nat /\ sample.total \in Nat /\ sample.boot \in Nat
      /\ prev # NoSample => /\ prev.count \in Nat /\ prev.at \in Nat
                            /\ prev.total \in Nat /\ prev.boot \in Nat
  BY DEF Samples
<1>2. CASE prev = NoSample \/ sample.count < prev.count \/ sample.at <= prev.at
  BY <1>2 DEF ReportOf, Rate
<1>3. CASE ~(prev = NoSample \/ sample.count < prev.count \/ sample.at <= prev.at)
  <2>1. Rate(prev, sample) = [keys |-> sample.count - prev.count, seconds |-> sample.at - prev.at]
    BY <1>3 DEF Rate
  <2>2. /\ ReportOf(prev, sample).rate.keys = sample.count - prev.count
        /\ ReportOf(prev, sample).rate.seconds = sample.at - prev.at
        /\ ReportOf(prev, sample).evictions = sample.total - prev.total
    BY <2>1 DEF ReportOf
  <2>4. ReportOf(prev, sample).behind <=> sample.boot < prev.boot
    BY Zenon DEF ReportOf
  <2>3. sample.boot < prev.boot \/ sample.count - prev.count <= sample.total - prev.total
    BY <1>1, <1>3 DEF Agree
  <2> QED
    BY <1>1, <1>3, <2>2, <2>3, <2>4
<1> QED
  BY <1>2, <1>3

\* Reports that are not of the memory, or that were there before.
LEMMA NoNewRate ==
  ASSUME RateIsOfEvictions, NEW r \in Requests, \A o \in Requests \ {r} : req'[o] = req[o],
         req'[r].kind = req[r].kind,
         req[r].kind = "memory" => req'[r].reports = req[r].reports
  PROVE  RateIsOfEvictions'
<1>1. \A o \in Requests : req'[o].kind = "memory" => /\ req[o].kind = "memory"
                                                     /\ req'[o].reports = req[o].reports
  OBVIOUS
<1> QED
  BY <1>1 DEF RateIsOfEvictions

LEMMA EvictAgrees == ASSUME TypeInv, SamplesAgree, NEW n \in Nodes, Evict(n) PROVE SamplesAgree'
<1> SUFFICES ASSUME NEW m \in Nodes, NEW s \in Samples, NEW t \in Samples,
                    IsInPlay(s, m)', IsInPlay(t, m)'
             PROVE  StillTrue(s, m)' /\ Agree(s, t)'
  BY DEF SamplesAgree
<1>1. IsInPlay(s, m) /\ IsInPlay(t, m)
  BY DEF Evict, IsInPlay
<1>2. StillTrue(s, m) /\ Agree(s, t)
  BY <1>1 DEF SamplesAgree
<1>3. /\ evicted[m] \in Nat /\ total[m] \in Nat /\ boots[m] \in Nat /\ boots' = boots
      /\ \/ evicted'[m] = evicted[m] /\ total'[m] = total[m]
         \/ evicted'[m] = evicted[m] + 1 /\ total'[m] = total[m] + 1
  BY DEF Evict, TypeInv, ClusterType
<1> QED
  BY <1>2, <1>3 DEF StillTrue, Agree, Samples

LEMMA RestartAgrees == ASSUME TypeInv, SamplesAgree, NEW n \in Nodes, Restart(n) PROVE SamplesAgree'
<1> SUFFICES ASSUME NEW m \in Nodes, NEW s \in Samples, NEW t \in Samples,
                    IsInPlay(s, m)', IsInPlay(t, m)'
             PROVE  StillTrue(s, m)' /\ Agree(s, t)'
  BY DEF SamplesAgree
<1>1. IsInPlay(s, m) /\ IsInPlay(t, m)
  BY DEF Restart, IsInPlay
<1>2. StillTrue(s, m) /\ Agree(s, t)
  BY <1>1 DEF SamplesAgree
<1>3. /\ evicted[m] \in Nat /\ total[m] \in Nat /\ boots[m] \in Nat /\ total' = total
      /\ \/ evicted'[m] = evicted[m] /\ boots'[m] = boots[m]
         \/ evicted'[m] = 0 /\ boots'[m] = boots[m] + 1
  BY DEF Restart, TypeInv, ClusterType
<1> QED
  BY <1>2, <1>3 DEF StillTrue, Agree, Samples

\* A new sample is what the node tells now.
LEMMA ReadMemoryAgrees ==
  ASSUME TypeInv, SamplesAgree, NEW r \in Requests, ReadMemory(r)
  PROVE  SamplesAgree'
<1> SUFFICES ASSUME NEW n \in Nodes, NEW s \in Samples, NEW t \in Samples,
                    IsInPlay(s, n)', IsInPlay(t, n)'
             PROVE  StillTrue(s, n)' /\ Agree(s, t)'
  BY DEF SamplesAgree
<1> DEFINE IsNew(u) == u.count = evicted[n] /\ u.total = total[n] /\ u.boot = boots[n]
<1>1. /\ UNCHANGED <<evicted, total, boots, lastEvicted>>
      /\ \A o \in Requests \ {r} : req'[o] = req[o]
      /\ evicted[n] \in Nat /\ total[n] \in Nat /\ boots[n] \in Nat
  BY OneStep DEF ReadMemory, cluster, TypeInv, ClusterType
<1>2. Holds(req'[r], n) => IsNew(req'[r].sample)
  <2>1. req[r] \in RequestSet(req[r].kind)
    BY DEF TypeInv, IsTyped
  <2>2. req'[r].left = req[r].left /\ req'[r].sample =
          [count |-> evicted[Head(req[r].left)], at |-> 0,
           total |-> total[Head(req[r].left)], boot |-> boots[Head(req[r].left)]]
    BY <2>1, ReadMemoryType DEF RequestSet
  <2> QED
    BY <2>2 DEF Holds
<1>3. \A u : IsInPlay(u, n)' => IsInPlay(u, n) \/ IsNew(u)
  BY <1>1, <1>2 DEF IsInPlay
<1>4. /\ IsInPlay(s, n) => StillTrue(s, n)
      /\ IsInPlay(t, n) => StillTrue(t, n)
      /\ IsInPlay(s, n) /\ IsInPlay(t, n) => Agree(s, t)
  BY DEF SamplesAgree
<1>5. /\ IsNew(s) => StillTrue(s, n)
      /\ IsNew(t) => StillTrue(t, n)
  BY <1>1 DEF StillTrue
<1>6. Agree(s, t)
  <2>1. CASE IsNew(s)
    BY <1>1, <1>3, <1>4, <1>5, <2>1 DEF StillTrue, Agree, Samples
  <2>2. CASE IsNew(t) /\ IsInPlay(s, n)
    BY <1>1, <1>4, <2>2 DEF StillTrue, Agree, Samples
  <2> QED
    BY <1>3, <1>4, <2>1, <2>2
<1> QED
  BY <1>1, <1>3, <1>4, <1>5, <1>6 DEF StillTrue, Agree

LEMMA StampAgrees ==
  ASSUME TypeInv, SamplesAgree, NEW r \in Requests, Stamp(r)
  PROVE  SamplesAgree'
<1>1. /\ UNCHANGED <<evicted, total, boots, lastEvicted>>
      /\ \A o \in Requests \ {r} : req'[o] = req[o]
  BY OneStep DEF Stamp, cluster, TypeInv
<1>2. /\ req[r].sample \in Samples /\ req'[r].left = req[r].left /\ req[r].pc = "stamp"
      /\ req'[r].sample = [req[r].sample EXCEPT !.at = time]
  BY StampType DEF TypeInv, IsTyped, RequestSet, Stamp
<1>3. /\ req'[r].sample.count = req[r].sample.count
      /\ req'[r].sample.total = req[r].sample.total
      /\ req'[r].sample.boot = req[r].sample.boot
  BY <1>2 DEF Samples
<1>4. ASSUME NEW n \in Nodes, NEW s \in Samples, IsInPlay(s, n)'
      PROVE  \E t \in Samples : /\ IsInPlay(t, n)
                                /\ t.count = s.count /\ t.total = s.total /\ t.boot = s.boot
  <2>1. CASE IsInPlay(s, n)
    BY <2>1
  <2>2. CASE ~IsInPlay(s, n)
    <3>1. Holds(req'[r], n) /\ s = req'[r].sample
      BY <1>1, <1>4, <2>2 DEF IsInPlay
    <3>2. IsInPlay(req[r].sample, n)
      BY <1>2, <3>1 DEF IsInPlay, Holds
    <3> QED
      BY <1>2, <1>3, <3>1, <3>2
  <2> QED
    BY <2>1, <2>2
<1> QED
  BY <1>1, <1>4, SamplesStillAgree

LEMMA SwapIsOfEvictions ==
  ASSUME TypeInv, RateInv, NEW r \in Requests, Swap(r)
  PROVE  RateInv'
<1> DEFINE n == Head(req[r].left)
           prev == lastEvicted[n]
           sample == req[r].sample
<1>1. /\ UNCHANGED <<evicted, total, boots>>
      /\ \A o \in Requests \ {r} : req'[o] = req[o]
      /\ req[r].pc = "swap"
  BY OneStep DEF Swap, cluster, TypeInv
<1>2. /\ n \in Nodes /\ sample \in Samples /\ prev \in Samples \cup {NoSample}
      /\ lastEvicted' = [lastEvicted EXCEPT ![n] = sample]
      /\ req'[r].pc = "node" /\ req'[r].kind = req[r].kind
      /\ req'[r].reports = Append(req[r].reports, [node |-> n, data |-> ReportOf(prev, sample)])
  BY SwapType DEF TypeInv
<1>3. IsInPlay(sample, n) /\ (prev # NoSample => IsInPlay(prev, n))
  BY <1>1 DEF IsInPlay, Holds
<1>4. prev # NoSample => Agree(sample, prev)
  BY <1>2, <1>3 DEF RateInv, SamplesAgree
<1>5. SamplesAgree'
  <2>1. ASSUME NEW m \in Nodes, NEW s \in Samples, IsInPlay(s, m)' PROVE IsInPlay(s, m)
    <3>1. CASE s = lastEvicted'[m]
      BY <1>2, <1>3, <2>1, <3>1 DEF TypeInv, IsInPlay, Samples, NoSample
    <3>2. CASE \E o \in Requests : Holds(req'[o], m) /\ s = req'[o].sample
      BY <1>1, <1>2, <3>2 DEF IsInPlay, Holds
    <3> QED
      BY <2>1, <3>1, <3>2 DEF IsInPlay
  <2> QED
    BY <1>1, <2>1, SamplesStillAgree DEF RateInv
<1> DEFINE data == ReportOf(prev, sample)
<1>6. /\ data.rate.keys >= 0 /\ data.rate.seconds > 0
      /\ data.rate.keys > 0 => data.behind \/ data.rate.keys <= data.evictions
  BY <1>2, <1>4, RateOfAgreeing
<1>7. req[r].reports \in Seq(Reports(req[r].kind))
  BY DEF TypeInv, IsTyped, RequestSet
<1> HIDE DEF data, sample, prev, n
<1>8. \A i \in DOMAIN req'[r].reports :
        \/ i \in DOMAIN req[r].reports /\ req'[r].reports[i] = req[r].reports[i]
        \/ req'[r].reports[i] = [node |-> n, data |-> data]
  BY <1>2, <1>7 DEF data
<1>9. RateIsOfEvictions'
  <2> SUFFICES ASSUME NEW o \in Requests, req'[o].kind = "memory", NEW i \in DOMAIN req'[o].reports
               PROVE  LET d == req'[o].reports[i].data
                      IN  /\ d.rate.keys >= 0 /\ d.rate.seconds > 0
                          /\ d.rate.keys > 0 => d.behind \/ d.rate.keys <= d.evictions
    BY DEF RateIsOfEvictions
  <2>1. CASE o = r /\ req'[o].reports[i] = [node |-> n, data |-> data]
    BY <1>6, <2>1
  <2>2. CASE req[o].kind = "memory" /\ i \in DOMAIN req[o].reports /\ req'[o].reports[i] = req[o].reports[i]
    BY <2>2 DEF RateInv, RateIsOfEvictions
  <2> QED
    BY <1>1, <1>2, <1>8, <2>1, <2>2
<1> QED
  BY <1>5, <1>9 DEF RateInv

LEMMA NextRateInv == TypeInv /\ RateInv /\ [Next]_vars => RateInv'
<1> SUFFICES ASSUME TypeInv, RateInv, [Next]_vars PROVE RateInv'
  OBVIOUS
<1>1. SamplesAgree /\ RateIsOfEvictions /\ DOMAIN req = Requests
  BY DEF RateInv, TypeInv
<1>2. ASSUME NEW r \in Requests,
             ResolveMaster(r) \/ ResolveReplicas(r) \/ ResolveFails(r) \/ ReadNode(r)
               \/ NodeFails(r) \/ Answer(r)
      PROVE  RateInv'
  <2>1. /\ UNCHANGED <<evicted, total, boots, lastEvicted>>
        /\ \A o \in Requests \ {r} : req'[o] = req[o]
    <3>1. UNCHANGED <<evicted, total, boots, lastEvicted>>
      BY <1>2 DEF cluster, ResolveMaster, ResolveReplicas, ResolveFails, ReadNode, NodeFails, Answer
    <3> QED
      BY <1>1, <1>2, <3>1, OthersStay
  <2>2. CASE ReadNode(r)
    <3>1. IsTyped(req[r]) /\ req[r].pc = "node" /\ req[r].left # << >> /\ req[r].kind # "memory"
      BY <2>2 DEF TypeInv, ReadNode
    <3>2. req'[r].pc = "node" /\ req'[r].kind = req[r].kind
      <4>1. PICK data \in Data(req[r].kind) : req'[r] = Reported(req[r], data)
        BY <2>2, ReadNodeType
      <4>2. req[r] \in RequestSet(req[r].kind)
        BY <3>1 DEF IsTyped
      <4> QED
        BY <4>1, <4>2 DEF Reported, RequestSet
    <3> QED
      BY <1>1, <2>1, <3>1, <3>2, NoNewSample, NoNewRate DEF RateInv
  <2>3. CASE ~ReadNode(r)
    <3>1. /\ req'[r].pc \in {"replicas", "node", "end"}
          /\ req'[r].kind = req[r].kind
          /\ req[r].kind = "memory" => req'[r].reports = req[r].reports
      BY <1>2, <2>3, ResolveMasterType, ResolveReplicasType, ResolveFailsType, NodeFailsType, AnswerType
    <3> QED
      BY <1>1, <2>1, <3>1, NoNewSample, NoNewRate DEF RateInv
  <2> QED
    BY <2>2, <2>3
<1>3. ASSUME NEW r \in Requests, ReadMemory(r) PROVE RateInv'
  <2>1. req[r] \in RequestSet(req[r].kind)
    BY DEF TypeInv, IsTyped
  <2>2. /\ req'[r].kind = req[r].kind /\ req'[r].reports = req[r].reports
        /\ \A o \in Requests \ {r} : req'[o] = req[o]
    BY <1>1, <1>3, <2>1, ReadMemoryType, OthersStay DEF RequestSet
  <2> QED
    BY <1>1, <1>3, <2>2, ReadMemoryAgrees, NoNewRate DEF RateInv
<1>4. ASSUME NEW r \in Requests, Stamp(r) PROVE RateInv'
  <2>1. /\ req'[r].kind = req[r].kind /\ req'[r].reports = req[r].reports
        /\ \A o \in Requests \ {r} : req'[o] = req[o]
    BY <1>1, <1>4, StampType, OthersStay
  <2> QED
    BY <1>1, <1>4, <2>1, StampAgrees, NoNewRate DEF RateInv
<1>5. ASSUME NEW r \in Requests, Swap(r) PROVE RateInv'
  BY <1>5, SwapIsOfEvictions
<1>6. ASSUME NEW n \in Nodes, Evict(n) \/ Restart(n) PROVE RateInv'
  <2>1. req' = req
    BY <1>6 DEF Evict, Restart
  <2> QED
    BY <1>1, <1>6, <2>1, EvictAgrees, RestartAgrees DEF RateInv, RateIsOfEvictions
<1>7. ASSUME NEW n \in Nodes, Elect(n) PROVE RateInv'
  <2>1. ASSUME NEW r \in Requests
        PROVE  /\ req'[r].kind = req[r].kind /\ req'[r].reports = req[r].reports
               /\ req'[r].pc = req[r].pc /\ req'[r].left = req[r].left
               /\ req'[r].sample = req[r].sample
    <3>1. req[r] \in RequestSet(req[r].kind)
      BY DEF TypeInv, IsTyped
    <3> QED
      BY <1>7, <3>1, ElectType DEF RequestSet
  <2>2. UNCHANGED <<evicted, total, boots, lastEvicted>>
    BY <1>7 DEF Elect
  <2>3. \A m \in Nodes : \A s : IsInPlay(s, m)' => IsInPlay(s, m)
    BY <2>1, <2>2 DEF IsInPlay, Holds
  <2>4. SamplesAgree'
    BY <1>1, <2>2, <2>3, SamplesStillAgree
  <2>5. RateIsOfEvictions'
    BY <1>1, <2>1 DEF RateIsOfEvictions
  <2> QED
    BY <2>4, <2>5 DEF RateInv
<1>8. CASE Tick \/ UNCHANGED vars
  <2>1. UNCHANGED <<evicted, total, boots, lastEvicted, req>>
    BY <1>8 DEF Tick, vars, cluster
  <2>2. \A m \in Nodes : \A s : IsInPlay(s, m)' => IsInPlay(s, m)
    BY <2>1 DEF IsInPlay
  <2>3. SamplesAgree'
    BY <1>1, <2>1, <2>2, SamplesStillAgree
  <2> QED
    BY <1>1, <2>1, <2>3 DEF RateInv, RateIsOfEvictions
<1> QED
  BY <1>2, <1>3, <1>4, <1>5, <1>6, <1>7, <1>8, NextCases

\* For any number of concurrent requests for the memory, which replace each other's
\* baselines in any order over evictions and restarts: a rate that is shown is of keys
\* the node did evict, unless the request came with a sample of before a restart.
THEOREM RatesAreOfEvictions == Spec => []RateIsOfEvictions
<1>1. Init => RateInv
  <2> SUFFICES ASSUME Init PROVE RateInv
    OBVIOUS
  <2>1. /\ \A n \in Nodes : evicted[n] = 0 /\ total[n] = 0 /\ boots[n] = 0
        /\ \A n \in Nodes : lastEvicted[n] \in {NoSample, Zero}
        /\ \A r \in Requests : req[r].pc \in {"master", "end"} /\ req[r].reports = << >>
    BY DEF Init
  <2>2. \A n \in Nodes : \A s : IsInPlay(s, n) => s = Zero
    BY <2>1 DEF IsInPlay, Holds
  <2>3. SamplesAgree
    BY <2>1, <2>2 DEF SamplesAgree, StillTrue, Agree, Zero
  <2> QED
    BY <2>1, <2>3 DEF RateInv, RateIsOfEvictions
<1>2. RateInv => RateIsOfEvictions
  BY DEF RateInv
<1> QED
  BY <1>1, <1>2, NextRateInv, TypeInvariance, PTL DEF Spec
-----------------------------------------------------------------------------
(* The drift of a parameter.                                               *)

LEMMA LeastNumber ==
  ASSUME NEW set \in SUBSET Nat, set # {}
  PROVE  \E i \in set : \A j \in set : i <= j
<1> DEFINE R == OpToRel(<, Nat)
<1>1. IsWellFoundedOn(R, Nat)
  BY NatLessThanWellFounded
<1>2. \A i, j \in Nat : <<j, i>> \in R <=> j < i
  BY DEF OpToRel
<1> HIDE DEF R
<1>3. PICK i \in set : \A j \in set : ~(<<j, i>> \in R)
  BY <1>1, WFMin
<1>4. ASSUME NEW j \in set PROVE i <= j
  <2>1. i \in Nat /\ j \in Nat /\ ~(<<j, i>> \in R)
    BY <1>3
  <2>2. ~(j < i)
    BY <1>2, <2>1, Zenon
  <2> QED
    BY <2>1, <2>2
<1> QED
  BY <1>4

\* In whatever order the map is read: a drift is reported only if two values differ, and
\* if two values that are not empty do.
LEMMA DriftsInAnyOrder ==
  ASSUME NEW value, NEW order \in Seq(DOMAIN value),
         \A n \in DOMAIN value : Named(n, order)
  PROVE  LET drifts == Drifts([i \in DOMAIN order |-> value[order[i]]])
         IN  /\ drifts => \E n, m \in DOMAIN value : value[n] # value[m]
             /\ (\E n, m \in DOMAIN value : value[n] # value[m] /\ Empty \notin {value[n], value[m]})
                  => drifts
<1> DEFINE values == [i \in DOMAIN order |-> value[order[i]]]
<1>1. /\ Len(order) \in Nat /\ DOMAIN order = 1..Len(order)
      /\ \A i \in DOMAIN order : order[i] \in DOMAIN value
  OBVIOUS
<1>2. /\ values \in Seq({values[i] : i \in DOMAIN order}) /\ Len(values) = Len(order)
      /\ DOMAIN values = 1..Len(order)
      /\ \A i \in DOMAIN values : values[i] = value[order[i]]
  BY <1>1
<1> HIDE DEF values
<1>3. ASSUME Drifts(values) PROVE \E n, m \in DOMAIN value : value[n] # value[m]
  <2>1. PICK i \in 1..Len(order) : \E j \in (i+1)..Len(order) : values[j] # values[i]
    BY <1>2, <1>3 DEF Drifts
  <2>2. PICK j \in (i+1)..Len(order) : values[j] # values[i]
    BY <2>1
  <2>3. j \in 1..Len(order)
    BY <1>1, <2>1
  <2>4. value[order[i]] # value[order[j]] /\ order[i] \in DOMAIN value /\ order[j] \in DOMAIN value
    BY <1>1, <1>2, <2>1, <2>2, <2>3
  <2> QED
    BY <2>4
<1>4. ASSUME NEW n \in DOMAIN value, NEW m \in DOMAIN value, value[n] # value[m],
             value[n] # Empty, value[m] # Empty
      PROVE  Drifts(values)
  <2> DEFINE shown == {i \in 1..Len(order) : values[i] # Empty}
  <2>1. PICK a \in 1..Len(order), b \in 1..Len(order) : values[a] = value[n] /\ values[b] = value[m]
    <3>1. PICK a \in 1..Len(order) : order[a] = n
      BY <1>1 DEF Named
    <3>2. PICK b \in 1..Len(order) : order[b] = m
      BY <1>1 DEF Named
    <3> QED
      BY <1>2, <3>1, <3>2
  <2>2. PICK i \in shown : \A j \in shown : i <= j
    <3>1. shown \in SUBSET Nat /\ a \in shown
      BY <1>1, <1>4, <2>1
    <3> HIDE DEF shown
    <3> QED
      BY <3>1, LeastNumber
  <2>3. \A j \in 1..(i-1) : values[j] = Empty
    BY <1>1, <2>2
  <2>4. i <= a /\ i <= b
    BY <1>4, <2>1, <2>2
  <2>5. \E j \in (i+1)..Len(order) : values[j] # values[i]
    <3>1. CASE values[a] # values[i]
      <4>1. a \in (i+1)..Len(order)
        BY <1>1, <2>1, <2>2, <2>4, <3>1
      <4> QED
        BY <3>1, <4>1
    <3>2. CASE values[b] # values[i]
      <4>1. b \in (i+1)..Len(order)
        BY <1>1, <2>1, <2>2, <2>4, <3>2
      <4> QED
        BY <3>2, <4>1
    <3> QED
      BY <1>4, <2>1, <3>1, <3>2
  <2> QED
    BY <1>2, <2>2, <2>3, <2>5 DEF Drifts
<1> QED
  BY <1>3, <1>4 DEF values

\* A request for the differences that is over shows the drift of its reports, read in some
\* order, or failed before it asked any node.
ShowsItsDrift(q) ==
  q.kind = "diff" /\ q.pc = "end" =>
    \/ q.flags \in DriftFlags(q)
    \/ q.flags = {} /\ q.reports = << >>

DriftInv == \A r \in Requests : ShowsItsDrift(req[r])

LEMMA DriftIsReal == TypeInv /\ DriftInv => DriftsAreReal
<1> SUFFICES ASSUME TypeInv, DriftInv, NEW r \in Requests, req[r].kind = "diff", req[r].pc = "end"
             PROVE  LET value == ConfigMap(req[r])
                    IN  /\ req[r].flags # {} => \E n, m \in DOMAIN value : value[n] # value[m]
                        /\ (\E n, m \in DOMAIN value : /\ value[n] # value[m]
                                                       /\ Empty \notin {value[n], value[m]})
                             => req[r].flags # {}
  BY DEF DriftsAreReal
<1> DEFINE value == ConfigMap(req[r])
<1>1. DOMAIN value \in SUBSET Nodes
  BY DEF ConfigMap
<1>2. CASE req[r].flags \in DriftFlags(req[r])
  <2>1. PICK order \in Orders(DOMAIN value) :
          req[r].flags = IF Drifts([i \in DOMAIN order |-> value[order[i]]]) THEN {"drift"} ELSE {}
    BY <1>2 DEF DriftFlags
  <2> HIDE DEF value
  <2>2. order \in Seq(DOMAIN value) /\ \A n \in DOMAIN value : Named(n, order)
    BY <1>1, OrdersName
  <2>3. LET drifts == Drifts([i \in DOMAIN order |-> value[order[i]]])
        IN  /\ drifts => \E n, m \in DOMAIN value : value[n] # value[m]
            /\ (\E n, m \in DOMAIN value : value[n] # value[m] /\ Empty \notin {value[n], value[m]})
                 => drifts
    BY <2>2, DriftsInAnyOrder
  <2> QED
    BY <2>1, <2>3 DEF value
<1>3. CASE req[r].flags = {} /\ req[r].reports = << >>
  <2>1. DOMAIN value = {}
    BY <1>3 DEF ConfigMap
  <2> QED
    BY <1>3, <2>1
<1> QED
  BY <1>2, <1>3 DEF DriftInv, ShowsItsDrift

LEMMA SameReports ==
  ASSUME NEW p, NEW q, p.reports = q.reports
  PROVE  DriftFlags(p) = DriftFlags(q)
<1>1. ConfigMap(p) = ConfigMap(q)
  BY DEF ConfigMap
<1> QED
  BY <1>1 DEF DriftFlags

LEMMA NextDriftInv == TypeInv /\ DriftInv /\ [Next]_vars => DriftInv'
<1> SUFFICES ASSUME TypeInv, DriftInv, [Next]_vars PROVE DriftInv'
  OBVIOUS
<1>0. DOMAIN req = Requests
  BY DEF TypeInv
<1>1. ASSUME NEW r \in Requests, \A o \in Requests \ {r} : req'[o] = req[o],
             ShowsItsDrift(req'[r])
      PROVE  DriftInv'
  BY <1>1 DEF DriftInv
<1>2. ASSUME NEW r \in Requests, Answer(r) PROVE DriftInv'
  <2>1. /\ req'[r].flags \in FlagsOf(req[r]) /\ req'[r].kind = req[r].kind
        /\ req'[r].reports = req[r].reports /\ \A o \in Requests \ {r} : req'[o] = req[o]
    BY <1>0, <1>2, AnswerType, OthersStay
  <2>2. DriftFlags(req'[r]) = DriftFlags(req[r])
    BY <2>1, SameReports
  <2>3. req[r].kind = "diff" => FlagsOf(req[r]) = DriftFlags(req[r])
    BY DEF FlagsOf
  <2> QED
    BY <1>1, <2>1, <2>2, <2>3 DEF ShowsItsDrift
<1>3. ASSUME NEW r \in Requests, ResolveFails(r) PROVE DriftInv'
  <2>1. /\ req'[r].flags = {} /\ req'[r].kind = req[r].kind /\ req'[r].reports = req[r].reports
        /\ \A o \in Requests \ {r} : req'[o] = req[o]
    BY <1>0, <1>3, ResolveFailsType, OthersStay
  <2>2. req[r].kind = "diff" => req[r].reports = << >>
    BY <1>3 DEF TypeInv, IsTyped, Course, ResolveFails
  <2> QED
    BY <1>1, <2>1, <2>2 DEF ShowsItsDrift
<1>4. ASSUME NEW r \in Requests,
             ResolveMaster(r) \/ ResolveReplicas(r) \/ NodeFails(r) \/ ReadMemory(r) \/ Stamp(r) \/ Swap(r)
      PROVE  DriftInv'
  <2>1. \A o \in Requests \ {r} : req'[o] = req[o]
    BY <1>0, <1>4, OthersStay
  <2>2. req'[r].pc \in {"replicas", "node", "swap", "stamp"}
    <3>1. CASE ResolveMaster(r)
      BY <3>1, ResolveMasterType
    <3>2. CASE ResolveReplicas(r)
      BY <3>2, ResolveReplicasType
    <3>3. CASE NodeFails(r)
      BY <3>3, NodeFailsType
    <3>4. CASE ReadMemory(r)
      <4>1. req[r] \in RequestSet(req[r].kind)
        BY DEF TypeInv, IsTyped
      <4> QED
        BY <3>4, <4>1, ReadMemoryType DEF RequestSet
    <3>5. CASE Stamp(r)
      BY <3>5, StampType
    <3>6. CASE Swap(r)
      BY <3>6, SwapType
    <3> QED
      BY <1>4, <3>1, <3>2, <3>3, <3>4, <3>5, <3>6
  <2> QED
    BY <1>1, <2>1, <2>2 DEF ShowsItsDrift
<1>5. ASSUME NEW r \in Requests, ReadNode(r) PROVE DriftInv'
  <2>1. req[r] \in RequestSet(req[r].kind)
    BY DEF TypeInv, IsTyped
  <2>2. req'[r].pc = "node"
    BY <1>5, <2>1, ReadNodeType DEF Reported, RequestSet
  <2>3. \A o \in Requests \ {r} : req'[o] = req[o]
    BY <1>0, <1>5, OthersStay
  <2> QED
    BY <1>1, <2>2, <2>3 DEF ShowsItsDrift
<1>6. ASSUME NEW n \in Nodes, Elect(n) PROVE DriftInv'
  <2>1. ASSUME NEW r \in Requests
        PROVE  /\ req'[r].kind = req[r].kind /\ req'[r].reports = req[r].reports
               /\ req'[r].pc = req[r].pc /\ req'[r].flags = req[r].flags
               /\ DriftFlags(req'[r]) = DriftFlags(req[r])
    <3>1. req[r] \in RequestSet(req[r].kind)
      BY DEF TypeInv, IsTyped
    <3>2. req'[r] = [req[r] EXCEPT !.split = req[r].split \/ req[r].pc = "replicas"]
      BY <1>6, ElectType
    <3>3. /\ req'[r].kind = req[r].kind /\ req'[r].reports = req[r].reports
          /\ req'[r].pc = req[r].pc /\ req'[r].flags = req[r].flags
      BY <3>1, <3>2 DEF RequestSet
    <3> QED
      BY <3>3, SameReports
  <2>2. \A r \in Requests : ShowsItsDrift(req[r]) => ShowsItsDrift(req'[r])
    BY <2>1 DEF ShowsItsDrift
  <2> QED
    BY <2>2 DEF DriftInv
<1>7. ASSUME UNCHANGED req PROVE DriftInv'
  BY <1>7 DEF DriftInv
<1>8. (\E n \in Nodes : Evict(n) \/ Restart(n)) \/ Tick \/ UNCHANGED vars => UNCHANGED req
  BY DEF Evict, Restart, Tick, vars
<1> QED
  BY <1>2, <1>3, <1>4, <1>5, <1>6, <1>7, <1>8, NextCases

\* For any nodes, in whatever order the map of their values is read: a drift is shown only
\* if two nodes told different values, and always if two told different ones that are not
\* empty.
THEOREM DriftsAreDifferences == Spec => []DriftsAreReal
<1>1. Init => DriftInv
  <2>1. Init => \A r \in Requests : req[r].reports = << >> /\ req[r].flags = {}
    BY DEF Init
  <2> QED
    BY <2>1 DEF DriftInv, ShowsItsDrift
<1> QED
  BY <1>1, NextDriftInv, DriftIsReal, TypeInvariance, PTL DEF Spec
-----------------------------------------------------------------------------
(* Each node is asked once.                                                *)

Apart(s, t) == \A i \in DOMAIN s, j \in DOMAIN t : s[i] # t[j]

\* What was told, what failed and what is left names each node of the set, and no node twice.
IsPartition(told, errs, left, set) ==
  /\ Distinct(told) /\ Distinct(errs) /\ Distinct(left)
  /\ Apart(told, errs) /\ Apart(told, left) /\ Apart(errs, left)
  /\ \A n \in set : Named(n, told) \/ Named(n, errs) \/ Named(n, left)

NodesOf(reports) == [i \in DOMAIN reports |-> reports[i].node]

LEMMA FirstIsTold ==
  ASSUME NEW told \in Seq(Nodes), NEW errs \in Seq(Nodes), NEW left \in Seq(Nodes), left # << >>,
         NEW set, IsPartition(told, errs, left, set)
  PROVE  IsPartition(Append(told, Head(left)), errs, Tail(left), set)
<1> DEFINE more == Append(told, Head(left))
           rest == Tail(left)
<1>1. /\ Len(told) \in Nat /\ DOMAIN told = 1..Len(told)
      /\ DOMAIN more = 1..(Len(told) + 1) /\ more[Len(told) + 1] = left[1]
      /\ \A i \in 1..Len(told) : more[i] = told[i]
  OBVIOUS
<1>2. /\ Len(left) \in Nat /\ Len(left) >= 1 /\ DOMAIN left = 1..Len(left)
      /\ DOMAIN rest = 1..(Len(left) - 1)
      /\ \A i \in 1..(Len(left) - 1) : rest[i] = left[i + 1]
  OBVIOUS
<1>3. DOMAIN errs = 1..Len(errs) /\ Len(errs) \in Nat
  OBVIOUS
<1> HIDE DEF more, rest
<1>4. Distinct(more)
  <2> SUFFICES ASSUME NEW i \in DOMAIN more, NEW j \in DOMAIN more, more[i] = more[j] PROVE i = j
    BY DEF Distinct
  <2>1. \A k \in DOMAIN told : told[k] # left[1]
    BY <1>2 DEF IsPartition, Apart
  <2>2. CASE i \in DOMAIN told /\ j \in DOMAIN told
    BY <1>1, <2>2 DEF IsPartition, Distinct
  <2>3. CASE ~(i \in DOMAIN told /\ j \in DOMAIN told)
    BY <1>1, <2>1, <2>3
  <2> QED
    BY <2>2, <2>3
<1>5. Distinct(rest)
  <2> SUFFICES ASSUME NEW i \in DOMAIN rest, NEW j \in DOMAIN rest, rest[i] = rest[j] PROVE i = j
    BY DEF Distinct
  <2>1. i + 1 \in DOMAIN left /\ j + 1 \in DOMAIN left /\ left[i + 1] = left[j + 1]
    BY <1>2
  <2>2. i + 1 = j + 1
    BY <2>1 DEF IsPartition, Distinct
  <2> QED
    BY <1>2, <2>2
<1>6. Apart(more, errs)
  BY <1>1, <1>2, <1>3 DEF IsPartition, Apart
<1>7. Apart(errs, rest)
  <2> SUFFICES ASSUME NEW i \in DOMAIN errs, NEW j \in DOMAIN rest PROVE errs[i] # rest[j]
    BY DEF Apart
  <2>1. j + 1 \in DOMAIN left /\ rest[j] = left[j + 1]
    BY <1>2
  <2> QED
    BY <2>1 DEF IsPartition, Apart
<1>8. Apart(more, rest)
  <2> SUFFICES ASSUME NEW i \in DOMAIN more, NEW j \in DOMAIN rest PROVE more[i] # rest[j]
    BY DEF Apart
  <2>1. j + 1 \in DOMAIN left /\ rest[j] = left[j + 1] /\ 1 \in DOMAIN left /\ j + 1 # 1
    BY <1>2
  <2>2. CASE i \in DOMAIN told
    BY <1>1, <2>1, <2>2 DEF IsPartition, Apart
  <2>3. CASE i = Len(told) + 1
    <3>1. left[1] # left[j + 1]
      BY <2>1 DEF IsPartition, Distinct
    <3> QED
      BY <1>1, <2>1, <2>3, <3>1
  <2> QED
    BY <1>1, <2>2, <2>3
<1>9. ASSUME NEW n \in set PROVE Named(n, more) \/ Named(n, errs) \/ Named(n, rest)
  <2>1. CASE Named(n, told)
    BY <1>1, <2>1 DEF Named
  <2>2. CASE Named(n, left)
    <3>1. PICK i \in 1..Len(left) : left[i] = n
      BY <1>2, <2>2 DEF Named
    <3>2. CASE i = 1
      BY <1>1, <3>1, <3>2 DEF Named
    <3>3. CASE i # 1
      <4>1. i - 1 \in DOMAIN rest /\ rest[i - 1] = n
        BY <1>2, <3>1, <3>3
      <4> QED
        BY <4>1 DEF Named
    <3> QED
      BY <3>2, <3>3
  <2> QED
    BY <2>1, <2>2 DEF IsPartition
<1> QED
  BY <1>4, <1>5, <1>6, <1>7, <1>8, <1>9 DEF IsPartition, more, rest

LEMMA FirstFails ==
  ASSUME NEW told \in Seq(Nodes), NEW errs \in Seq(Nodes), NEW left \in Seq(Nodes), left # << >>,
         NEW set, IsPartition(told, errs, left, set)
  PROVE  IsPartition(told, Append(errs, Head(left)), Tail(left), set)
<1>1. \A a, b, c : IsPartition(a, b, c, set) => IsPartition(b, a, c, set)
  BY DEF IsPartition, Apart
<1> QED
  BY <1>1, FirstIsTold

\* With none left, each node of the set is told or failed, once.
LEMMA ToldOnce ==
  ASSUME NEW told \in Seq(Nodes), NEW errs \in Seq(Nodes), NEW set,
         IsPartition(told, errs, << >>, set), NEW n \in set
  PROVE  Cardinality({i \in DOMAIN (told \o errs) : (told \o errs)[i] = n}) = 1
<1> DEFINE all == told \o errs
           places == {i \in DOMAIN all : all[i] = n}
<1>1. /\ Len(told) \in Nat /\ DOMAIN told = 1..Len(told)
      /\ Len(errs) \in Nat /\ DOMAIN errs = 1..Len(errs)
      /\ DOMAIN all = 1..(Len(told) + Len(errs))
      /\ \A i \in 1..Len(told) : all[i] = told[i]
      /\ \A i \in 1..Len(errs) : all[Len(told) + i] = errs[i]
  OBVIOUS
<1> HIDE DEF all
<1>2. \E i \in DOMAIN all : all[i] = n
  <2>1. Named(n, told) \/ Named(n, errs)
    BY DEF IsPartition, Named
  <2>2. CASE Named(n, told)
    BY <1>1, <2>2 DEF Named
  <2>3. CASE Named(n, errs)
    <3>1. PICK i \in 1..Len(errs) : errs[i] = n
      BY <1>1, <2>3 DEF Named
    <3>2. Len(told) + i \in DOMAIN all /\ all[Len(told) + i] = n
      BY <1>1, <3>1
    <3> QED
      BY <3>2
  <2> QED
    BY <2>1, <2>2, <2>3
<1>3. ASSUME NEW i \in DOMAIN all, NEW j \in DOMAIN all, all[i] = n, all[j] = n PROVE i = j
  <2>1. \A k \in DOMAIN all : \/ k \in DOMAIN told /\ all[k] = told[k]
                              \/ k - Len(told) \in DOMAIN errs /\ all[k] = errs[k - Len(told)]
    <3> SUFFICES ASSUME NEW k \in DOMAIN all, ~(k \in DOMAIN told)
                 PROVE  k - Len(told) \in DOMAIN errs /\ all[k] = errs[k - Len(told)]
      BY <1>1
    <3>1. k \in Int /\ k - Len(told) \in 1..Len(errs) /\ Len(told) + (k - Len(told)) = k
      BY <1>1
    <3> QED
      BY <1>1, <3>1
  <2>2. CASE i \in DOMAIN told /\ j \in DOMAIN told
    BY <1>1, <1>3, <2>2 DEF IsPartition, Distinct
  <2>3. CASE ~(i \in DOMAIN told) /\ ~(j \in DOMAIN told)
    <3>1. i - Len(told) = j - Len(told)
      BY <1>3, <2>1, <2>3 DEF IsPartition, Distinct
    <3> QED
      BY <1>1, <3>1
  <2>4. CASE i \in DOMAIN told /\ ~(j \in DOMAIN told)
    BY <1>1, <1>3, <2>1, <2>4 DEF IsPartition, Apart
  <2>5. CASE ~(i \in DOMAIN told) /\ j \in DOMAIN told
    BY <1>1, <1>3, <2>1, <2>5 DEF IsPartition, Apart
  <2> QED
    BY <2>2, <2>3, <2>4, <2>5
<1>4. PICK i \in DOMAIN all : all[i] = n
  BY <1>2
<1>5. places = {i}
  BY <1>3, <1>4
<1> QED
  BY <1>5, FS_Singleton DEF all

\* A request whose two queries saw one cluster: until the second one the master it knows is
\* still the master, and from then on the nodes are parted.
IsAskingAll(q) ==
  ~q.split =>
    /\ q.pc = "replicas" => q.master = master
    /\ (q.pc \in {"node", "stamp", "swap"} \/ q.status = "ok") =>
         IsPartition(NodesOf(q.reports), q.errs, q.left, Expected(q))

\* Of the answers EachNodeOnce speaks; what is still to be asked makes it inductive.
EachNodeInv == \A r \in Requests : IsAskingAll(req[r])

LEMMA NodesOfType ==
  ASSUME NEW q, IsTyped(q)
  PROVE  /\ NodesOf(q.reports) \in Seq(Nodes) /\ q.errs \in Seq(Nodes) /\ q.left \in Seq(Nodes)
         /\ q.reports \in Seq(Reports(q.kind))
<1>1. /\ q.reports \in Seq(Reports(q.kind)) /\ q.errs \in Seq(Nodes) /\ q.left \in Seq(Nodes)
  BY DEF IsTyped, RequestSet
<1>2. /\ Len(q.reports) \in Nat /\ DOMAIN q.reports = 1..Len(q.reports)
      /\ \A i \in 1..Len(q.reports) : q.reports[i] \in Reports(q.kind)
  BY <1>1
<1>3. NodesOf(q.reports) \in [1..Len(q.reports) -> Nodes]
  BY <1>2 DEF NodesOf, Reports
<1>4. NodesOf(q.reports) \in Seq(Nodes)
  BY <1>2, <1>3
<1> QED
  BY <1>1, <1>4

LEMMA NodesOfAppend ==
  ASSUME NEW q, IsTyped(q), NEW n \in Nodes, NEW data
  PROVE  NodesOf(Append(q.reports, [node |-> n, data |-> data])) = Append(NodesOf(q.reports), n)
<1>1. /\ q.reports \in Seq(Reports(q.kind)) /\ NodesOf(q.reports) \in Seq(Nodes)
  BY NodesOfType
<1>2. /\ Len(q.reports) \in Nat /\ DOMAIN q.reports = 1..Len(q.reports)
      /\ DOMAIN NodesOf(q.reports) = 1..Len(q.reports) /\ Len(NodesOf(q.reports)) = Len(q.reports)
      /\ \A i \in 1..Len(q.reports) : NodesOf(q.reports)[i] = q.reports[i].node
  BY <1>1 DEF NodesOf
<1> DEFINE more == Append(q.reports, [node |-> n, data |-> data])
           named == Append(NodesOf(q.reports), n)
<1>3. /\ DOMAIN more = 1..(Len(q.reports) + 1)
      /\ \A i \in 1..Len(q.reports) : more[i] = q.reports[i]
      /\ more[Len(q.reports) + 1].node = n
  <2> DEFINE entry == [node |-> n, data |-> data]
             any == {q.reports[i] : i \in 1..Len(q.reports)} \cup {entry}
  <2>1. entry \in any /\ entry.node = n
    OBVIOUS
  <2>2. q.reports \in [1..Len(q.reports) -> any]
    BY <1>1, <1>2
  <2> HIDE DEF entry, any
  <2>3. q.reports \in Seq(any)
    BY <1>2, <2>2
  <2>4. /\ DOMAIN Append(q.reports, entry) = 1..(Len(q.reports) + 1)
        /\ \A i \in 1..Len(q.reports) : Append(q.reports, entry)[i] = q.reports[i]
        /\ Append(q.reports, entry)[Len(q.reports) + 1] = entry
    BY <2>1, <2>3
  <2> QED
    BY <2>1, <2>4 DEF entry
<1>4. /\ DOMAIN named = 1..(Len(q.reports) + 1)
      /\ \A i \in 1..Len(q.reports) : named[i] = NodesOf(q.reports)[i]
      /\ named[Len(q.reports) + 1] = n /\ named \in Seq(Nodes)
  BY <1>1, <1>2
<1> HIDE DEF more, named
<1>5. named = [i \in 1..(Len(q.reports) + 1) |-> named[i]]
  BY <1>4
<1>6. NodesOf(more) = [i \in 1..(Len(q.reports) + 1) |-> more[i].node]
  BY <1>3 DEF NodesOf
<1>7. \A i \in 1..(Len(q.reports) + 1) : named[i] = more[i].node
  BY <1>2, <1>3, <1>4
<1> QED
  BY <1>5, <1>6, <1>7 DEF more, named

LEMMA ReportedAsksAll ==
  ASSUME NEW q, IsTyped(q), q.pc \in {"node", "swap"}, q.left # << >>, NEW data \in Data(q.kind),
         IsAskingAll(q)
  PROVE  IsAskingAll(Reported(q, data))
<1> DEFINE t == Reported(q, data)
<1>1. /\ t.reports = Append(q.reports, [node |-> Head(q.left), data |-> data])
      /\ t.left = Tail(q.left) /\ t.errs = q.errs /\ t.pc = "node"
      /\ t.kind = q.kind /\ t.master = q.master /\ t.split = q.split
  BY ReportedType
<1>2. /\ NodesOf(q.reports) \in Seq(Nodes) /\ q.errs \in Seq(Nodes) /\ q.left \in Seq(Nodes)
  BY NodesOfType
<1>3. NodesOf(t.reports) = Append(NodesOf(q.reports), Head(q.left))
  BY <1>1, <1>2, NodesOfAppend
<1>4. Expected(t) = Expected(q)
  BY <1>1 DEF Expected
<1> HIDE DEF t
<1>5. ASSUME ~q.split PROVE IsPartition(NodesOf(t.reports), t.errs, t.left, Expected(t))
  <2>1. IsPartition(NodesOf(q.reports), q.errs, q.left, Expected(q))
    BY <1>5 DEF IsAskingAll
  <2> QED
    BY <1>1, <1>2, <1>3, <1>4, <2>1, FirstIsTold
<1> QED
  BY <1>1, <1>5 DEF IsAskingAll, t

\* The second query parts the nodes into those that are asked, and the master that was.
LEMMA ResolveReplicasAsksAll ==
  ASSUME TypeInv, NEW r \in Requests, IsAskingAll(req[r]), ResolveReplicas(r)
  PROVE  IsAskingAll(req[r])'
<1> DEFINE p == req[r]
           q == req'[r]
<1>1. /\ IsTyped(p) /\ p.pc = "replicas" /\ p.errs = << >> /\ nodes' = nodes
      /\ IF p.kind = "topology" THEN Len(p.reports) = 1 /\ p.reports[1].node = p.master
                                ELSE p.reports = << >>
  BY DEF TypeInv, IsTyped, Course, ResolveReplicas, cluster
<1>2. PICK replicas \in Seq(Nodes) :
        /\ q.pc = "node" /\ q.kind = p.kind
        /\ q.left = Asked(p, replicas)
        /\ q.reports = p.reports /\ q.errs = p.errs
        /\ q.master = p.master /\ q.status = "none"
        /\ ~q.split => ~p.split /\ replicas \in Orders(nodes \ {master})
  BY ResolveReplicasType
<1>3. ASSUME ~q.split PROVE IsPartition(NodesOf(q.reports), q.errs, q.left, Expected(p))
  <2>1. p.master = master /\ master \in nodes /\ nodes \subseteq Nodes
    BY <1>1, <1>2, <1>3 DEF IsAskingAll, TypeInv, ClusterType
  <2>2. /\ replicas \in Seq(nodes \ {master}) /\ Distinct(replicas)
        /\ \A n \in nodes \ {master} : Named(n, replicas)
    BY <1>2, <1>3, <2>1, OrdersName
  <2>3. /\ DOMAIN replicas = 1..Len(replicas) /\ Len(replicas) \in Nat
        /\ \A i \in DOMAIN replicas : replicas[i] # master
    BY <2>2
  <2>4. CASE p.kind = "topology"
    <3>1. /\ q.left = replicas /\ q.errs = << >> /\ Expected(p) = nodes
      BY <1>1, <1>2, <2>4 DEF Asked, Expected
    <3>2. /\ DOMAIN NodesOf(q.reports) = 1..1 /\ NodesOf(q.reports)[1] = master
      <4>1. q.reports \in Seq(Reports(p.kind))
        BY <1>1, <1>2, NodesOfType
      <4> QED
        BY <1>1, <1>2, <2>1, <2>4, <4>1 DEF NodesOf
    <3> HIDE DEF q, p
    <3>3. Distinct(NodesOf(q.reports)) /\ Apart(NodesOf(q.reports), replicas)
      BY <2>3, <3>2 DEF Distinct, Apart
    <3>4. \A n \in nodes : Named(n, NodesOf(q.reports)) \/ Named(n, replicas)
      BY <2>2, <3>2 DEF Named
    <3> QED
      BY <2>2, <3>1, <3>3, <3>4 DEF IsPartition, Distinct, Apart
  <2>5. CASE p.kind = "distribution"
    <3>1. /\ q.left = replicas /\ q.errs = << >> /\ Expected(p) = nodes \ {master}
      BY <1>1, <1>2, <2>1, <2>5 DEF Asked, Expected
    <3>2. DOMAIN NodesOf(q.reports) = {}
      BY <1>1, <1>2, <2>5 DEF NodesOf
    <3> QED
      BY <2>2, <3>1, <3>2 DEF IsPartition, Distinct, Apart
  <2>6. CASE p.kind \notin {"topology", "distribution"}
    <3> DEFINE all == <<p.master>> \o replicas
    <3>1. /\ q.left = all /\ q.errs = << >> /\ Expected(p) = nodes
      BY <1>1, <1>2, <2>6 DEF Asked, Expected
    <3>2. DOMAIN NodesOf(q.reports) = {}
      BY <1>1, <1>2, <2>6 DEF NodesOf
    <3>3. /\ DOMAIN all = 1..(Len(replicas) + 1) /\ all[1] = master
          /\ \A i \in 2..(Len(replicas) + 1) : i - 1 \in DOMAIN replicas /\ all[i] = replicas[i - 1]
          /\ \A i \in DOMAIN replicas : i + 1 \in DOMAIN all /\ all[i + 1] = replicas[i]
      <4>1. <<p.master>> \in Seq(Nodes) /\ Len(<<p.master>>) = 1 /\ <<p.master>>[1] = master
        BY <2>1
      <4> QED
        BY <2>1, <2>3, <4>1
    <3> HIDE DEF all
    <3>4. Distinct(all)
      <4> SUFFICES ASSUME NEW i \in DOMAIN all, NEW j \in DOMAIN all, all[i] = all[j] PROVE i = j
        BY DEF Distinct
      <4>1. \A k \in DOMAIN all : k # 1 => /\ k \in Int /\ k - 1 \in DOMAIN replicas
                                           /\ all[k] = replicas[k - 1] /\ all[k] # all[1]
        BY <2>3, <3>3
      <4>2. CASE i # 1 /\ j # 1
        <5>1. replicas[i - 1] = replicas[j - 1]
          BY <4>1, <4>2
        <5>2. i - 1 = j - 1
          BY <2>2, <4>1, <4>2, <5>1 DEF Distinct
        <5> QED
          BY <4>1, <4>2, <5>2
      <4>3. CASE i = 1 \/ j = 1
        BY <4>1, <4>3
      <4> QED
        BY <4>2, <4>3
    <3>5. \A n \in nodes : Named(n, all)
      BY <2>2, <2>3, <3>3 DEF Named
    <3> QED
      BY <3>1, <3>2, <3>4, <3>5 DEF IsPartition, Distinct, Apart
  <2> QED
    BY <2>4, <2>5, <2>6
<1>4. Expected(req[r])' = Expected(p)
  BY <1>1, <1>2 DEF Expected
<1> QED
  BY <1>2, <1>3, <1>4 DEF IsAskingAll

\* A request that has done nothing, in a cluster with the nodes and the master it had.
LEMMA StillAsksAll ==
  ASSUME NEW r \in Requests, IsAskingAll(req[r]), UNCHANGED <<nodes, master>>, req'[r] = req[r]
  PROVE  IsAskingAll(req[r])'
BY DEF IsAskingAll, Expected

LEMMA NextEachNodeInv == TypeInv /\ EachNodeInv /\ [Next]_vars => EachNodeInv'
<1> SUFFICES ASSUME TypeInv, EachNodeInv, [Next]_vars PROVE EachNodeInv'
  OBVIOUS
<1>0. DOMAIN req = Requests /\ \A r \in Requests : IsAskingAll(req[r]) /\ IsTyped(req[r])
  BY DEF TypeInv, EachNodeInv
<1>1. ASSUME NEW r \in Requests, UNCHANGED <<nodes, master>>,
             \A o \in Requests \ {r} : req'[o] = req[o], IsAskingAll(req[r])'
      PROVE  EachNodeInv'
  <2>1. \A o \in Requests \ {r} : IsAskingAll(req[o])'
    BY <1>0, <1>1, StillAsksAll
  <2> QED
    BY <1>1, <2>1 DEF EachNodeInv
<1>2. ASSUME NEW r \in Requests,
             \/ ResolveMaster(r) \/ ResolveReplicas(r) \/ ResolveFails(r) \/ ReadNode(r)
             \/ NodeFails(r) \/ ReadMemory(r) \/ Stamp(r) \/ Swap(r) \/ Answer(r)
      PROVE  EachNodeInv'
  <2>1. UNCHANGED <<nodes, master>>
    BY <1>2 DEF ResolveMaster, ResolveReplicas, ResolveFails, ReadNode, NodeFails, ReadMemory,
                Stamp, Swap, Answer, cluster
  <2>2. \A o \in Requests \ {r} : req'[o] = req[o]
    BY <1>0, <1>2, OthersStay
  <2>3. req[r] \in RequestSet(req[r].kind) /\ IsTyped(req[r]) /\ IsAskingAll(req[r])
    BY <1>0 DEF IsTyped
  <2>4. CASE ResolveMaster(r)
    <3>1. /\ req'[r].pc = "replicas" /\ req'[r].master = master /\ req'[r].status = "none"
      BY <2>4, ResolveMasterType
    <3>2. IsAskingAll(req[r])'
      BY <2>1, <3>1 DEF IsAskingAll
    <3> QED
      BY <1>1, <2>1, <2>2, <3>2
  <2>5. CASE ResolveReplicas(r)
    BY <1>1, <2>1, <2>2, <2>3, <2>5, ResolveReplicasAsksAll
  <2>6. CASE ResolveFails(r)
    <3>1. req'[r].pc = "end" /\ req'[r].status = "error"
      BY <2>6, ResolveFailsType
    <3>2. IsAskingAll(req[r])'
      BY <3>1 DEF IsAskingAll
    <3> QED
      BY <1>1, <2>1, <2>2, <3>2
  <2>7. CASE ReadNode(r)
    <3>1. PICK data \in Data(req[r].kind) : req'[r] = Reported(req[r], data)
      BY <2>7, ReadNodeType
    <3>2. IsAskingAll(Reported(req[r], data))
      BY <2>3, <2>7, ReportedAsksAll DEF ReadNode
    <3>3. IsAskingAll(req[r])'
      BY <2>1, <3>1, <3>2 DEF IsAskingAll, Expected
    <3> QED
      BY <1>1, <2>1, <2>2, <3>3
  <2>8. CASE NodeFails(r)
    <3>1. /\ req'[r].errs = Append(req[r].errs, Head(req[r].left))
          /\ req'[r].left = Tail(req[r].left) /\ req'[r].reports = req[r].reports
          /\ req'[r].pc = "node" /\ req'[r].kind = req[r].kind
          /\ req'[r].master = req[r].master /\ req'[r].split = req[r].split
      BY <2>8, NodeFailsType
    <3>2. /\ req[r].pc = "node" /\ req[r].left # << >> /\ NodesOf(req[r].reports) \in Seq(Nodes)
          /\ req[r].errs \in Seq(Nodes) /\ req[r].left \in Seq(Nodes)
      BY <2>3, <2>8, NodesOfType DEF NodeFails
    <3>3. ASSUME ~req[r].split
          PROVE  IsPartition(NodesOf(req[r].reports), Append(req[r].errs, Head(req[r].left)),
                             Tail(req[r].left), Expected(req[r]))
      <4>1. IsPartition(NodesOf(req[r].reports), req[r].errs, req[r].left, Expected(req[r]))
        BY <2>3, <3>2, <3>3 DEF IsAskingAll
      <4> QED
        BY <3>2, <4>1, FirstFails
    <3>4. Expected(req[r])' = Expected(req[r])
      BY <2>1, <3>1 DEF Expected
    <3>5. IsAskingAll(req[r])'
      BY <3>1, <3>3, <3>4 DEF IsAskingAll
    <3> QED
      BY <1>1, <2>1, <2>2, <3>5
  <2>9. CASE ReadMemory(r) \/ Stamp(r)
    <3>1. /\ req'[r].left = req[r].left /\ req'[r].kind = req[r].kind
          /\ req'[r].reports = req[r].reports /\ req'[r].errs = req[r].errs
          /\ req'[r].master = req[r].master /\ req'[r].split = req[r].split
          /\ req[r].pc \in {"node", "stamp"} /\ req'[r].pc \in {"stamp", "swap"}
      <4>1. CASE ReadMemory(r)
        BY <2>3, <4>1, ReadMemoryType DEF RequestSet, ReadMemory
      <4>2. CASE Stamp(r)
        BY <4>2, StampType DEF Stamp
      <4> QED
        BY <2>9, <4>1, <4>2
    <3>2. Expected(req[r])' = Expected(req[r])
      BY <2>1, <3>1 DEF Expected
    <3>3. IsAskingAll(req[r])'
      BY <2>3, <3>1, <3>2 DEF IsAskingAll
    <3> QED
      BY <1>1, <2>1, <2>2, <3>3
  <2>10. CASE Swap(r)
    <3> DEFINE n == Head(req[r].left)
               data == ReportOf(lastEvicted[n], req[r].sample)
    <3>1. /\ n \in Nodes
          /\ req'[r].reports = Append(req[r].reports, [node |-> n, data |-> data])
          /\ req'[r].left = Tail(req[r].left) /\ req'[r].kind = req[r].kind
          /\ req'[r].errs = req[r].errs /\ req'[r].pc = "node"
          /\ req'[r].master = req[r].master /\ req'[r].split = req[r].split
      BY <2>10, SwapType
    <3>2. /\ req[r].pc = "swap" /\ req[r].left # << >> /\ NodesOf(req[r].reports) \in Seq(Nodes)
          /\ req[r].errs \in Seq(Nodes) /\ req[r].left \in Seq(Nodes)
      BY <2>3, <2>10, NodesOfType DEF Swap, IsTyped, Course
    <3> HIDE DEF data
    <3>3. NodesOf(req'[r].reports) = Append(NodesOf(req[r].reports), n)
      BY <2>3, <3>1, NodesOfAppend
    <3>4. ASSUME ~req[r].split
          PROVE  IsPartition(Append(NodesOf(req[r].reports), n), req[r].errs,
                             Tail(req[r].left), Expected(req[r]))
      <4>1. IsPartition(NodesOf(req[r].reports), req[r].errs, req[r].left, Expected(req[r]))
        BY <2>3, <3>2, <3>4 DEF IsAskingAll
      <4> QED
        BY <3>2, <4>1, FirstIsTold
    <3>5. Expected(req[r])' = Expected(req[r])
      BY <2>1, <3>1 DEF Expected
    <3>6. IsAskingAll(req[r])'
      BY <3>1, <3>3, <3>4, <3>5 DEF IsAskingAll
    <3> QED
      BY <1>1, <2>1, <2>2, <3>6
  <2>11. CASE Answer(r)
    <3>1. /\ req'[r].left = req[r].left /\ req'[r].kind = req[r].kind /\ req'[r].pc = "end"
          /\ req'[r].reports = req[r].reports /\ req'[r].errs = req[r].errs
          /\ req'[r].master = req[r].master /\ req'[r].split = req[r].split
          /\ req[r].pc = "node"
      BY <2>11, AnswerType DEF Answer
    <3>2. Expected(req[r])' = Expected(req[r])
      BY <2>1, <3>1 DEF Expected
    <3>3. IsAskingAll(req[r])'
      BY <2>3, <3>1, <3>2 DEF IsAskingAll
    <3> QED
      BY <1>1, <2>1, <2>2, <3>3
  <2> QED
    BY <1>2, <2>4, <2>5, <2>6, <2>7, <2>8, <2>9, <2>10, <2>11
<1>3. ASSUME NEW n \in Nodes, Elect(n) PROVE EachNodeInv'
  <2> SUFFICES ASSUME NEW r \in Requests PROVE IsAskingAll(req[r])'
    BY DEF EachNodeInv
  <2>1. req[r] \in RequestSet(req[r].kind) /\ IsAskingAll(req[r]) /\ nodes' = nodes
    BY <1>0, <1>3 DEF IsTyped, Elect
  <2>2. req'[r] = [req[r] EXCEPT !.split = req[r].split \/ req[r].pc = "replicas"]
    BY <1>3, ElectType
  <2>3. /\ req'[r].left = req[r].left /\ req'[r].kind = req[r].kind /\ req'[r].pc = req[r].pc
        /\ req'[r].reports = req[r].reports /\ req'[r].errs = req[r].errs
        /\ req'[r].master = req[r].master /\ req'[r].status = req[r].status
        /\ ~req'[r].split => ~req[r].split /\ req[r].pc # "replicas"
    BY <2>1, <2>2 DEF RequestSet
  <2>4. Expected(req[r])' = Expected(req[r])
    BY <2>1, <2>3 DEF Expected
  <2> QED
    BY <2>1, <2>3, <2>4 DEF IsAskingAll
<1>4. CASE (\E n \in Nodes : Evict(n) \/ Restart(n)) \/ Tick \/ UNCHANGED vars
  <2>1. UNCHANGED <<nodes, master, req>>
    BY <1>4 DEF Evict, Restart, Tick, vars, cluster
  <2> QED
    BY <1>0, <2>1, StillAsksAll DEF EachNodeInv
<1> QED
  BY <1>2, <1>3, <1>4, NextCases

\* For any nodes, and requests of any kind: every node is in the answer or among its errors,
\* once; unless an election came between the two queries, or the second one failed.
THEOREM EachNodeIsToldOnce == Spec => []EachNodeOnce
<1>1. Init => EachNodeInv
  <2>1. Init => \A r \in Requests : req[r].pc \in {"master", "end"} /\ req[r].status = "none"
    BY DEF Init
  <2> QED
    BY <2>1 DEF EachNodeInv, IsAskingAll
<1>2. TypeInv /\ EachNodeInv => EachNodeOnce
  <2> SUFFICES ASSUME TypeInv, EachNodeInv,
                      NEW r \in Requests, req[r].status = "ok", ~req[r].split,
                      NEW n \in Expected(req[r])
               PROVE  Cardinality({i \in DOMAIN Told(req[r]) : Told(req[r])[i] = n}) = 1
    BY DEF EachNodeOnce
  <2>1. IsTyped(req[r]) /\ req[r].left = << >>
    BY DEF TypeInv, IsTyped, Course
  <2>2. IsPartition(NodesOf(req[r].reports), req[r].errs, << >>, Expected(req[r]))
    BY <2>1 DEF EachNodeInv, IsAskingAll
  <2>3. NodesOf(req[r].reports) \in Seq(Nodes) /\ req[r].errs \in Seq(Nodes)
    BY <2>1, NodesOfType
  <2>4. Told(req[r]) = NodesOf(req[r].reports) \o req[r].errs
    BY DEF Told, NodesOf
  <2> DEFINE told == NodesOf(req[r].reports)
             errs == req[r].errs
  <2>5. Cardinality({i \in DOMAIN (told \o errs) : (told \o errs)[i] = n}) = 1
    <3>1. IsPartition(told, errs, << >>, Expected(req[r])) /\ told \in Seq(Nodes) /\ errs \in Seq(Nodes)
      BY <2>2, <2>3
    <3> HIDE DEF told, errs
    <3> QED
      BY <3>1, ToldOnce
  <2> QED
    BY <2>4, <2>5
<1> QED
  BY <1>1, <1>2, NextEachNodeInv, TypeInvariance, PTL DEF Spec

-----------------------------------------------------------------------------
(* Sums, which the community modules define by recursion over the parts of *)
(* a set.                                                                  *)

AnyOf(set) == CHOOSE x \in set : TRUE

\* sum[part] is the sum of f over each part of S, added up in the folds' order.
IsSum(sum, f, S) ==
  sum = [part \in SUBSET S |->
           IF part = {} THEN 0 ELSE f[AnyOf(part)] + sum[part \ {AnyOf(part)}]]

LEMMA FoldIsSum ==
  ASSUME NEW S, NEW f, DOMAIN f = S, \E sum : IsSum(sum, f, S)
  PROVE  \E sum : IsSum(sum, f, S) /\ FoldFunction(+, 0, f) = sum[S]
<1> DEFINE sum == CHOOSE s : IsSum(s, f, S)
<1>1. IsSum(sum, f, S)
  OBVIOUS
<1>2. FoldFunction(+, 0, f) = sum[S]
  BY DEF FoldFunction, FoldFunctionOnSet, MapThenFoldSet, IsSum, AnyOf
<1> QED
  BY <1>1, <1>2

LEMMA CountIsSum ==
  ASSUME NEW S, \E sum : IsSum(sum, [g \in S |-> g.count], S)
  PROVE  \E sum : IsSum(sum, [g \in S |-> g.count], S) /\ MapThenSumSet(LAMBDA g : g.count, S) = sum[S]
<1> DEFINE f == [g \in S |-> g.count]
           IsCount(s) == s = [part \in SUBSET S |->
                                IF part = {} THEN 0 ELSE AnyOf(part).count + s[part \ {AnyOf(part)}]]
           sum == CHOOSE s : IsCount(s)
<1>1. ASSUME NEW s PROVE IsCount(s) <=> IsSum(s, f, S)
  <2>1. ASSUME NEW part \in SUBSET S, part # {} PROVE f[AnyOf(part)] = AnyOf(part).count
    <3>1. AnyOf(part) \in S
      BY <2>1 DEF AnyOf
    <3> QED
      BY <3>1
  <2> HIDE DEF f
  <2>2. [part \in SUBSET S |-> IF part = {} THEN 0 ELSE f[AnyOf(part)] + s[part \ {AnyOf(part)}]]
          = [part \in SUBSET S |-> IF part = {} THEN 0 ELSE AnyOf(part).count + s[part \ {AnyOf(part)}]]
    BY <2>1
  <2> QED
    BY <2>2 DEF IsSum
<1>2. IsCount(sum)
  <2>1. \E s : IsCount(s)
    <3> HIDE DEF IsCount
    <3> QED
      BY <1>1
  <2> QED
    BY <2>1
<1>3. MapThenSumSet(LAMBDA g : g.count, S) = sum[S]
  BY DEF MapThenSumSet, MapThenFoldSet, AnyOf
<1> HIDE DEF sum, IsCount
<1> QED
  BY <1>1, <1>2, <1>3

\* The sum over the parts of a finite set exists: the sums of the parts with at most n
\* elements give those of the parts with one more.
LEMMA SumExists ==
  ASSUME NEW S, IsFiniteSet(S), NEW f
  PROVE  \E sum : IsSum(sum, f, S)
<1> DEFINE Small(n) == {part \in SUBSET S : Cardinality(part) <= n}
           Next1(s, part) == IF part = {} THEN 0 ELSE f[AnyOf(part)] + s[part \ {AnyOf(part)}]
           Sums(n) == \E s : s = [part \in Small(n) |-> Next1(s, part)]
           lacking == {n \in Nat : ~Sums(n)}
<1>1. \A part \in SUBSET S : IsFiniteSet(part) /\ Cardinality(part) \in Nat
  BY FS_Subset, FS_CardinalityType
<1>2. \A part \in SUBSET S : part # {} => /\ part \ {AnyOf(part)} \in SUBSET S
                                          /\ Cardinality(part \ {AnyOf(part)}) = Cardinality(part) - 1
  <2> SUFFICES ASSUME NEW part \in SUBSET S, part # {}
               PROVE  Cardinality(part \ {AnyOf(part)}) = Cardinality(part) - 1
    OBVIOUS
  <2>1. AnyOf(part) \in part
    BY DEF AnyOf
  <2> QED
    BY <1>1, <2>1, FS_RemoveElement
<1>3. Sums(0)
  <2> DEFINE s == [part \in Small(0) |-> 0]
  <2>1. ASSUME NEW part \in Small(0) PROVE part = {}
    <3>1. IsFiniteSet(part) /\ Cardinality(part) = 0
      BY <1>1
    <3> QED
      BY <3>1, FS_EmptySet
  <2>2. s = [part \in Small(0) |-> Next1(s, part)]
    BY <2>1
  <2> QED
    BY <2>2
<1>4. ASSUME NEW n \in Nat, Sums(n) PROVE Sums(n + 1)
  <2> HIDE DEF Next1
  <2>1. PICK s : s = [part \in Small(n) |-> Next1(s, part)]
    BY <1>4
  <2> DEFINE t == [part \in Small(n + 1) |-> Next1(s, part)]
  <2>2. ASSUME NEW part \in Small(n + 1), part # {}
        PROVE  part \ {AnyOf(part)} \in Small(n) /\ part \ {AnyOf(part)} \in Small(n + 1)
    BY <1>1, <1>2, <2>2
  <2>3. \A part \in Small(n) : s[part] = Next1(s, part)
    <3> HIDE DEF Small
    <3> QED
      BY <2>1
  <2>4. \A part \in Small(n + 1) : t[part] = Next1(s, part)
    OBVIOUS
  <2> HIDE DEF Small, t
  <2>5. ASSUME NEW part \in Small(n + 1) PROVE Next1(t, part) = Next1(s, part)
    <3>1. CASE part = {}
      BY <3>1 DEF Next1
    <3>2. CASE part # {}
      <4>1. t[part \ {AnyOf(part)}] = s[part \ {AnyOf(part)}]
        BY <2>2, <2>3, <2>4, <3>2
      <4> QED
        BY <4>1 DEF Next1
    <3> QED
      BY <3>1, <3>2
  <2>6. t = [part \in Small(n + 1) |-> Next1(t, part)]
    <3>1. t = [part \in Small(n + 1) |-> Next1(s, part)]
      BY DEF t
    <3> QED
      BY <2>5, <3>1
  <2> QED
    BY <2>6
<1>5. lacking = {}
  <2> SUFFICES ASSUME lacking # {} PROVE FALSE
    OBVIOUS
  <2> HIDE DEF Sums
  <2>1. PICK n \in lacking : \A m \in lacking : n <= m
    <3>1. lacking \in SUBSET Nat
      OBVIOUS
    <3> HIDE DEF lacking
    <3> QED
      BY <3>1, LeastNumber
  <2>2. n # 0 /\ n \in Nat /\ ~Sums(n)
    BY <1>3, <2>1
  <2>3. n - 1 \in Nat /\ n - 1 \notin lacking /\ (n - 1) + 1 = n
    BY <2>1, <2>2
  <2>4. Sums(n - 1)
    BY <2>3
  <2>5. Sums((n - 1) + 1)
    BY <1>4, <2>3, <2>4
  <2> QED
    BY <2>2, <2>3, <2>5
<1>6. Small(Cardinality(S)) = SUBSET S
  BY <1>1, FS_Subset
<1>7. Sums(Cardinality(S))
  <2>1. Cardinality(S) \in Nat
    BY FS_CardinalityType
  <2> HIDE DEF Sums
  <2> QED
    BY <1>5, <2>1
<1> QED
  BY <1>6, <1>7 DEF IsSum

\* The sums are natural numbers, and the same in every order.
LEMMA SumInAnyOrder ==
  ASSUME NEW S, IsFiniteSet(S), NEW f \in [S -> Nat], NEW sum, IsSum(sum, f, S)
  PROVE  /\ sum[{}] = 0
         /\ \A part \in SUBSET S : /\ sum[part] \in Nat
                                   /\ \A x \in part : sum[part] = f[x] + sum[part \ {x}]
<1> DEFINE IsAdded(part) == /\ sum[part] \in Nat
                            /\ \A x \in part : sum[part] = f[x] + sum[part \ {x}]
           wrong == {n \in Nat : \E part \in SUBSET S : Cardinality(part) = n /\ ~IsAdded(part)}
<1>1. \A part \in SUBSET S : IsFiniteSet(part) /\ Cardinality(part) \in Nat
  BY FS_Subset, FS_CardinalityType
<1>2. \A part \in SUBSET S : \A x \in part : Cardinality(part \ {x}) = Cardinality(part) - 1
  BY <1>1, FS_RemoveElement
<1>3. /\ sum[{}] = 0
      /\ \A part \in SUBSET S : part # {} => sum[part] = f[AnyOf(part)] + sum[part \ {AnyOf(part)}]
  BY DEF IsSum
<1>4. wrong = {}
  <2> SUFFICES ASSUME wrong # {} PROVE FALSE
    OBVIOUS
  <2> HIDE DEF IsAdded
  <2>1. PICK n \in wrong : \A m \in wrong : n <= m
    <3>1. wrong \in SUBSET Nat
      OBVIOUS
    <3> HIDE DEF wrong
    <3> QED
      BY <3>1, LeastNumber
  <2>2. PICK part \in SUBSET S : Cardinality(part) = n /\ ~IsAdded(part)
    BY <2>1
  <2>3. ASSUME NEW x \in part PROVE IsAdded(part \ {x}) /\ f[x] \in Nat
    <3>1. part \ {x} \in SUBSET S /\ Cardinality(part \ {x}) = n - 1 /\ n \in Nat /\ n - 1 \in Nat
      BY <1>1, <1>2, <2>2
    <3>2. n - 1 \notin wrong
      BY <2>1, <3>1
    <3> QED
      BY <3>1, <3>2
  <2>4. part # {}
    <3>1. CASE part = {}
      <4>1. sum[part] \in Nat /\ \A x \in part : FALSE
        BY <1>3, <3>1
      <4> QED
        BY <2>2, <4>1 DEF IsAdded
    <3> QED
      BY <3>1
  <2> DEFINE p == AnyOf(part)
  <2>5. p \in part
    BY <2>4 DEF AnyOf
  <2>6. sum[part] = f[p] + sum[part \ {p}] /\ sum[part \ {p}] \in Nat /\ f[p] \in Nat
    BY <1>3, <2>3, <2>4, <2>5 DEF IsAdded
  <2> HIDE DEF p, wrong
  <2>7. ASSUME NEW x \in part, x # p PROVE sum[part] = f[x] + sum[part \ {x}]
    <3>1. sum[part \ {p}] = f[x] + sum[(part \ {p}) \ {x}]
      BY <2>3, <2>5, <2>7 DEF IsAdded
    <3>2. sum[part \ {x}] = f[p] + sum[(part \ {x}) \ {p}]
      BY <2>3, <2>5, <2>7 DEF IsAdded
    <3>3. (part \ {p}) \ {x} = (part \ {x}) \ {p}
      OBVIOUS
    <3>4. f[x] \in Nat /\ f[p] \in Nat
      BY <2>3, <2>5
    <3>5. sum[(part \ {p}) \ {x}] \in Nat
      <4>1. (part \ {p}) \ {x} \in SUBSET S /\ x \in part \ {p} /\ part \ {p} \in SUBSET S
        BY <2>7
      <4>2. Cardinality((part \ {p}) \ {x}) = n - 2 /\ n - 2 \in Nat /\ n \in Nat
        <5>1. Cardinality(part \ {p}) = n - 1 /\ n \in Nat
          BY <1>1, <1>2, <2>2, <2>5
        <5>2. Cardinality((part \ {p}) \ {x}) = (n - 1) - 1 /\ Cardinality((part \ {p}) \ {x}) \in Nat
          BY <1>1, <1>2, <4>1, <5>1
        <5> QED
          BY <5>1, <5>2
      <4>3. n - 2 \notin wrong
        BY <2>1, <4>2 DEF wrong
      <4> QED
        BY <4>1, <4>2, <4>3 DEF wrong, IsAdded
    <3> DEFINE rest == sum[(part \ {p}) \ {x}]
    <3>6. rest = sum[(part \ {x}) \ {p}]
      BY <3>3
    <3> HIDE DEF rest
    <3>7. sum[part] = f[p] + (f[x] + rest) /\ sum[part \ {x}] = f[p] + rest /\ rest \in Nat
      BY <2>6, <3>1, <3>2, <3>5, <3>6 DEF rest
    <3> QED
      BY <3>4, <3>7
  <2> QED
    <3>1. sum[part] \in Nat
      BY <2>6
    <3>2. \A x \in part : sum[part] = f[x] + sum[part \ {x}]
      BY <2>6, <2>7
    <3> QED
      BY <2>2, <3>1, <3>2 DEF IsAdded
<1> QED
  <2>1. ASSUME NEW part \in SUBSET S PROVE IsAdded(part)
    <3> HIDE DEF IsAdded
    <3>1. Cardinality(part) \in Nat /\ Cardinality(part) \notin wrong
      BY <1>1, <1>4
    <3> QED
      BY <3>1
  <2> QED
    BY <1>3, <2>1

-----------------------------------------------------------------------------
(* The overload of a replica.                                              *)

\* A sequence has finitely many elements.
LEMMA IndexesAreFinite == \A n \in Nat : IsFiniteSet(1..n)
<1> SUFFICES ASSUME NEW n \in Nat PROVE IsFiniteSet(1..n)
  OBVIOUS
<1>1. 1 \in Int /\ n \in Int
  OBVIOUS
<1> QED
  BY <1>1, FS_Interval

\* Two of the entries of a sum are no more than it.
LEMMA SumOfTwo ==
  ASSUME NEW S, IsFiniteSet(S), NEW f \in [S -> Nat], NEW i \in S, NEW j \in S, i # j
  PROVE  FoldFunction(+, 0, f) \in Nat /\ f[i] + f[j] <= FoldFunction(+, 0, f)
<1>1. PICK sum : IsSum(sum, f, S) /\ FoldFunction(+, 0, f) = sum[S]
  <2>1. DOMAIN f = S /\ \E sum : IsSum(sum, f, S)
    BY SumExists
  <2> QED
    BY <2>1, FoldIsSum
<1> DEFINE IsAdded(part) == sum[part] \in Nat /\ \A x \in part : sum[part] = f[x] + sum[part \ {x}]
<1>2. \A part \in SUBSET S : IsAdded(part)
  <2>1. IsSum(sum, f, S)
    BY <1>1
  <2> HIDE DEF IsAdded
  <2>2. sum[{}] = 0 /\ \A part \in SUBSET S : IsAdded(part)
    BY <2>1, SumInAnyOrder DEF IsAdded
  <2> QED
    BY <2>2
<1>3. sum[S] = f[i] + sum[S \ {i}] /\ sum[S \ {i}] = f[j] + sum[(S \ {i}) \ {j}]
  BY <1>2
<1>4. sum[S] \in Nat /\ sum[S \ {i}] \in Nat /\ sum[(S \ {i}) \ {j}] \in Nat
  BY <1>2
<1>5. f[i] \in Nat /\ f[j] \in Nat
  OBVIOUS
<1> DEFINE all == sum[S]
           most == sum[S \ {i}]
           rest == sum[(S \ {i}) \ {j}]
           fi == f[i]
           fj == f[j]
<1>6. all \in Nat /\ fi + fj <= all
  <2>1. all = fi + most /\ most = fj + rest /\ {all, most, rest, fi, fj} \subseteq Nat
    BY <1>3, <1>4, <1>5
  <2> HIDE DEF all, most, rest, fi, fj
  <2> QED
    BY <2>1
<1> QED
  <2>1. FoldFunction(+, 0, f) = all
    BY <1>1
  <2> HIDE DEF all
  <2>2. FoldFunction(+, 0, f) \in Nat /\ fi + fj <= FoldFunction(+, 0, f)
    BY <1>6, <2>1
  <2> QED
    BY <2>2

\* A request for the distribution asks each replica once, and when it is over shows those
\* of its reports that are overloaded, or failed before it asked any.
ShowsOverloads(q) ==
  q.kind = "distribution" =>
    /\ IsPartition(NodesOf(q.reports), q.errs, q.left, {})
    /\ q.pc = "end" => q.flags \in {{}, Overloaded(q)}

OverloadInv == \A r \in Requests : ShowsOverloads(req[r])

LEMMA OverloadIsReal == TypeInv /\ OverloadInv => OverloadsAreReal
<1> SUFFICES ASSUME TypeInv, OverloadInv,
                    NEW r \in Requests, req[r].kind = "distribution", req[r].pc = "end",
                    NEW i \in DOMAIN req[r].reports, NEW j \in DOMAIN req[r].reports,
                    i # j, req[r].reports[i].node \in req[r].flags
             PROVE  4 * req[r].reports[j].data < req[r].reports[i].data
  BY DEF OverloadsAreReal
<1> DEFINE reports == req[r].reports
           reads == [k \in DOMAIN reports |-> reports[k].data]
           totalReads == FoldFunction(+, 0, reads)
<1>1. reports \in Seq(Reports("distribution")) /\ Data("distribution") \subseteq Nat
  <2>1. reports \in Seq(Reports("distribution"))
    BY DEF TypeInv, IsTyped, RequestSet
  <2>2. Data("distribution") = Calls
    BY MemoryIsAKind DEF Kinds, RepliesTo, CommandsReply
  <2> QED
    BY <2>1, <2>2, RepliesAssumption
<1>2. /\ \A k \in DOMAIN reports : reports[k] \in Reports("distribution")
      /\ DOMAIN reports = 1..Len(reports) /\ Len(reports) \in Nat
  BY <1>1
<1>3. req[r].flags \in {{}, Overloaded(req[r])} /\ Distinct(NodesOf(reports))
  BY DEF OverloadInv, ShowsOverloads, IsPartition
<1>4. req[r].flags = Overloaded(req[r])
  BY <1>3
<1>5. PICK k \in DOMAIN reports : reports[k].node = reports[i].node /\ 10 * reports[k].data > 8 * totalReads
  BY <1>4 DEF Overloaded
<1>6. k = i
  <2>1. NodesOf(reports)[k] = NodesOf(reports)[i] /\ DOMAIN NodesOf(reports) = DOMAIN reports
    BY <1>5 DEF NodesOf
  <2> QED
    BY <1>3, <2>1 DEF Distinct
<1>7. reads \in [DOMAIN reports -> Nat] /\ IsFiniteSet(DOMAIN reports)
  <2>1. \A l \in DOMAIN reports : reports[l].data \in Nat
    BY <1>1, <1>2 DEF Reports
  <2>2. IsFiniteSet(DOMAIN reports)
    <3> HIDE DEF reports
    <3>1. IsFiniteSet(1..Len(reports))
      BY <1>2, IndexesAreFinite
    <3> QED
      BY <1>2, <3>1
  <2> QED
    BY <2>1, <2>2
<1>8. reads[i] = reports[i].data /\ reads[j] = reports[j].data
  OBVIOUS
<1> HIDE DEF reads
<1>9. totalReads \in Nat /\ reads[i] + reads[j] <= totalReads
  <2> HIDE DEF reports
  <2> QED
    BY <1>7, SumOfTwo DEF reports
<1>10. 10 * reads[i] > 8 * totalReads /\ reads[i] \in Nat /\ reads[j] \in Nat
  BY <1>5, <1>6, <1>7, <1>8
<1> HIDE DEF totalReads
<1>11. 4 * reads[j] < reads[i]
  BY <1>9, <1>10
<1> QED
  BY <1>8, <1>11

LEMMA SameReads ==
  ASSUME NEW p, NEW q, p.reports = q.reports
  PROVE  Overloaded(p) = Overloaded(q)
BY DEF Overloaded

\* A request that asks on, or has nothing to ask yet.
LEMMA ReportedShows ==
  ASSUME NEW q, IsTyped(q), q.pc \in {"node", "swap"}, q.left # << >>, NEW data \in Data(q.kind),
         ShowsOverloads(q)
  PROVE  ShowsOverloads(Reported(q, data))
<1> DEFINE t == Reported(q, data)
<1>1. /\ t.reports = Append(q.reports, [node |-> Head(q.left), data |-> data])
      /\ t.left = Tail(q.left) /\ t.errs = q.errs /\ t.pc = "node" /\ t.kind = q.kind
  BY ReportedType
<1>2. /\ NodesOf(q.reports) \in Seq(Nodes) /\ q.errs \in Seq(Nodes) /\ q.left \in Seq(Nodes)
  BY NodesOfType
<1>3. NodesOf(t.reports) = Append(NodesOf(q.reports), Head(q.left))
  BY <1>1, <1>2, NodesOfAppend
<1> HIDE DEF t
<1>4. ASSUME q.kind = "distribution" PROVE IsPartition(NodesOf(t.reports), t.errs, t.left, {})
  <2>1. IsPartition(NodesOf(q.reports), q.errs, q.left, {})
    BY <1>4 DEF ShowsOverloads
  <2> QED
    BY <1>1, <1>2, <1>3, <2>1, FirstIsTold
<1> QED
  BY <1>1, <1>4 DEF ShowsOverloads, t

LEMMA NextOverloadInv == TypeInv /\ OverloadInv /\ [Next]_vars => OverloadInv'
<1> SUFFICES ASSUME TypeInv, OverloadInv, [Next]_vars PROVE OverloadInv'
  OBVIOUS
<1>0. DOMAIN req = Requests /\ \A r \in Requests : ShowsOverloads(req[r]) /\ IsTyped(req[r])
  BY DEF TypeInv, OverloadInv
<1>1. ASSUME NEW r \in Requests, \A o \in Requests \ {r} : req'[o] = req[o],
             ShowsOverloads(req'[r])
      PROVE  OverloadInv'
  BY <1>0, <1>1 DEF OverloadInv
<1>2. ASSUME NEW r \in Requests, ResolveMaster(r) \/ ResolveFails(r) \/ Stamp(r) \/ Answer(r)
      PROVE  OverloadInv'
  <2>1. \A o \in Requests \ {r} : req'[o] = req[o]
    BY <1>0, <1>2, OthersStay
  <2>2. CASE ResolveMaster(r)
    <3>1. req'[r].kind = req[r].kind /\ req'[r].pc = "replicas"
          /\ (req[r].kind # "topology" => req'[r].reports = req[r].reports)
      BY <2>2, ResolveMasterType
    <3>2. req'[r].errs = req[r].errs /\ req'[r].left = req[r].left
      <4>1. req[r] \in RequestSet(req[r].kind)
        BY <1>0 DEF IsTyped
      <4>2. PICK healthy \in BOOLEAN :
              Step(r, [req[r] EXCEPT !.master = master, !.pc = "replicas",
                         !.reports = IF req[r].kind = "topology"
                                     THEN <<[node |-> master, data |-> healthy]>> ELSE @])
        BY <2>2 DEF ResolveMaster
      <4> DEFINE reports == IF req[r].kind = "topology"
                            THEN <<[node |-> master, data |-> healthy]>> ELSE req[r].reports
                 q == [req[r] EXCEPT !.master = master, !.pc = "replicas", !.reports = reports]
      <4>3. Step(r, q)
        BY <4>2
      <4>4. q.errs = req[r].errs /\ q.left = req[r].left
        <5> HIDE DEF reports
        <5> QED
          BY <4>1 DEF RequestSet
      <4> HIDE DEF q
      <4> QED
        BY <1>0, <4>3, <4>4, OneStep
    <3>3. ShowsOverloads(req'[r])
      BY <1>0, <3>1, <3>2 DEF ShowsOverloads
    <3> QED
      BY <1>1, <2>1, <3>3
  <2>3. CASE ResolveFails(r)
    <3>1. req'[r].flags = {} /\ req'[r].kind = req[r].kind /\ req'[r].reports = req[r].reports
      BY <2>3, ResolveFailsType
    <3>2. req'[r].errs = req[r].errs /\ req'[r].left = req[r].left
      <4>1. req[r] \in RequestSet(req[r].kind)
        BY <1>0 DEF IsTyped
      <4>2. req'[r] = [req[r] EXCEPT !.pc = "end", !.status = "error"]
        BY <1>0, <2>3, OneStep DEF ResolveFails
      <4> QED
        BY <4>1, <4>2 DEF RequestSet
    <3>3. ShowsOverloads(req'[r])
      BY <1>0, <3>1, <3>2 DEF ShowsOverloads
    <3> QED
      BY <1>1, <2>1, <3>3
  <2>4. CASE Stamp(r)
    <3>1. /\ req'[r].pc = "swap" /\ req'[r].kind = req[r].kind /\ req'[r].reports = req[r].reports
          /\ req'[r].errs = req[r].errs /\ req'[r].left = req[r].left
      BY <2>4, StampType
    <3>2. ShowsOverloads(req'[r])
      BY <1>0, <3>1 DEF ShowsOverloads
    <3> QED
      BY <1>1, <2>1, <3>2
  <2>5. CASE Answer(r)
    <3>1. /\ req'[r].kind = req[r].kind /\ req'[r].reports = req[r].reports
          /\ req'[r].errs = req[r].errs /\ req'[r].left = req[r].left
          /\ req'[r].flags \in FlagsOf(req[r])
      BY <2>5, AnswerType
    <3>2. req[r].kind = "distribution" => FlagsOf(req[r]) = {Overloaded(req[r])}
      BY DEF FlagsOf
    <3>3. Overloaded(req'[r]) = Overloaded(req[r])
      BY <3>1, SameReads
    <3>4. ShowsOverloads(req'[r])
      BY <1>0, <3>1, <3>2, <3>3 DEF ShowsOverloads
    <3> QED
      BY <1>1, <2>1, <3>4
  <2> QED
    BY <1>2, <2>2, <2>3, <2>4, <2>5
<1>3. ASSUME NEW r \in Requests, ResolveReplicas(r) PROVE OverloadInv'
  <2>1. \A o \in Requests \ {r} : req'[o] = req[o]
    BY <1>0, <1>3, OthersStay
  <2>2. PICK replicas \in Seq(Nodes) :
          /\ req'[r].pc = "node" /\ req'[r].kind = req[r].kind
          /\ req'[r].left = Asked(req[r], replicas) /\ Distinct(replicas)
          /\ req'[r].reports = req[r].reports /\ req'[r].errs = req[r].errs
    BY <1>3, ResolveReplicasType
  <2>3. ASSUME req[r].kind = "distribution"
        PROVE  IsPartition(NodesOf(req'[r].reports), req'[r].errs, req'[r].left, {})
    <3>1. req[r].reports = << >> /\ req[r].errs = << >>
      BY <1>0, <1>3, <2>3 DEF IsTyped, Course, ResolveReplicas
    <3>2. req'[r].left = replicas
      BY <2>2, <2>3 DEF Asked
    <3>3. DOMAIN NodesOf(<< >>) = {} /\ DOMAIN << >> = {}
      BY DEF NodesOf
    <3> QED
      BY <2>2, <3>1, <3>2, <3>3 DEF IsPartition, Distinct, Apart
  <2> QED
    BY <1>1, <2>1, <2>2, <2>3 DEF ShowsOverloads
<1>4. ASSUME NEW r \in Requests, ReadNode(r) PROVE OverloadInv'
  <2>1. \A o \in Requests \ {r} : req'[o] = req[o]
    BY <1>0, <1>4, OthersStay
  <2>2. PICK data \in Data(req[r].kind) : req'[r] = Reported(req[r], data)
    BY <1>4, ReadNodeType
  <2>3. ShowsOverloads(Reported(req[r], data))
    BY <1>0, <1>4, ReportedShows DEF ReadNode
  <2> QED
    BY <1>1, <2>1, <2>2, <2>3
<1>5. ASSUME NEW r \in Requests, NodeFails(r) PROVE OverloadInv'
  <2>1. \A o \in Requests \ {r} : req'[o] = req[o]
    BY <1>0, <1>5, OthersStay
  <2>2. /\ req'[r].errs = Append(req[r].errs, Head(req[r].left))
        /\ req'[r].left = Tail(req[r].left) /\ req'[r].reports = req[r].reports
        /\ req'[r].pc = "node" /\ req'[r].kind = req[r].kind
    BY <1>5, NodeFailsType
  <2>3. /\ req[r].left # << >> /\ NodesOf(req[r].reports) \in Seq(Nodes)
        /\ req[r].errs \in Seq(Nodes) /\ req[r].left \in Seq(Nodes)
    BY <1>0, <1>5, NodesOfType DEF NodeFails
  <2>4. ASSUME req[r].kind = "distribution"
        PROVE  IsPartition(NodesOf(req[r].reports), Append(req[r].errs, Head(req[r].left)),
                           Tail(req[r].left), {})
    <3>1. IsPartition(NodesOf(req[r].reports), req[r].errs, req[r].left, {})
      BY <1>0, <2>4 DEF ShowsOverloads
    <3> QED
      BY <2>3, <3>1, FirstFails
  <2>5. ShowsOverloads(req'[r])
    BY <2>2, <2>4 DEF ShowsOverloads
  <2> QED
    BY <1>1, <2>1, <2>5
<1>6. ASSUME NEW r \in Requests, ReadMemory(r) \/ Swap(r) PROVE OverloadInv'
  <2>1. \A o \in Requests \ {r} : req'[o] = req[o]
    BY <1>0, <1>6, OthersStay
  <2>2. req[r].kind = "memory" /\ req[r] \in RequestSet(req[r].kind)
    BY <1>0, <1>6 DEF ReadMemory, Swap, IsTyped, Course
  <2>3. req'[r].kind = req[r].kind
    <3>1. CASE ReadMemory(r)
      BY <2>2, <3>1, ReadMemoryType DEF RequestSet
    <3>2. CASE Swap(r)
      BY <3>2, SwapType
    <3> QED
      BY <1>6, <3>1, <3>2
  <2> QED
    BY <1>1, <2>1, <2>2, <2>3 DEF ShowsOverloads
<1>7. ASSUME NEW n \in Nodes, Elect(n) PROVE OverloadInv'
  <2>1. ASSUME NEW r \in Requests PROVE ShowsOverloads(req'[r])
    <3>1. req[r] \in RequestSet(req[r].kind)
      BY <1>0 DEF IsTyped
    <3>2. req'[r] = [req[r] EXCEPT !.split = req[r].split \/ req[r].pc = "replicas"]
      BY <1>7, ElectType
    <3>3. /\ req'[r].kind = req[r].kind /\ req'[r].reports = req[r].reports
          /\ req'[r].errs = req[r].errs /\ req'[r].left = req[r].left
          /\ req'[r].pc = req[r].pc /\ req'[r].flags = req[r].flags
      BY <3>1, <3>2 DEF RequestSet
    <3>4. Overloaded(req'[r]) = Overloaded(req[r])
      BY <3>3, SameReads
    <3> QED
      BY <1>0, <3>3, <3>4 DEF ShowsOverloads
  <2> QED
    BY <2>1 DEF OverloadInv
<1>8. ASSUME UNCHANGED req PROVE OverloadInv'
  BY <1>8 DEF OverloadInv
<1>9. (\E n \in Nodes : Evict(n) \/ Restart(n)) \/ Tick \/ UNCHANGED vars => UNCHANGED req
  BY DEF Evict, Restart, Tick, vars
<1> QED
  BY <1>2, <1>3, <1>4, <1>5, <1>6, <1>7, <1>8, <1>9, NextCases

\* For any nodes and any numbers of reads, whichever replicas fail: a replica is called
\* overloaded only if each other one that answered has less than a quarter of its reads.
THEOREM OverloadsAreOverloads == Spec => []OverloadsAreReal
<1>1. Init => OverloadInv
  <2> SUFFICES ASSUME Init, NEW r \in Requests PROVE ShowsOverloads(req[r])
    BY DEF OverloadInv
  <2>1. req[r].reports = << >> /\ req[r].errs = << >> /\ req[r].left = << >> /\ req[r].flags = {}
    BY DEF Init
  <2>2. DOMAIN NodesOf(<< >>) = {} /\ DOMAIN << >> = {}
    BY DEF NodesOf
  <2> QED
    BY <2>1, <2>2 DEF ShowsOverloads, IsPartition, Distinct, Apart
<1> QED
  BY <1>1, NextOverloadInv, OverloadIsReal, TypeInvariance, PTL DEF Spec

-----------------------------------------------------------------------------
(* Sums and maxima over sets and parts of them.                            *)

\* Sums of the same numbers are the same, whatever set they are a part of.
LEMMA SumsAgree ==
  ASSUME NEW S, IsFiniteSet(S), NEW T \in SUBSET S, NEW f, NEW e, \A x \in T : e[x] = f[x],
         NEW sum, IsSum(sum, f, S), NEW tum, IsSum(tum, e, T)
  PROVE  tum[T] = sum[T]
<1> DEFINE wrong == {n \in Nat : \E part \in SUBSET T : Cardinality(part) = n /\ tum[part] # sum[part]}
<1>1. \A part \in SUBSET T : IsFiniteSet(part) /\ Cardinality(part) \in Nat
  BY FS_Subset, FS_CardinalityType
<1>2. \A part \in SUBSET T : \A x \in part : Cardinality(part \ {x}) = Cardinality(part) - 1
  BY <1>1, FS_RemoveElement
<1>3. /\ tum[{}] = 0 /\ sum[{}] = 0
      /\ \A part \in SUBSET T : part # {} => /\ tum[part] = e[AnyOf(part)] + tum[part \ {AnyOf(part)}]
                                             /\ sum[part] = f[AnyOf(part)] + sum[part \ {AnyOf(part)}]
  BY DEF IsSum
<1>4. wrong = {}
  <2> SUFFICES ASSUME wrong # {} PROVE FALSE
    OBVIOUS
  <2>1. PICK n \in wrong : \A m \in wrong : n <= m
    <3>1. wrong \in SUBSET Nat
      OBVIOUS
    <3> HIDE DEF wrong
    <3> QED
      BY <3>1, LeastNumber
  <2>2. PICK part \in SUBSET T : Cardinality(part) = n /\ tum[part] # sum[part]
    BY <2>1
  <2>3. part # {}
    BY <1>3, <2>2
  <2> DEFINE p == AnyOf(part)
  <2>4. p \in part
    BY <2>3 DEF AnyOf
  <2>5. part \ {p} \in SUBSET T /\ Cardinality(part \ {p}) = n - 1 /\ n \in Nat /\ n - 1 \in Nat
    BY <1>1, <1>2, <2>2, <2>4
  <2>6. n - 1 \notin wrong
    BY <2>1, <2>5
  <2>7. tum[part \ {p}] = sum[part \ {p}]
    BY <2>5, <2>6
  <2>8. e[p] = f[p]
    BY <2>4
  <2>9. tum[part] = e[p] + tum[part \ {p}] /\ sum[part] = f[p] + sum[part \ {p}]
    BY <1>3, <2>3
  <2> HIDE DEF p
  <2> QED
    BY <2>2, <2>7, <2>8, <2>9
<1>5. Cardinality(T) \in Nat /\ Cardinality(T) \notin wrong
  BY <1>1, <1>4
<1> QED
  BY <1>5

\* A sum is no less than that of a part of it.
LEMMA SumOfPart ==
  ASSUME NEW S, IsFiniteSet(S), NEW T \in SUBSET S, NEW f \in [S -> Nat], NEW sum, IsSum(sum, f, S)
  PROVE  sum[T] \in Nat /\ sum[S] \in Nat /\ sum[T] <= sum[S]
<1> DEFINE wrong == {n \in Nat : \E part \in SUBSET S : Cardinality(part) = n /\ T \subseteq part /\ ~(sum[T] <= sum[part])}
           IsAdded(part) == sum[part] \in Nat /\ \A x \in part : sum[part] = f[x] + sum[part \ {x}]
<1>1. \A part \in SUBSET S : IsFiniteSet(part) /\ Cardinality(part) \in Nat
  BY FS_Subset, FS_CardinalityType
<1>2. \A part \in SUBSET S : \A x \in part : Cardinality(part \ {x}) = Cardinality(part) - 1
  BY <1>1, FS_RemoveElement
<1>3. \A part \in SUBSET S : IsAdded(part)
  <2> HIDE DEF IsAdded
  <2>1. sum[{}] = 0 /\ \A part \in SUBSET S : IsAdded(part)
    BY SumInAnyOrder DEF IsAdded
  <2> QED
    BY <2>1
<1>4. wrong = {}
  <2> SUFFICES ASSUME wrong # {} PROVE FALSE
    OBVIOUS
  <2>1. PICK n \in wrong : \A m \in wrong : n <= m
    <3>1. wrong \in SUBSET Nat
      OBVIOUS
    <3> HIDE DEF wrong
    <3> QED
      BY <3>1, LeastNumber
  <2>2. PICK part \in SUBSET S : Cardinality(part) = n /\ T \subseteq part /\ ~(sum[T] <= sum[part])
    BY <2>1
  <2>3. PICK x \in part : x \notin T
    <3>1. \A m \in Nat : m <= m
      OBVIOUS
    <3>2. sum[T] <= sum[T]
      BY <1>3, <3>1
    <3> QED
      BY <2>2, <3>2
  <2>4. part \ {x} \in SUBSET S /\ Cardinality(part \ {x}) = n - 1 /\ n \in Nat /\ n - 1 \in Nat
    BY <1>1, <1>2, <2>2, <2>3
  <2>5. n - 1 \notin wrong
    BY <2>1, <2>4
  <2>6. sum[T] <= sum[part \ {x}]
    BY <2>2, <2>3, <2>4, <2>5
  <2>7. sum[part] = f[x] + sum[part \ {x}] /\ sum[part \ {x}] \in Nat /\ sum[T] \in Nat /\ f[x] \in Nat
    BY <1>3, <2>2, <2>3, <2>4
  <2> QED
    <3> DEFINE t == sum[T]
               s == sum[part]
               r == sum[part \ {x}]
               fx == f[x]
    <3>1. ~(t <= s) /\ t <= r /\ s = fx + r /\ {t, r, fx} \subseteq Nat
      BY <2>2, <2>6, <2>7
    <3> HIDE DEF t, s, r, fx
    <3> QED
      BY <3>1
<1>5. Cardinality(S) \in Nat /\ Cardinality(S) \notin wrong
  BY <1>1, <1>4
<1> QED
  BY <1>3, <1>5

\* The number of connections of some groups.
CountOf(S) == MapThenSumSet(LAMBDA g : g.count, S)

LEMMA CountsOfPart ==
  ASSUME NEW S, IsFiniteSet(S), \A g \in S : g.count \in Nat, NEW T \in SUBSET S
  PROVE  CountOf(S) \in Nat /\ CountOf(T) <= CountOf(S)
<1> DEFINE f == [g \in S |-> g.count]
           e == [g \in T |-> g.count]
<1>1. IsFiniteSet(T)
  BY FS_Subset
<1>2. PICK sum : IsSum(sum, f, S) /\ CountOf(S) = sum[S]
  BY SumExists, CountIsSum DEF CountOf
<1>3. PICK tum : IsSum(tum, e, T) /\ CountOf(T) = tum[T]
  BY <1>1, SumExists, CountIsSum DEF CountOf
<1>4. tum[T] = sum[T]
  <2>1. \A x \in T : e[x] = f[x]
    OBVIOUS
  <2> HIDE DEF e, f
  <2> QED
    BY <1>2, <1>3, <2>1, SumsAgree
<1>5. sum[S] \in Nat /\ sum[T] <= sum[S]
  <2>1. f \in [S -> Nat]
    OBVIOUS
  <2> HIDE DEF f
  <2> QED
    BY <1>2, <2>1, SumOfPart
<1> QED
  BY <1>2, <1>3, <1>4, <1>5

-----------------------------------------------------------------------------
\* Of finitely many numbers one is the largest.
LEMMA LargestExists ==
  ASSUME NEW S, IsFiniteSet(S), S # {}, NEW f \in [S -> Nat]
  PROVE  \E x \in S : \A y \in S : f[y] <= f[x]
<1> DEFINE HasLargest(part) == \E x \in part : \A y \in part : f[y] <= f[x]
           wrong == {n \in Nat : \E part \in SUBSET S : Cardinality(part) = n /\ part # {} /\ ~HasLargest(part)}
<1>1. \A part \in SUBSET S : IsFiniteSet(part) /\ Cardinality(part) \in Nat
  BY FS_Subset, FS_CardinalityType
<1>2. \A part \in SUBSET S : \A x \in part : Cardinality(part \ {x}) = Cardinality(part) - 1
  BY <1>1, FS_RemoveElement
<1>3. wrong = {}
  <2> SUFFICES ASSUME wrong # {} PROVE FALSE
    OBVIOUS
  <2>1. PICK n \in wrong : \A m \in wrong : n <= m
    <3>1. wrong \in SUBSET Nat
      OBVIOUS
    <3> HIDE DEF wrong
    <3> QED
      BY <3>1, LeastNumber
  <2>2. PICK part \in SUBSET S : Cardinality(part) = n /\ part # {} /\ ~HasLargest(part)
    BY <2>1
  <2>3. PICK p \in part : TRUE
    BY <2>2
  <2>4. part \ {p} \in SUBSET S /\ Cardinality(part \ {p}) = n - 1 /\ n \in Nat /\ n - 1 \in Nat
    BY <1>1, <1>2, <2>2, <2>3
  <2>5. n - 1 \notin wrong
    BY <2>1, <2>4
  <2>6. part \ {p} = {} \/ HasLargest(part \ {p})
    BY <2>4, <2>5
  <2>7. \A x \in part : f[x] \in Nat
    OBVIOUS
  <2>8. CASE part \ {p} = {}
    <3>1. \A y \in part : f[y] <= f[p]
      BY <2>7, <2>8
    <3> QED
      BY <2>2, <3>1
  <2>9. CASE HasLargest(part \ {p})
    <3>1. PICK x \in part \ {p} : \A y \in part \ {p} : f[y] <= f[x]
      BY <2>9
    <3>2. CASE f[p] <= f[x]
      <4>1. \A y \in part : f[y] <= f[x]
        BY <3>1, <3>2
      <4> QED
        BY <2>2, <3>1, <4>1
    <3>3. CASE ~(f[p] <= f[x])
      <4>1. \A y \in part : f[y] <= f[p]
        BY <2>7, <3>1, <3>3
      <4> QED
        BY <2>2, <4>1
    <3> QED
      BY <3>2, <3>3
  <2> QED
    BY <2>6, <2>8, <2>9
<1>4. Cardinality(S) \in Nat /\ Cardinality(S) \notin wrong
  BY <1>1, <1>3
<1> QED
  BY <1>4

LEMMA MaxIsLargest ==
  ASSUME NEW S, IsFiniteSet(S), S # {}, NEW f \in [S -> Nat],
         NEW values, values = {f[x] : x \in S}
  PROVE  Max(values) \in values /\ Max(values) \in Nat /\ \A y \in S : f[y] <= Max(values)
<1>1. PICK x \in S : \A y \in S : f[y] <= f[x]
  BY LargestExists
<1>2. f[x] \in values /\ values \subseteq Nat
  OBVIOUS
<1>3. \A v \in values : f[x] >= v
  BY <1>1, <1>2
<1>4. Max(values) \in values /\ \A v \in values : Max(values) >= v
  BY <1>2, <1>3 DEF Max
<1>5. \A y \in S : f[y] \in values
  OBVIOUS
<1> QED
  BY <1>2, <1>4, <1>5

-----------------------------------------------------------------------------
(* The request for the connections.                                        *)

\* A node that was read, with its clients by address.
Reads ==
  [job : Jobs, listing : Listings, clients : UNION {[from -> Clients] : from \in SUBSET IPs}]

RequestForConnections ==
  [pc : {"start", "fetch", "enrich", "end"}, kind : {"connections", "analysis"},
   jobs : SUBSET Jobs, left : SUBSET Jobs, failed : SUBSET Jobs,
   results : Seq(Reads), unnamed : SUBSET IPs, status : {"none", "ok", "error"}]

\* The addresses that a listing counts connections of.
From(listing) == {g.from : g \in Counted(listing)}

\* The clients of a node are those of its listing, each with no pod or one that has had
\* its address, as far as is known.
IsFaithful(nc, known) ==
  /\ DOMAIN nc.clients = From(nc.listing)
  /\ \A i \in From(nc.listing) :
       /\ nc.clients[i].count = ClientOf(i, nc.listing).count
       /\ nc.clients[i].idle = ClientOf(i, nc.listing).idle
       /\ nc.clients[i].pod = Nobody \/ <<nc.clients[i].pod, i>> \in known

\* What the directory promises, of the past as well.
DirectoryInv ==
  /\ cache \in [IPs -> Pods \cup {Nobody}]
  /\ held \subseteq Pods \X IPs
  /\ \A i \in IPs : cache[i] = Nobody \/ <<cache[i], i>> \in held

\* Every node is to be read, was not read, or has a result.
MonitorCourse ==
  /\ request.left \subseteq request.jobs
  /\ request.failed \subseteq request.jobs \ request.left
  /\ request.pc = "start" => request.results = << >> /\ request.left = {} /\ request.failed = {} /\ request.jobs = {}
  /\ request.pc = "enrich" =>
       /\ request.results # << >>
       /\ request.unnamed \subseteq DOMAIN request.results[Len(request.results)].clients
  /\ \A job \in request.jobs : \/ job \in request.left \cup request.failed
                                \/ \E k \in DOMAIN request.results : request.results[k].job = job
  /\ request.pc # "end" => request.status = "none"
  /\ Analysed => request.left = {} /\ request.failed = {}

MonitorInv ==
  /\ DirectoryInv
  /\ request \in RequestForConnections
  /\ \A k \in DOMAIN request.results : IsFaithful(request.results[k], held)
  /\ MonitorCourse

-----------------------------------------------------------------------------
\* The connections of an address that a listing counts are finitely many, of which there
\* is at least one.
LEMMA ClientIsTyped ==
  ASSUME NEW listing \in Listings, NEW i \in From(listing)
  PROVE  /\ i \in IPs
         /\ ClientOf(i, listing) \in Clients
         /\ ClientOf(i, listing).pod = Nobody
         /\ \E g \in Counted(listing) : g.from = i /\ ClientOf(i, listing).idle = g.idle
         /\ \A g \in Counted(listing) : g.from = i => g.idle <= ClientOf(i, listing).idle
         /\ \A part \in SUBSET {g \in Counted(listing) : g.from = i} :
              CountOf(part) <= ClientOf(i, listing).count
<1> DEFINE mine == {g \in Counted(listing) : g.from = i}
           c == ClientOf(i, listing)
           idleOf == [g \in mine |-> g.idle]
           idles == {g.idle : g \in mine}
<1>1. listing \subseteq Groups /\ IsFiniteSet(listing)
  BY ListingsAssumption
<1>2. mine \in SUBSET listing /\ mine # {} /\ mine \subseteq Groups
  BY <1>1 DEF From, Counted
<1>3. \A g \in mine : g.from = i /\ g.from \in IPs /\ g.count \in Nat /\ g.idle \in Nat
  BY <1>2 DEF Groups
<1>4. IsFiniteSet(mine)
  BY <1>1, <1>2, FS_Subset
<1>5. c.count = CountOf(mine) /\ c.idle = Max(idles) /\ c.pod = Nobody
      /\ c = [count |-> CountOf(mine), idle |-> Max(idles), pod |-> Nobody]
  BY DEF ClientOf, CountOf
<1>6. idles = {idleOf[g] : g \in mine} /\ idleOf \in [mine -> Nat] /\ \A g \in mine : idleOf[g] = g.idle
  BY <1>3
<1>7. Max(idles) \in idles /\ Max(idles) \in Nat /\ \A g \in mine : idleOf[g] <= Max(idles)
  <2> HIDE DEF mine, idles, idleOf
  <2> QED
    BY <1>2, <1>4, <1>6, MaxIsLargest
<1>8. CountOf(mine) \in Nat /\ \A part \in SUBSET mine : CountOf(part) <= CountOf(mine)
  <2> HIDE DEF mine
  <2>1. CountOf(mine) \in Nat
    BY <1>3, <1>4, CountsOfPart
  <2>2. ASSUME NEW part \in SUBSET mine PROVE CountOf(part) <= CountOf(mine)
    BY <1>3, <1>4, CountsOfPart
  <2> QED
    BY <2>1, <2>2
<1>9. i \in IPs
  BY <1>2, <1>3
<1>10. c \in Clients
  BY <1>5, <1>7, <1>8 DEF Clients
<1>11. \E g \in Counted(listing) : g.from = i /\ c.idle = g.idle
  BY <1>5, <1>7
<1>12. \A g \in Counted(listing) : g.from = i => g.idle <= c.idle
  <2> SUFFICES ASSUME NEW g \in mine PROVE g.idle <= c.idle
    OBVIOUS
  <2> QED
    BY <1>5, <1>6, <1>7
<1>13. \A part \in SUBSET mine : CountOf(part) <= c.count
  BY <1>5, <1>8
<1> HIDE DEF c
<1> QED
  BY <1>5, <1>9, <1>10, <1>11, <1>12, <1>13 DEF c

\* If the pod that an address is shown with is an admin tool, it has had the address.
LEMMA OnlyAdminsAreTaken ==
  ASSUME MonitorInv, NEW k \in DOMAIN request.results,
         NEW i \in DOMAIN request.results[k].clients
  PROVE  /\ i \in IPs
         /\ IsAdmin(request.results[k].clients[i]) => TakenForAdmin(k, i)
         /\ request.results[k].clients[i] \in Clients
<1> DEFINE nc == request.results[k]
<1>1. nc \in Reads
  <2>1. request.results \in Seq(Reads)
    BY DEF MonitorInv, RequestForConnections
  <2> QED
    BY <2>1
<1>2. IsFaithful(nc, held)
  BY DEF MonitorInv
<1>3. nc.listing \in Listings /\ DOMAIN nc.clients \subseteq IPs /\ nc.clients[i] \in Clients
  BY <1>1 DEF Reads
<1>4. nc.clients[i].pod = Nobody \/ <<nc.clients[i].pod, i>> \in held
  BY <1>2 DEF IsFaithful
<1>5. nc.clients[i].pod \in AdminPods => TakenForAdmin(k, i)
  BY <1>4, NobodyAssumption, AdminPodsAssumption DEF TakenForAdmin
<1> QED
  BY <1>3, <1>5 DEF IsAdmin

LEMMA SuspiciousIsShown ==
  ASSUME NEW k \in DOMAIN request.results, NEW i \in DOMAIN request.results[k].clients, i \in IPs,
         Severity(request.results[k].clients[i]) # "none", ~IsAdmin(request.results[k].clients[i])
  PROVE  Shown(k, i)
<1> DEFINE s == [at |-> k, from |-> i]
<1>1. s \in [at : DOMAIN request.results, from : IPs] /\ s.at = k /\ s.from = i
  OBVIOUS
<1> HIDE DEF s
<1>2. s \in Suspicious
  BY <1>1 DEF Suspicious
<1> QED
  BY <1>2 DEF Shown, s

LEMMA LeaksAreSeen == MonitorInv => NoLeakOverlooked
<1> SUFFICES ASSUME MonitorInv, Analysed, NEW job \in request.jobs
             PROVE  \E k \in DOMAIN request.results :
                      /\ request.results[k].job = job
                      /\ \A i \in IPs :
                           LET app == {g \in request.results[k].listing : g.from = i /\ g.link = "app"} IN
                           /\ CountOf(app) >= 5
                           /\ \E g \in app : g.idle > Day
                           => /\ Severity(request.results[k].clients[i]) = "critical"
                              /\ Shown(k, i) \/ TakenForAdmin(k, i)
  BY DEF NoLeakOverlooked, CountOf
<1>1. PICK k \in DOMAIN request.results : request.results[k].job = job
  BY DEF MonitorInv, MonitorCourse
<1> DEFINE nc == request.results[k]
<1>2. nc \in Reads /\ IsFaithful(nc, held)
  <2>1. request.results \in Seq(Reads)
    BY DEF MonitorInv, RequestForConnections
  <2> QED
    BY <2>1 DEF MonitorInv
<1>3. ASSUME NEW i \in IPs,
             CountOf({g \in nc.listing : g.from = i /\ g.link = "app"}) >= 5,
             \E g \in nc.listing : g.from = i /\ g.link = "app" /\ g.idle > Day
      PROVE  Severity(nc.clients[i]) = "critical" /\ (Shown(k, i) \/ TakenForAdmin(k, i))
  <2> DEFINE app == {g \in nc.listing : g.from = i /\ g.link = "app"}
             listing == nc.listing
             c == ClientOf(i, listing)
  <2>1. PICK g \in app : g.idle > Day
    BY <1>3
  <2>2. app \in SUBSET {h \in Counted(listing) : h.from = i}
    BY DEF Counted
  <2>3. g \in Counted(listing) /\ g.from = i
    BY <2>2
  <2>4. i \in From(listing) /\ listing \in Listings
    BY <1>2, <2>3 DEF From, Reads
  <2>5. /\ c \in Clients /\ g.idle <= c.idle /\ CountOf(app) <= c.count
        /\ CountOf(app) \in Nat /\ g.idle \in Nat
    <3> HIDE DEF c, app, listing
    <3>1. c \in Clients /\ g.idle <= c.idle /\ CountOf(app) <= c.count
      BY <2>2, <2>3, <2>4, ClientIsTyped DEF c
    <3>2. listing \subseteq Groups /\ IsFiniteSet(listing) /\ app \in SUBSET listing
      BY <2>4, ListingsAssumption DEF app, listing
    <3>3. IsFiniteSet(app) /\ g \in Groups /\ \A h \in app : h.count \in Nat
      BY <2>1, <3>2, FS_Subset DEF Groups
    <3>4. CountOf(app) \in Nat
      BY <3>3, CountsOfPart
    <3> QED
      BY <3>1, <3>3, <3>4 DEF Groups
  <2>6. nc.clients[i].count >= 5 /\ nc.clients[i].idle > Day
    <3>1. nc.clients[i].count = c.count /\ nc.clients[i].idle = c.idle
      BY <1>2, <2>4 DEF IsFaithful
    <3>2. c.count \in Nat /\ c.idle \in Nat /\ Day \in Nat
      BY <2>5, IdleAssumption DEF Clients
    <3>3. CountOf(app) >= 5
      BY <1>3
    <3> HIDE DEF c, app, nc
    <3> QED
      BY <2>1, <2>5, <3>1, <3>2, <3>3
  <2>7. Severity(nc.clients[i]) = "critical" /\ i \in DOMAIN nc.clients
    BY <1>2, <2>4, <2>6 DEF Severity, IsFaithful
  <2>8. IsAdmin(nc.clients[i]) => TakenForAdmin(k, i)
    BY <1>3, <2>7, OnlyAdminsAreTaken
  <2> QED
    BY <2>7, <2>8, SuspiciousIsShown
<1> QED
  BY <1>1, <1>3

LEMMA LongIdleIsShown == MonitorInv => IdleIsExplained
<1> SUFFICES ASSUME MonitorInv, Analysed, NEW i \in DOMAIN Merged, Merged[i].idle > Hour
             PROVE  \E k \in ReadFrom(i) : /\ Severity(request.results[k].clients[i]) # "none"
                                           /\ Shown(k, i) \/ TakenForAdmin(k, i)
  BY DEF IdleIsExplained
<1> DEFINE read == ReadFrom(i)
           idleOf == [k \in read |-> request.results[k].clients[i].idle]
           idles == {request.results[k].clients[i].idle : k \in read}
<1>1. i \in IPs /\ read # {} /\ Merged[i].idle = Max(idles)
  BY DEF Merged
<1>2. read \in SUBSET DOMAIN request.results /\ IsFiniteSet(read)
  <2>1. request.results \in Seq(Reads)
    BY DEF MonitorInv, RequestForConnections
  <2> DEFINE n == Len(request.results)
  <2>2. n \in Nat /\ DOMAIN request.results = 1..n
    BY <2>1
  <2>3. IsFiniteSet(1..n)
    <3> HIDE DEF n
    <3> QED
      BY <2>2, IndexesAreFinite
  <2>4. read \in SUBSET DOMAIN request.results
    BY DEF ReadFrom
  <2> HIDE DEF read
  <2> QED
    BY <2>2, <2>3, <2>4, FS_Subset
<1>3. \A k \in read : /\ k \in DOMAIN request.results /\ i \in DOMAIN request.results[k].clients
                      /\ request.results[k].clients[i] \in Clients
                      /\ IsAdmin(request.results[k].clients[i]) => TakenForAdmin(k, i)
  BY OnlyAdminsAreTaken DEF ReadFrom
<1>4. \A k \in read : request.results[k].clients[i].idle \in Nat /\ request.results[k].clients[i].count \in Nat
  BY <1>3 DEF Clients
<1>5. idleOf \in [read -> Nat] /\ idles = {idleOf[k] : k \in read}
  <2> HIDE DEF read
  <2> QED
    BY <1>4
<1>6. Max(idles) \in idles
  <2> HIDE DEF read, idleOf, idles
  <2> QED
    BY <1>1, <1>2, <1>5, MaxIsLargest
<1>7. PICK k \in read : request.results[k].clients[i].idle > Hour
  BY <1>1, <1>6
<1>8. Severity(request.results[k].clients[i]) # "none"
  BY <1>7 DEF Severity
<1>9. Shown(k, i) \/ TakenForAdmin(k, i)
  BY <1>1, <1>3, <1>8, SuspiciousIsShown
<1> QED
  BY <1>8, <1>9

-----------------------------------------------------------------------------
LEMMA MonitorCases ==
  ASSUME MonitorNext
  PROVE  \/ \E i \in IPs : Forget(i) /\ UNCHANGED request
         \/ \E i \in IPs, p \in Pods : Gain(p, i) /\ UNCHANGED request
         \/ \E i \in IPs, p \in Pods : Learn(p, i) /\ UNCHANGED request
         \/ Resolve \/ Unresolved \/ Fetch \/ FetchFails \/ Enrich \/ NodeDone \/ Respond
BY DEF MonitorNext, DirectoryNext

\* What was said of a pod stays true: what a pod has had is never taken back.
LEMMA DirectoryMoves ==
  ASSUME MonitorInv, DirectoryInv', held \subseteq held', UNCHANGED request
  PROVE  MonitorInv'
<1>1. ASSUME NEW k \in DOMAIN request.results PROVE IsFaithful(request.results[k], held)'
  BY <1>1 DEF MonitorInv, IsFaithful
<1>2. MonitorCourse'
  BY DEF MonitorInv, MonitorCourse, Analysed
<1> QED
  BY <1>1, <1>2 DEF MonitorInv

LEMMA NextMonitorInv == MonitorInv /\ [MonitorNext]_monitorVars => MonitorInv'
<1> SUFFICES ASSUME MonitorInv, [MonitorNext]_monitorVars PROVE MonitorInv'
  OBVIOUS
<1>1. CASE UNCHANGED monitorVars
  BY <1>1, DirectoryMoves DEF MonitorInv, DirectoryInv, monitorVars, directoryVars
<1>2. ASSUME NEW i \in IPs, Forget(i), UNCHANGED request PROVE MonitorInv'
  <2>1. DirectoryInv' /\ held \subseteq held'
    BY <1>2 DEF Forget, MonitorInv, DirectoryInv
  <2> QED
    BY <1>2, <2>1, DirectoryMoves
<1>3. ASSUME NEW i \in IPs, NEW p \in Pods, Gain(p, i), UNCHANGED request PROVE MonitorInv'
  <2>1. DirectoryInv' /\ held \subseteq held'
    BY <1>3 DEF Gain, MonitorInv, DirectoryInv
  <2> QED
    BY <1>3, <2>1, DirectoryMoves
<1>4. ASSUME NEW i \in IPs, NEW p \in Pods, Learn(p, i), UNCHANGED request PROVE MonitorInv'
  <2>1. DirectoryInv' /\ held \subseteq held'
    BY <1>4 DEF Learn, MonitorInv, DirectoryInv
  <2> QED
    BY <1>4, <2>1, DirectoryMoves
<1>5. CASE Resolve
  <2>1. PICK m \in MonitoredNodes, rs \in SUBSET MonitoredNodes :
          LET jobs == {[node |-> m, role |-> "master"]} \cup [node : rs, role : {"replica"}] IN
          request' = [request EXCEPT !.pc = "fetch", !.jobs = jobs, !.left = jobs]
    BY <1>5 DEF Resolve
  <2> DEFINE jobs == {[node |-> m, role |-> "master"]} \cup [node : rs, role : {"replica"}]
  <2>2. jobs \in SUBSET Jobs
    BY DEF Jobs
  <2> HIDE DEF jobs
  <2>3. request \in RequestForConnections /\ request.pc = "start"
    BY <1>5 DEF MonitorInv, Resolve
  <2>4. request' = [request EXCEPT !.pc = "fetch", !.jobs = jobs, !.left = jobs]
    BY <2>1 DEF jobs
  <2>5. request' \in RequestForConnections
    BY <2>2, <2>3, <2>4 DEF RequestForConnections
  <2>6. /\ request'.pc = "fetch" /\ request'.jobs = jobs /\ request'.left = jobs
        /\ request'.failed = {} /\ request'.results = << >> /\ request'.status = "none"
    BY <2>3, <2>4 DEF RequestForConnections, MonitorInv, MonitorCourse
  <2>7. MonitorCourse'
    BY <2>6 DEF MonitorCourse, Analysed
  <2>8. DirectoryInv'
    BY <1>5 DEF Resolve, directoryVars, MonitorInv, DirectoryInv
  <2> QED
    BY <2>5, <2>6, <2>7, <2>8 DEF MonitorInv
<1>6. CASE Unresolved
  <2>1. request' = [request EXCEPT !.pc = "end", !.status = "error"] /\ UNCHANGED <<cache, held>>
        /\ request \in RequestForConnections /\ request.pc = "start"
    BY <1>6 DEF Unresolved, directoryVars, MonitorInv
  <2>2. request' \in RequestForConnections
    BY <2>1 DEF RequestForConnections
  <2>3. /\ request'.pc = "end" /\ request'.jobs = {} /\ request'.left = {}
        /\ request'.failed = {} /\ request'.results = << >> /\ request'.status = "error"
    BY <2>1 DEF RequestForConnections, MonitorInv, MonitorCourse
  <2>4. MonitorCourse'
    BY <2>3 DEF MonitorCourse, Analysed
  <2>5. DirectoryInv'
    BY <2>1 DEF MonitorInv, DirectoryInv
  <2> QED
    BY <2>2, <2>3, <2>4, <2>5 DEF MonitorInv
<1>7. CASE Fetch
  <2>1. PICK job \in request.left, listing \in Listings :
          request' = [request EXCEPT
            !.pc = "enrich",
            !.left = @ \ {job},
            !.results = Append(@, [job |-> job, listing |-> listing,
                                   clients |-> [i \in From(listing) |-> ClientOf(i, listing)]]),
            !.unnamed = From(listing)]
    BY <1>7 DEF Fetch, From
  <2> DEFINE clients == [i \in From(listing) |-> ClientOf(i, listing)]
             nc == [job |-> job, listing |-> listing, clients |-> clients]
  <2>2. /\ \A i \in From(listing) : i \in IPs /\ ClientOf(i, listing) \in Clients
        /\ \A i \in From(listing) : ClientOf(i, listing).pod = Nobody
    BY ClientIsTyped
  <2>3. /\ request \in RequestForConnections /\ request.pc = "fetch" /\ UNCHANGED <<cache, held>>
        /\ request.results \in Seq(Reads) /\ request.left \subseteq Jobs
    BY <1>7 DEF Fetch, directoryVars, MonitorInv, RequestForConnections
  <2>4. clients \in [From(listing) -> Clients] /\ From(listing) \in SUBSET IPs /\ DOMAIN clients = From(listing)
    BY <2>2
  <2>5. \A i \in From(listing) : clients[i] = ClientOf(i, listing)
    OBVIOUS
  <2> HIDE DEF clients
  <2>6. nc \in Reads
    BY <2>1, <2>3, <2>4 DEF Reads
  <2>7. nc.job = job /\ nc.listing = listing /\ nc.clients = clients
    OBVIOUS
  <2>8. request' = [request EXCEPT !.pc = "enrich", !.left = @ \ {job}, !.results = Append(@, nc),
                                   !.unnamed = From(listing)]
    BY <2>1 DEF clients
  <2> HIDE DEF nc
  <2> DEFINE results == request.results
             n == Len(results)
  <2>9. /\ Append(results, nc) \in Seq(Reads) /\ Len(Append(results, nc)) = n + 1 /\ n \in Nat
        /\ DOMAIN results = 1..n /\ DOMAIN Append(results, nc) = 1..(n + 1)
        /\ Append(results, nc)[n + 1] = nc /\ Append(results, nc) # << >>
        /\ \A k \in 1..n : k \in 1..(n + 1) /\ Append(results, nc)[k] = results[k]
    BY <2>3, <2>6
  <2>10. request' \in RequestForConnections
    BY <2>3, <2>4, <2>8, <2>9 DEF RequestForConnections
  <2>11. /\ request'.pc = "enrich" /\ request'.left = request.left \ {job} /\ request'.results = Append(results, nc)
         /\ request'.unnamed = From(listing) /\ request'.jobs = request.jobs /\ request'.failed = request.failed
         /\ request'.status = request.status
    BY <2>3, <2>8 DEF RequestForConnections
  <2>12. IsFaithful(nc, held)'
    BY <2>2, <2>4, <2>5, <2>7 DEF IsFaithful
  <2>13. ASSUME NEW k \in DOMAIN request'.results PROVE IsFaithful(request.results[k], held)'
    <3>1. CASE k = n + 1
      BY <2>9, <2>11, <2>12, <3>1
    <3>2. CASE k # n + 1
      <4>1. k \in DOMAIN results /\ request'.results[k] = results[k]
        BY <2>9, <2>11, <3>2
      <4>2. IsFaithful(results[k], held)
        BY <4>1 DEF MonitorInv
      <4> QED
        BY <2>3, <4>1, <4>2 DEF IsFaithful
    <3> QED
      BY <3>1, <3>2
  <2>14. MonitorCourse'
    <3> HIDE DEF results, n
    <3>1. MonitorCourse /\ DOMAIN results = DOMAIN request.results /\ results = request.results /\ n + 1 \in 1..(n + 1)
      BY <2>9 DEF MonitorInv, results
    <3>2. ASSUME NEW j \in request'.jobs
          PROVE  \/ j \in request'.left \cup request'.failed
                 \/ \E k \in DOMAIN request'.results : request'.results[k].job = j
      <4>1. CASE j = job
        BY <2>7, <2>9, <2>11, <3>1, <4>1
      <4>2. CASE j # job
        <5>1. j \in request.left \cup request.failed \/ \E k \in DOMAIN request.results : request.results[k].job = j
          BY <2>11, <3>1 DEF MonitorCourse
        <5> QED
          BY <2>9, <2>11, <3>1, <4>2, <5>1
      <4> QED
        BY <4>1, <4>2
    <3>3. request'.results # << >> /\ request'.unnamed \subseteq DOMAIN request'.results[Len(request'.results)].clients
      BY <2>4, <2>7, <2>9, <2>11
    <3>4. request'.status = "none"
      BY <2>3, <2>11, <3>1 DEF MonitorCourse
    <3>5. request'.left \subseteq request'.jobs /\ request'.failed \subseteq request'.jobs \ request'.left
      BY <2>11, <3>1 DEF MonitorCourse
    <3> QED
      BY <2>11, <3>2, <3>3, <3>4, <3>5 DEF MonitorCourse, Analysed
  <2>15. DirectoryInv'
    BY <2>3 DEF MonitorInv, DirectoryInv
  <2> QED
    BY <2>10, <2>13, <2>14, <2>15 DEF MonitorInv
<1>8. CASE FetchFails
  <2>1. PICK job \in request.left : request' = [request EXCEPT !.left = @ \ {job}, !.failed = @ \cup {job}]
    BY <1>8 DEF FetchFails
  <2>2. /\ request \in RequestForConnections /\ request.pc = "fetch" /\ UNCHANGED <<cache, held>>
        /\ request.left \subseteq Jobs
    BY <1>8 DEF FetchFails, directoryVars, MonitorInv, RequestForConnections
  <2>3. request' \in RequestForConnections
    BY <2>1, <2>2 DEF RequestForConnections
  <2>4. /\ request'.pc = "fetch" /\ request'.left = request.left \ {job} /\ request'.results = request.results
        /\ request'.jobs = request.jobs /\ request'.failed = request.failed \cup {job}
        /\ request'.status = request.status
    BY <2>1, <2>2 DEF RequestForConnections
  <2>5. MonitorCourse'
    BY <2>2, <2>4 DEF MonitorInv, MonitorCourse, Analysed
  <2>6. \A k \in DOMAIN request.results : IsFaithful(request.results[k], held)'
    BY <2>2, <2>4 DEF MonitorInv, IsFaithful
  <2>7. DirectoryInv'
    BY <2>2 DEF MonitorInv, DirectoryInv
  <2> QED
    BY <2>3, <2>4, <2>5, <2>6, <2>7 DEF MonitorInv
<1>9. CASE Enrich
  <2>1. PICK i \in request.unnamed :
          request' = [request EXCEPT !.results[Len(request.results)].clients[i].pod = LookupEnriched(i),
                                     !.unnamed = @ \ {i}]
    BY <1>9 DEF Enrich
  <2> DEFINE results == request.results
             n == Len(results)
             nc == results[n]
             c == [nc.clients[i] EXCEPT !.pod = cache[i]]
             clients == [nc.clients EXCEPT ![i] = c]
             named == [nc EXCEPT !.clients = clients]
             after == [results EXCEPT ![n] = named]
  <2>2. /\ request \in RequestForConnections /\ request.pc = "enrich" /\ UNCHANGED <<cache, held>>
        /\ results \in Seq(Reads) /\ results # << >> /\ i \in DOMAIN nc.clients /\ i \in IPs
        /\ cache[i] \in Pods \cup {Nobody} /\ (cache[i] = Nobody \/ <<cache[i], i>> \in held)
    BY <1>9 DEF Enrich, directoryVars, MonitorInv, DirectoryInv, MonitorCourse, RequestForConnections
  <2>3. request' = [request EXCEPT !.results = after, !.unnamed = @ \ {i}]
    BY <2>1 DEF LookupEnriched
  <2>4. n \in 1..n /\ n \in Nat /\ DOMAIN results = 1..n /\ nc \in Reads
    BY <2>2
  <2>5. IsFaithful(nc, held)
    BY <2>4 DEF MonitorInv
  <2> HIDE DEF nc
  <2>6. /\ nc.clients \in [From(nc.listing) -> Clients] /\ i \in From(nc.listing)
        /\ From(nc.listing) \in SUBSET IPs /\ nc.job \in Jobs /\ nc.listing \in Listings
    BY <2>2, <2>4, <2>5 DEF Reads, IsFaithful
  <2>7. c \in Clients /\ c.count = nc.clients[i].count /\ c.idle = nc.clients[i].idle /\ c.pod = cache[i]
    BY <2>2, <2>6 DEF Clients
  <2> HIDE DEF c
  <2>8. /\ clients \in [From(nc.listing) -> Clients] /\ clients[i] = c
        /\ \A h \in From(nc.listing) : h # i => clients[h] = nc.clients[h]
    BY <2>6, <2>7
  <2> HIDE DEF clients
  <2>9. named \in Reads /\ named.job = nc.job /\ named.listing = nc.listing /\ named.clients = clients
    BY <2>4, <2>6, <2>8 DEF Reads
  <2> HIDE DEF named
  <2>10. IsFaithful(named, held')
    <3>1. DOMAIN named.clients = From(named.listing)
      BY <2>8, <2>9
    <3>2. ASSUME NEW h \in From(named.listing)
          PROVE  /\ named.clients[h].count = ClientOf(h, named.listing).count
                 /\ named.clients[h].idle = ClientOf(h, named.listing).idle
                 /\ named.clients[h].pod = Nobody \/ <<named.clients[h].pod, h>> \in held'
      <4>1. CASE h = i
        BY <2>2, <2>5, <2>7, <2>8, <2>9, <4>1 DEF IsFaithful
      <4>2. CASE h # i
        BY <2>2, <2>5, <2>8, <2>9, <4>2 DEF IsFaithful
      <4> QED
        BY <4>1, <4>2
    <3> QED
      BY <3>1, <3>2 DEF IsFaithful
  <2>11. /\ after \in Seq(Reads) /\ Len(after) = n /\ DOMAIN after = 1..n /\ after # << >> /\ after[n] = named
         /\ \A k \in 1..n : k # n => after[k] = results[k]
    <3>1. after \in Seq(Reads) /\ Len(after) = n /\ DOMAIN after = 1..n
      BY <2>2, <2>4, <2>9
    <3>2. after[n] = named /\ \A k \in 1..n : k # n => after[k] = results[k]
      BY <2>4
    <3>3. after # << >>
      BY <2>4, <3>1
    <3> QED
      BY <3>1, <3>2, <3>3
  <2> HIDE DEF after
  <2>12. request' \in RequestForConnections
    BY <2>2, <2>3, <2>11 DEF RequestForConnections
  <2>13. /\ request'.pc = "enrich" /\ request'.left = request.left /\ request'.results = after
         /\ request'.unnamed = request.unnamed \ {i} /\ request'.jobs = request.jobs
         /\ request'.failed = request.failed /\ request'.status = request.status
    BY <2>2, <2>3 DEF RequestForConnections
  <2>14. ASSUME NEW k \in DOMAIN request'.results PROVE IsFaithful(request.results[k], held)'
    <3>1. CASE k = n
      BY <2>10, <2>11, <2>13, <3>1
    <3>2. CASE k # n
      <4>1. k \in DOMAIN results /\ request'.results[k] = results[k]
        BY <2>4, <2>11, <2>13, <3>2
      <4>2. IsFaithful(results[k], held)
        BY <4>1 DEF MonitorInv
      <4> QED
        BY <2>2, <4>1, <4>2 DEF IsFaithful
    <3> QED
      BY <3>1, <3>2
  <2>15. MonitorCourse'
    <3>1. MonitorCourse /\ request.unnamed \subseteq DOMAIN nc.clients
      BY <2>2 DEF MonitorInv, MonitorCourse, nc
    <3>2. \A k \in DOMAIN results : k \in DOMAIN after /\ after[k].job = results[k].job
      BY <2>4, <2>9, <2>11 DEF nc
    <3>3. request'.unnamed \subseteq DOMAIN after[Len(after)].clients
      BY <2>6, <2>8, <2>9, <2>11, <2>13, <3>1
    <3> QED
      BY <2>2, <2>11, <2>13, <3>1, <3>2, <3>3 DEF MonitorCourse, Analysed
  <2>16. DirectoryInv'
    BY <2>2 DEF MonitorInv, DirectoryInv
  <2> QED
    BY <2>12, <2>14, <2>15, <2>16 DEF MonitorInv
<1>10. CASE NodeDone
  <2>1. request' = [request EXCEPT !.pc = "fetch"] /\ UNCHANGED <<cache, held>>
        /\ request \in RequestForConnections /\ request.pc = "enrich"
    BY <1>10 DEF NodeDone, directoryVars, MonitorInv
  <2>2. request' \in RequestForConnections
    BY <2>1 DEF RequestForConnections
  <2>3. /\ request'.pc = "fetch" /\ request'.left = request.left /\ request'.results = request.results
        /\ request'.jobs = request.jobs /\ request'.failed = request.failed
        /\ request'.status = request.status
    BY <2>1 DEF RequestForConnections
  <2>4. MonitorCourse'
    BY <2>1, <2>3 DEF MonitorInv, MonitorCourse, Analysed
  <2>5. \A k \in DOMAIN request.results : IsFaithful(request.results[k], held)'
    BY <2>1, <2>3 DEF MonitorInv, IsFaithful
  <2>6. DirectoryInv'
    BY <2>1 DEF MonitorInv, DirectoryInv
  <2> QED
    BY <2>2, <2>3, <2>4, <2>5, <2>6 DEF MonitorInv
<1>11. CASE Respond
  <2>1. request' = [request EXCEPT !.pc = "end", !.status = Status] /\ UNCHANGED <<cache, held>>
        /\ request \in RequestForConnections /\ request.pc = "fetch" /\ request.left = {}
    BY <1>11 DEF Respond, directoryVars, MonitorInv
  <2>2. request' \in RequestForConnections
    BY <2>1 DEF RequestForConnections, Status
  <2>3. /\ request'.pc = "end" /\ request'.left = {} /\ request'.results = request.results
        /\ request'.jobs = request.jobs /\ request'.failed = request.failed
        /\ request'.status = Status /\ request'.kind = request.kind
    BY <2>1 DEF RequestForConnections
  <2>4. MonitorCourse'
    BY <2>1, <2>3 DEF MonitorInv, MonitorCourse, Analysed, Status
  <2>5. \A k \in DOMAIN request.results : IsFaithful(request.results[k], held)'
    BY <2>1, <2>3 DEF MonitorInv, IsFaithful
  <2>6. DirectoryInv'
    BY <2>1 DEF MonitorInv, DirectoryInv
  <2> QED
    BY <2>2, <2>3, <2>4, <2>5, <2>6 DEF MonitorInv
<1> QED
  BY <1>1, <1>2, <1>3, <1>4, <1>5, <1>6, <1>7, <1>8, <1>9, <1>10, <1>11, MonitorCases

LEMMA MonitorInvariance == MonitorSpec => []MonitorInv
<1>1. MonitorInit => MonitorInv
  <2> SUFFICES ASSUME MonitorInit PROVE MonitorInv
    OBVIOUS
  <2>1. DirectoryInv
    BY DEF MonitorInit, DirectoryInit, DirectoryInv
  <2>2. PICK k \in {"connections", "analysis"} :
          request = [pc |-> "start", kind |-> k, jobs |-> {}, left |-> {}, failed |-> {},
                     results |-> << >>, unnamed |-> {}, status |-> "none"]
    BY DEF MonitorInit
  <2>3. << >> \in Seq(Reads) /\ DOMAIN << >> = {}
    OBVIOUS
  <2>4. request \in RequestForConnections /\ request.results = << >>
    BY <2>2, <2>3 DEF RequestForConnections
  <2>5. MonitorCourse
    BY <2>2 DEF MonitorCourse, Analysed
  <2> QED
    BY <2>1, <2>3, <2>4, <2>5 DEF MonitorInv
<1> QED
  BY <1>1, NextMonitorInv, PTL DEF MonitorSpec

\* For any pods, addresses and listings, whatever the pod cache forgets and learns
\* meanwhile: the results of a request are nodes it was to read, with clients of theirs.
THEOREM MonitorTypesHold == MonitorSpec => []MonitorTypeOK
<1>1. MonitorInv => MonitorTypeOK
  <2> SUFFICES ASSUME MonitorInv PROVE MonitorTypeOK
    OBVIOUS
  <2>1. request \in RequestForConnections /\ DirectoryInv /\ MonitorCourse /\ request.results \in Seq(Reads)
    BY DEF MonitorInv, RequestForConnections
  <2>2. \A k \in DOMAIN request.results : request.results[k] \in Reads
    BY <2>1
  <2>3. ASSUME NEW nc \in Reads PROVE IsNodeResult(nc)
    BY DEF Reads, IsNodeResult
  <2> QED
    BY <2>1, <2>2, <2>3 DEF MonitorTypeOK, RequestForConnections, DirectoryInv, MonitorCourse
<1> QED
  BY <1>1, MonitorInvariance, PTL

\* For any listings of any number of connections: an analysis that is answered shows a leak
\* on any node as critical, since the sum over all the connections of an address is no less
\* than that over some of them, or leaves it out for an admin tool that has had its address.
THEOREM LeaksAreShown == MonitorSpec => []NoLeakOverlooked
BY MonitorInvariance, LeaksAreSeen, PTL

\* For any listings: the longest idle time of a client merged over the nodes is the one it
\* has on some node, where it is shown, or left out for an admin tool that has had its address.
THEOREM LongIdleTimesAreShown == MonitorSpec => []IdleIsExplained
BY MonitorInvariance, LongIdleIsShown, PTL
=============================================================================
