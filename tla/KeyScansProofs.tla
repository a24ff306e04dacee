--------------------------- MODULE KeyScansProofs ---------------------------
(***************************************************************************)
(* Proofs about KeyScans, for any finite set of replicas, any keys and     *)
(* values, and any number of batches and changes.                          *)
(***************************************************************************)
EXTENDS KeyScans, FiniteSetTheorems, TLAPS

-----------------------------------------------------------------------------
(* The walk over the targets: what holds of the iteration, whatever the    *)
(* job is.                                                                 *)

Walking == pc \in {"scan", "keys"}

\* There is a node to ask as long as the request asks.
HasATarget == Walking <=> targets # << >>

\* No node is visited again.
TargetsDiffer == \A i, j \in DOMAIN targets : i # j => targets[i] # targets[j]

\* SCAN is called with nothing left to process, and ends owing nothing.
NothingLost == (pc = "scan" => batch = {}) /\ (last => due = {})

\* Before the first node nothing was found, and after the last one nothing is pending.
NothingFound ==
  /\ ~Walking => result = NoCounts
  /\ pc = "resolve" => all = [n \in Nodes |-> NoCounts] /\ seen = {} /\ over = {}
  /\ pc # "end" => status = "none"

WalkInv == HasATarget /\ TargetsDiffer /\ NothingLost /\ NothingFound

-----------------------------------------------------------------------------
(* NoKeyTwice: a lock that was counted is marked, and a marked one is not  *)
(* counted again.                                                          *)

\* What the current node reported no node before it did.
CurrentOnce ==
  \A k \in Keys : result[k] > 0 => k \in seen /\ result[k] = 1 /\ \A n \in Nodes : all[n][k] = 0

\* What a node reported is marked, and that node is not among those left.
EarlierOnce ==
  \A n \in Nodes, k \in Keys : all[n][k] > 0 =>
    /\ k \in seen /\ all[n][k] = 1
    /\ \A i \in DOMAIN targets : targets[i] # n

OnceInv == job = "locks" => CurrentOnce /\ EarlierOnce /\ NoKeyTwice

-----------------------------------------------------------------------------
(* StaleIsReported: what became of a lock that stayed over the threshold.  *)

\* It still is over it on every node that is left.
OverIsOver == \A k \in over, i \in DOMAIN targets : value[targets[i]][k] > threshold

\* The current node has returned it, or SCAN owes it.
OverIsComing == Walking => over \subseteq seen \cup due \cup batch

\* Once it was marked, it was reported, could not be read, or the node failed.
OverIsKept ==
  over \cap seen \subseteq unread \cup dropped \cup Reported \cup {k \in Keys : result[k] > 0}

\* After the first node that was scanned to the end they all are marked; before, there
\* is nothing to answer with, and after the last node the request fails.
OverIsMarked ==
  \/ over \subseteq seen
  \/ (\A n \in Nodes : all[n] = NoCounts) /\ (pc = "answer" => failed # {}) /\ status # "ok"

StaleInv ==
  (job = "locks" /\ threshold > 0 /\ pc # "resolve") =>
    OverIsOver /\ OverIsComing /\ OverIsKept /\ OverIsMarked

-----------------------------------------------------------------------------
(* LastingIsCounted: what became of a key that stayed.                     *)

\* It still is what the job is after, and SCAN owes it, or it was returned, and then
\* counted unless it could not be read.
SteadyIsComing ==
  Walking => \A k \in steady :
    /\ IsWanted(value[Head(targets)][k])
    /\ k \in due \cup batch \cup unread \/ result[k] > 0

LastingInv == job \in {"bigkeys", "ttl"} => SteadyIsComing /\ (job = "bigkeys" => threshold > 0)

-----------------------------------------------------------------------------
(* Lemmas about the steps.                                                 *)

\* Each disjunct of Next, one name for each action.
LEMMA NextCases ==
  ASSUME Next
  PROVE  \/ Resolve \/ ResolveFails
         \/ Scan \/ PolicyFails \/ NodeFails
         \/ \E k \in Keys : Process(k)
         \/ NextBatch \/ NodeDone \/ Answer
         \/ \E n \in Nodes, k \in Keys : Change(n, k)
         \/ UNCHANGED vars
BY DEF Next, Quiescent

\* Sentinel's answer names at least one node, and none twice.
LEMMA OrdersAreTargets ==
  ASSUME NEW nodes \in SUBSET Nodes, nodes # {}, NEW s \in Orders(nodes)
  PROVE  /\ s \in Seq(Nodes) /\ s # << >>
         /\ \A i \in DOMAIN s : s[i] \in nodes
         /\ \A i, j \in DOMAIN s : i # j => s[i] # s[j]
<1>1. IsFiniteSet(nodes)
  <2>1. IsFiniteSet(Nodes)
    BY MasterAssumption, FS_AddElement DEF Nodes
  <2> QED
    BY <2>1, FS_Subset
<1>2. Cardinality(nodes) \in Nat /\ Cardinality(nodes) # 0
  BY <1>1, FS_CardinalityType, FS_EmptySet
<1>3. /\ s \in [1..Cardinality(nodes) -> nodes]
      /\ \A i, j \in DOMAIN s : i # j => s[i] # s[j]
  BY DEF Orders
<1>4. s \in Seq(Nodes)
  BY <1>2, <1>3
<1>5. s # << >>
  BY <1>2, <1>3
<1> QED
  BY <1>3, <1>4, <1>5

\* What is left after the first node.
LEMMA TailOfTargets ==
  ASSUME NEW s \in Seq(Nodes), s # << >>
  PROVE  /\ Head(s) \in Nodes /\ Head(s) = s[1] /\ 1 \in DOMAIN s
         /\ Tail(s) \in Seq(Nodes)
         /\ \A i \in DOMAIN Tail(s) : i \in Nat /\ i >= 1 /\ i + 1 \in DOMAIN s /\ Tail(s)[i] = s[i + 1]
OBVIOUS

LEMMA VisitType ==
  ASSUME TypeOK, NEW nodes \in Seq(Nodes), Visit(nodes)
  PROVE  /\ targets' \in Seq(Nodes) /\ pc' \in {"scan", "answer"}
         /\ due' \subseteq Keys /\ steady' \subseteq Keys
         /\ scans' \in 0..MaxScans /\ batch' = {} /\ last' \in BOOLEAN /\ result' \in Counts
         /\ unread' \in {unread, {}} /\ (job = "locks" => unread' = unread)
<1>1. NoCounts \in Counts /\ 0 \in 0..MaxScans
  BY BoundsAssumption DEF NoCounts, Counts
<1>2. due' \subseteq Keys /\ steady' \subseteq Keys
  BY DEF Visit, Present
<1>3. unread' \in {unread, {}} /\ (job = "locks" => unread' = unread)
  BY DEF Visit
<1> QED
  BY <1>1, <1>2, <1>3 DEF Visit

LEMMA InitTypeOK == Init => TypeOK
<1> SUFFICES ASSUME Init PROVE TypeOK
  OBVIOUS
<1>1. threshold \in Nat
  BY StaleAssumption, BigAssumption DEF Init
<1>2. targets \in Seq(Nodes)
  BY DEF Init
<1>3. value \in [Nodes -> [Keys -> ValuesOf(job)]]
  BY DEF Init
<1>4. result \in Counts /\ all \in [Nodes -> Counts]
  BY DEF Init, NoCounts, Counts
<1>5. changes \in 0..MaxChanges /\ scans \in 0..MaxScans
  BY BoundsAssumption DEF Init
<1>6. unread = {} /\ dropped = {} /\ over = {} /\ forever = {} /\ steady = {}
  BY DEF Init
<1> QED
  BY <1>1, <1>2, <1>3, <1>4, <1>5, <1>6 DEF Init, TypeOK

LEMMA NextTypeOK == TypeOK /\ WalkInv /\ [Next]_vars => TypeOK'
<1> SUFFICES ASSUME TypeOK, WalkInv, [Next]_vars PROVE TypeOK'
  OBVIOUS
<1> DEFINE H == Head(targets)
<1>0. ASSUME Walking PROVE H \in Nodes /\ Tail(targets) \in Seq(Nodes)
  BY <1>0, TailOfTargets DEF WalkInv, HasATarget, TypeOK
<1>1. CASE Resolve
  <2>1. PICK replicas \in SUBSET Replicas :
          \E s \in Orders(IF replicas = {} THEN {Master} ELSE replicas) : Visit(s)
    BY <1>1 DEF Resolve
  <2> DEFINE nodes == IF replicas = {} THEN {Master} ELSE replicas
  <2>2. PICK s \in Orders(nodes) : Visit(s)
    BY <2>1
  <2>3. s \in Seq(Nodes)
    <3>1. nodes \in SUBSET Nodes /\ nodes # {}
      BY DEF Nodes
    <3> QED
      BY <3>1, OrdersAreTargets
  <2>4. over' \subseteq Keys /\ forever' \subseteq Keys
    BY <1>1 DEF Resolve
  <2> HIDE DEF nodes
  <2>5. /\ UNCHANGED <<keyVars, request, seen, answer, dropped>>
        /\ job = "locks" => unread' = unread
    BY <1>1, <2>2, <2>3, VisitType DEF Resolve
  <2> QED
    BY <2>2, <2>3, <2>4, <2>5, VisitType DEF TypeOK, ValuesOf, keyVars, request, answer
<1>2. CASE ResolveFails
  BY <1>2 DEF ResolveFails, TypeOK, ValuesOf, keyVars, request, scanVars, history, lasting
<1>3. CASE Scan
  <2>1. H \in Nodes
    BY <1>0, <1>3 DEF Scan, Walking
  <2>2. batch' \subseteq Keys /\ due' \subseteq Keys /\ last' \in BOOLEAN /\ batch' \cap due' = {}
    BY <1>3 DEF Scan, Present, TypeOK
  <2>3. scans' \in 0..MaxScans
    BY <1>3, BoundsAssumption DEF Scan, TypeOK
  <2> QED
    BY <1>3, <2>2, <2>3 DEF Scan, TypeOK, ValuesOf, keyVars, request, answer, history, lasting
<1>4. CASE PolicyFails
  <2>1. H \in Nodes /\ Tail(targets) \in Seq(Nodes) /\ Visit(Tail(targets))
    BY <1>0, <1>4 DEF PolicyFails, Walking
  <2> QED
    BY <1>4, <2>1, VisitType DEF PolicyFails, TypeOK, ValuesOf, keyVars, request
<1>5. CASE NodeFails
  <2>1. H \in Nodes /\ Tail(targets) \in Seq(Nodes) /\ Visit(Tail(targets))
    BY <1>0, <1>5 DEF NodeFails, Walking
  <2>2. all' \in [Nodes -> Counts]
    BY <1>5 DEF NodeFails, TypeOK, Kept, NoCounts, Counts
  <2>3. dropped' \subseteq Keys
    BY <1>5 DEF NodeFails, TypeOK
  <2> QED
    BY <1>5, <2>1, <2>2, <2>3, VisitType DEF NodeFails, TypeOK, ValuesOf, keyVars, request
<1>6. ASSUME NEW k \in Keys, Process(k) PROVE TypeOK'
  <2>1. result' \in Counts
    <3>1. result' = result \/ result' = [result EXCEPT ![k] = @ + 1]
      BY <1>6 DEF Process
    <3>2. result \in [Keys -> Nat] /\ result[k] + 1 \in Nat
      BY DEF TypeOK, Counts
    <3> QED
      BY <3>1, <3>2 DEF Counts
  <2>2. /\ noTTL' \subseteq Keys /\ seen' \subseteq Keys /\ unread' \subseteq Keys
        /\ job = "locks" => unread' \subseteq seen'
    BY <1>6 DEF Process, TypeOK
  <2> QED
    BY <1>6, <2>1, <2>2 DEF Process, TypeOK, ValuesOf, keyVars, request, lasting
<1>7. CASE NextBatch
  BY <1>7 DEF NextBatch, TypeOK, ValuesOf, keyVars, request, scanVars, answer, history, lasting
<1>8. CASE NodeDone
  <2>1. Tail(targets) \in Seq(Nodes) /\ Visit(Tail(targets))
    BY <1>0, <1>8 DEF NodeDone, Walking
  <2>2. all' \in [Nodes -> Counts]
    BY <1>8 DEF NodeDone, TypeOK
  <2> QED
    BY <1>8, <2>1, <2>2, VisitType DEF NodeDone, TypeOK, ValuesOf, keyVars, request
<1>9. CASE Answer
  BY <1>9 DEF Answer, TypeOK, ValuesOf, keyVars, request, scanVars, history, lasting
<1>10. ASSUME NEW n \in Nodes, NEW k \in Keys, Change(n, k) PROVE TypeOK'
  <2>1. value' \in [Nodes -> [Keys -> ValuesOf(job)]]
    BY <1>10 DEF Change, TypeOK
  <2>2. changes' \in 0..MaxChanges
    BY <1>10, BoundsAssumption DEF Change, TypeOK
  <2>3. /\ due' \subseteq due /\ over' \subseteq Keys /\ forever' \subseteq Keys /\ steady' \subseteq Keys
    BY <1>10 DEF Change, TypeOK
  <2> QED
    BY <1>10, <2>1, <2>2, <2>3 DEF Change, TypeOK, ValuesOf, request, answer
<1>11. CASE UNCHANGED vars
  BY <1>11 DEF vars, TypeOK, ValuesOf, keyVars, request, scanVars, answer, history, lasting
<1> QED
  BY <1>1, <1>2, <1>3, <1>4, <1>5, <1>6, <1>7, <1>8, <1>9, <1>10, <1>11, NextCases
-----------------------------------------------------------------------------
(* The walk.                                                               *)

\* While a node is asked, the nodes left are others, and differ.
LEMMA RestOfTheWalk ==
  ASSUME TypeOK, WalkInv, Walking
  PROVE  /\ targets # << >> /\ Head(targets) \in Nodes /\ Tail(targets) \in Seq(Nodes)
         /\ \E j \in DOMAIN targets : Head(targets) = targets[j]
         /\ \A i \in DOMAIN Tail(targets) :
              Tail(targets)[i] # Head(targets) /\ \E j \in DOMAIN targets : Tail(targets)[i] = targets[j]
         /\ \A i, j \in DOMAIN Tail(targets) : i # j => Tail(targets)[i] # Tail(targets)[j]
<1>1. targets \in Seq(Nodes) /\ targets # << >>
  BY DEF TypeOK, WalkInv, HasATarget
<1>2. /\ Head(targets) = targets[1] /\ 1 \in DOMAIN targets
      /\ \A i \in DOMAIN Tail(targets) :
           i \in Nat /\ i >= 1 /\ i + 1 \in DOMAIN targets /\ Tail(targets)[i] = targets[i + 1]
  BY <1>1, TailOfTargets
<1>3. \A i, j \in DOMAIN Tail(targets) : i # j => i + 1 # j + 1
  BY <1>2
<1>4. \A i \in DOMAIN Tail(targets) : i + 1 # 1
  BY <1>2
<1> QED
  BY <1>1, <1>2, <1>3, <1>4, TailOfTargets DEF WalkInv, TargetsDiffer

LEMMA VisitWalk ==
  ASSUME NEW nodes \in Seq(Nodes), Visit(nodes), status' = "none",
         \A i, j \in DOMAIN nodes : i # j => nodes[i] # nodes[j]
  PROVE  WalkInv'
BY DEF Visit, WalkInv, HasATarget, Walking, TargetsDiffer, NothingLost, NothingFound

LEMMA NextWalk == TypeOK /\ WalkInv /\ [Next]_vars => WalkInv'
<1> SUFFICES ASSUME TypeOK, WalkInv, [Next]_vars PROVE WalkInv'
  OBVIOUS
<1> USE DEF Walking
<1>1. CASE Resolve
  <2>1. PICK replicas \in SUBSET Replicas :
          \E s \in Orders(IF replicas = {} THEN {Master} ELSE replicas) : Visit(s)
    BY <1>1 DEF Resolve
  <2> DEFINE nodes == IF replicas = {} THEN {Master} ELSE replicas
  <2>2. PICK s \in Orders(nodes) : Visit(s)
    BY <2>1
  <2>3. nodes \in SUBSET Nodes /\ nodes # {}
    BY DEF Nodes
  <2> HIDE DEF nodes
  <2>4. s \in Seq(Nodes) /\ \A i, j \in DOMAIN s : i # j => s[i] # s[j]
    BY <2>3, OrdersAreTargets
  <2>5. status' = "none"
    BY <1>1 DEF Resolve, answer, WalkInv, NothingFound
  <2> QED
    BY <2>2, <2>4, <2>5, VisitWalk
<1>2. CASE PolicyFails \/ NodeFails \/ NodeDone
  <2>1. Walking /\ Visit(Tail(targets)) /\ status' = "none"
    BY <1>2 DEF PolicyFails, NodeFails, NodeDone, WalkInv, NothingFound
  <2> QED
    BY <2>1, RestOfTheWalk, VisitWalk
<1>3. CASE ResolveFails
  BY <1>3 DEF ResolveFails, scanVars, history, lasting,
              WalkInv, HasATarget, TargetsDiffer, NothingLost, NothingFound
<1>4. CASE Scan
  BY <1>4 DEF Scan, answer, history, lasting,
              WalkInv, HasATarget, TargetsDiffer, NothingLost, NothingFound
<1>5. ASSUME NEW k \in Keys, Process(k) PROVE WalkInv'
  BY <1>5 DEF Process, lasting,
              WalkInv, HasATarget, TargetsDiffer, NothingLost, NothingFound
<1>6. CASE NextBatch
  BY <1>6 DEF NextBatch, scanVars, answer, history, lasting,
              WalkInv, HasATarget, TargetsDiffer, NothingLost, NothingFound
<1>7. CASE Answer
  BY <1>7 DEF Answer, scanVars, history, lasting,
              WalkInv, HasATarget, TargetsDiffer, NothingLost, NothingFound
<1>8. ASSUME NEW n \in Nodes, NEW k \in Keys, Change(n, k) PROVE WalkInv'
  <2>1. due' \subseteq due /\ over' \subseteq over
    BY <1>8 DEF Change
  <2> QED
    BY <1>8, <2>1 DEF Change, answer,
              WalkInv, HasATarget, TargetsDiffer, NothingLost, NothingFound
<1>9. CASE UNCHANGED vars
  BY <1>9 DEF vars, keyVars, request, scanVars, answer, history, lasting,
              WalkInv, HasATarget, TargetsDiffer, NothingLost, NothingFound
<1> QED
  BY <1>1, <1>2, <1>3, <1>4, <1>5, <1>6, <1>7, <1>8, <1>9, NextCases

LEMMA InitWalk == Init => WalkInv
BY DEF Init, WalkInv, HasATarget, Walking, TargetsDiffer, NothingLost, NothingFound

LEMMA WalkInvariance == Spec => [](TypeOK /\ WalkInv)
BY InitTypeOK, InitWalk, NextTypeOK, NextWalk, PTL DEF Spec

\* The values, the walk over the targets and what was found have their types, and a
\* key is in a batch only once SCAN no longer owes it.
THEOREM TypeCorrect == Spec => []TypeOK
BY WalkInvariance, PTL
-----------------------------------------------------------------------------
(* No lock twice.                                                          *)

LEMMA InitOnce == Init => OnceInv
BY DEF Init, OnceInv, CurrentOnce, EarlierOnce, NoKeyTwice, NoCounts

\* When a node is left, what is kept of it was found on no node before.
LEMMA LeaveOnce ==
  ASSUME TypeOK, WalkInv, OnceInv, job = "locks", Walking, Visit(Tail(targets)),
         NEW kept \in {result, NoCounts}, all' = [all EXCEPT ![Head(targets)] = kept],
         UNCHANGED <<job, seen>>
  PROVE  OnceInv'
<1> DEFINE H == Head(targets)
<1>1. /\ H \in Nodes
      /\ \A i \in DOMAIN Tail(targets) : Tail(targets)[i] # H /\ \E j \in DOMAIN targets : Tail(targets)[i] = targets[j]
  BY RestOfTheWalk
<1>2. result' = NoCounts /\ targets' = Tail(targets)
  BY DEF Visit
<1>3. CurrentOnce'
  BY <1>2 DEF CurrentOnce, NoCounts
<1>4. \A n \in Nodes, k \in Keys : all'[n][k] = IF n = H THEN kept[k] ELSE all[n][k]
  BY <1>1 DEF TypeOK
<1>5. \A k \in Keys : kept[k] > 0 => result[k] > 0 /\ kept[k] = result[k]
  BY DEF NoCounts
<1>6. \A k \in Keys : kept[k] > 0 => k \in seen /\ kept[k] = 1 /\ \A n \in Nodes : all[n][k] = 0
  BY <1>5 DEF OnceInv, CurrentOnce
<1>7. EarlierOnce'
  <2> SUFFICES ASSUME NEW n \in Nodes, NEW k \in Keys, all'[n][k] > 0
               PROVE  k \in seen' /\ all'[n][k] = 1 /\ \A i \in DOMAIN targets' : targets'[i] # n
    BY DEF EarlierOnce
  <2>1. CASE n = H
    BY <1>1, <1>2, <1>4, <1>6, <2>1
  <2>2. CASE n # H
    BY <1>1, <1>2, <1>4, <2>2 DEF OnceInv, EarlierOnce
  <2> QED
    BY <2>1, <2>2
<1>8. NoKeyTwice'
  <2> SUFFICES ASSUME NEW k \in Keys, NEW n1 \in Nodes, NEW n2 \in Nodes, all'[n1][k] > 0, all'[n2][k] > 0
               PROVE  n1 = n2 /\ all'[n1][k] = 1
    BY DEF NoKeyTwice
  <2>1. all'[n1][k] = 1
    BY <1>7 DEF EarlierOnce
  <2>2. CASE n1 = H \/ n2 = H
    BY <1>4, <1>6, <2>2
  <2>3. CASE n1 # H /\ n2 # H
    BY <1>4, <2>3 DEF OnceInv, NoKeyTwice
  <2> QED
    BY <2>1, <2>2, <2>3
<1> QED
  BY <1>3, <1>7, <1>8 DEF OnceInv

\* A lock is counted as it is marked, and only then.
LEMMA ProcessOnce ==
  ASSUME TypeOK, OnceInv, job = "locks", NEW k \in Keys, Process(k)
  PROVE  OnceInv'
<1>1. UNCHANGED <<job, targets, all>> /\ seen \subseteq seen'
  BY DEF Process, request
<1>2. EarlierOnce' /\ NoKeyTwice'
  BY <1>1 DEF OnceInv, EarlierOnce, NoKeyTwice
<1>3. CurrentOnce'
  <2>1. CASE UNCHANGED result
    BY <1>1, <2>1 DEF OnceInv, CurrentOnce
  <2>2. CASE result' # result
    <3>1. k \notin seen /\ k \in seen' /\ result' = [result EXCEPT ![k] = @ + 1]
      BY <2>2 DEF Process, Skip
    <3>2. result[k] = 0 /\ result \in [Keys -> Nat]
      BY <3>1 DEF OnceInv, CurrentOnce, TypeOK, Counts
    <3>3. \A n \in Nodes : all[n][k] = 0
      BY <3>1 DEF OnceInv, EarlierOnce, TypeOK, Counts
    <3>4. result'[k] = 1 /\ \A l \in Keys \ {k} : result'[l] = result[l]
      BY <3>1, <3>2
    <3> QED
      BY <1>1, <3>1, <3>3, <3>4 DEF OnceInv, CurrentOnce
  <2> QED
    BY <2>1, <2>2
<1> QED
  BY <1>2, <1>3 DEF OnceInv

LEMMA NextOnce == TypeOK /\ WalkInv /\ OnceInv /\ [Next]_vars => OnceInv'
<1> SUFFICES ASSUME TypeOK, WalkInv, OnceInv, [Next]_vars, job' = "locks" PROVE OnceInv'
  BY DEF OnceInv
<1>1. job = "locks"
  BY NextCases DEF Resolve, ResolveFails, Scan, PolicyFails, NodeFails, Process, NextBatch,
                   NodeDone, Answer, Change, vars, request
<1>2. CASE Resolve
  <2>1. PICK nodes : Visit(nodes)
    BY <1>2 DEF Resolve
  <2>2. pc = "resolve" /\ UNCHANGED <<all, seen>>
    BY <1>2 DEF Resolve, answer
  <2>3. result' = NoCounts /\ \A n \in Nodes, k \in Keys : all'[n][k] = 0
    BY <2>1, <2>2 DEF Visit, WalkInv, NothingFound, NoCounts
  <2> QED
    BY <2>3 DEF OnceInv, CurrentOnce, EarlierOnce, NoKeyTwice, NoCounts
<1>3. CASE NodeFails
  <2>1. Walking /\ Visit(Tail(targets)) /\ UNCHANGED <<job, seen>>
        /\ all' = [all EXCEPT ![Head(targets)] = NoCounts]
    BY <1>1, <1>3 DEF NodeFails, Walking, Kept, request
  <2> QED
    BY <1>1, <2>1, LeaveOnce
<1>4. CASE NodeDone
  <2>1. Walking /\ Visit(Tail(targets)) /\ UNCHANGED <<job, seen>>
        /\ all' = [all EXCEPT ![Head(targets)] = result]
    BY <1>4 DEF NodeDone, Walking, request
  <2> QED
    BY <1>1, <2>1, LeaveOnce
<1>5. ASSUME NEW k \in Keys, Process(k) PROVE OnceInv'
  BY <1>1, <1>5, ProcessOnce
<1>6. CASE UNCHANGED <<job, targets, seen, result, all>>
  BY <1>6 DEF OnceInv, CurrentOnce, EarlierOnce, NoKeyTwice
<1>7. CASE ~(Resolve \/ NodeFails \/ NodeDone \/ \E k \in Keys : Process(k))
  <2>1. UNCHANGED <<job, targets, seen, result, all>>
    BY <1>1, <1>7, NextCases DEF ResolveFails, Scan, PolicyFails, NextBatch, Answer, Change, vars,
                                 request, scanVars, answer
  <2> QED
    BY <1>6, <2>1
<1> QED
  BY <1>2, <1>3, <1>4, <1>5, <1>7

\* However the replicas list their keys, in whatever order they are visited, and
\* whichever of them fail: a lock is reported by one node, and once.
THEOREM LocksAreReportedOnce == Spec => []NoKeyTwice
<1>1. OnceInv => NoKeyTwice
  BY DEF OnceInv, NoKeyTwice
<1> QED
  BY <1>1, WalkInvariance, InitOnce, NextOnce, PTL DEF Spec
-----------------------------------------------------------------------------
(* No lasting lock lost.                                                   *)

\* More seconds than a positive threshold come through time.Duration as they are.
LEMMA LongIsReported ==
  ASSUME TypeOK, job = "locks", threshold > 0,
         NEW v \in ValuesOf(job), v > threshold
  PROVE  IsReported(v)
<1>1. threshold \in Nat /\ v \in Nat /\ v # NoExpiry /\ v # Absent
  BY ValuesAssumption DEF TypeOK, ValuesOf, NoExpiry, Absent
<1>2. Duration(v) = v * 1000000000 /\ ~(Duration(v) < 0)
  BY <1>1 DEF Duration, Second
<1>3. TTLSeconds(v) = (v * 1000000000) \div 1000000000
  BY <1>2 DEF TTLSeconds, Second
<1>4. TTLSeconds(v) = v
  BY <1>1, <1>3
<1> QED
  BY <1>4 DEF IsReported, IsStale

\* What the invariant says once a request for locks has its targets.
LEMMA StaleFacts ==
  ASSUME StaleInv, job = "locks", threshold > 0, pc # "resolve"
  PROVE  OverIsOver /\ OverIsComing /\ OverIsKept /\ OverIsMarked
BY DEF StaleInv

LEMMA InitStale == Init => StaleInv
BY DEF Init, StaleInv

\* On every node of the answer a lock in "over" is over the threshold, so SCAN owes it.
LEMMA ResolveStale ==
  ASSUME TypeOK, WalkInv, Resolve, job = "locks", threshold > 0
  PROVE  StaleInv'
<1>1. PICK replicas \in SUBSET Replicas :
         LET nodes == IF replicas = {} THEN {Master} ELSE replicas
         IN  /\ \E s \in Orders(nodes) : Visit(s)
             /\ over' = {k \in Keys : \A n \in nodes : value[n][k] > threshold}
  BY DEF Resolve
<1> DEFINE nodes == IF replicas = {} THEN {Master} ELSE replicas
<1>2. PICK s \in Orders(nodes) : Visit(s)
  BY <1>1
<1>3. nodes \in SUBSET Nodes /\ nodes # {}
  BY DEF Nodes
<1>4. over' = {k \in Keys : \A n \in nodes : value[n][k] > threshold}
  BY <1>1
<1> HIDE DEF nodes
<1>5. s \in Seq(Nodes) /\ s # << >> /\ \A i \in DOMAIN s : s[i] \in nodes
  BY <1>3, OrdersAreTargets
<1>6. UNCHANGED <<value, threshold, seen, all, dropped, status, failed>> /\ targets' = s /\ threshold \in Nat
  BY <1>2 DEF Resolve, Visit, keyVars, request, answer, TypeOK
<1>7. Head(s) \in nodes /\ due' = Present(Head(s))
  BY <1>2, <1>5 DEF Visit
<1>8. OverIsOver'
  BY <1>4, <1>5, <1>6 DEF OverIsOver
<1>9. OverIsComing'
  BY <1>4, <1>6, <1>7 DEF OverIsComing, Present, Absent
<1>10. pc = "resolve" /\ seen = {} /\ all = [n \in Nodes |-> NoCounts] /\ status = "none"
  BY DEF Resolve, WalkInv, NothingFound
<1>11. OverIsKept'
  BY <1>6, <1>10 DEF OverIsKept
<1>12. OverIsMarked'
  <2>1. pc' # "answer"
    BY <1>2, <1>5 DEF Visit
  <2> QED
    BY <1>6, <1>10, <2>1 DEF OverIsMarked
<1> QED
  BY <1>8, <1>9, <1>11, <1>12 DEF StaleInv

\* A lock that is marked is reported, unless its TTL could not be read.
LEMMA ProcessStale ==
  ASSUME TypeOK, WalkInv, StaleInv, job = "locks", threshold > 0, NEW k \in Keys, Process(k)
  PROVE  StaleInv'
<1>0. OverIsOver /\ OverIsComing /\ OverIsKept /\ OverIsMarked
  BY StaleFacts DEF Process
<1>1. /\ UNCHANGED <<value, pc, job, threshold, targets, due, all, failed, status, dropped, over>>
      /\ pc = "keys" /\ Walking /\ k \in batch /\ batch' = batch \ {k} /\ k \in seen'
      /\ seen' = seen \cup {k} /\ unread \subseteq unread'
  BY DEF Process, Walking, keyVars, request, lasting, Skip
<1>2. OverIsOver'
  BY <1>0, <1>1 DEF OverIsOver
<1>3. OverIsComing'
  BY <1>0, <1>1 DEF OverIsComing, Walking
<1>4. \A l \in Keys : result[l] > 0 => result'[l] > 0
  <2>1. result' = result \/ result' = [result EXCEPT ![k] = @ + 1]
    BY DEF Process
  <2>2. result \in [Keys -> Nat]
    BY DEF TypeOK, Counts
  <2> QED
    BY <2>1, <2>2
<1>5. k \in over /\ k \notin seen => k \in unread' \/ result'[k] > 0
  <2> SUFFICES ASSUME k \in over, k \notin seen PROVE k \in unread' \/ result'[k] > 0
    OBVIOUS
  <2> DEFINE v == value[Head(targets)][k]
  <2>1. PICK j \in DOMAIN targets : Head(targets) = targets[j]
    BY <1>1, RestOfTheWalk
  <2>2. Head(targets) \in Nodes
    BY <1>1, RestOfTheWalk
  <2>3. v > threshold /\ v \in ValuesOf(job)
    BY <1>0, <2>1, <2>2 DEF OverIsOver, TypeOK
  <2>4. IsReported(v)
    BY <2>3, LongIsReported
  <2>5. ~Skip(k)
    BY DEF Skip
  <2>6. k \in unread' \/ result' = [result EXCEPT ![k] = @ + 1]
    BY <2>4, <2>5 DEF Process
  <2>7. result \in [Keys -> Nat]
    BY DEF TypeOK, Counts
  <2> QED
    BY <2>6, <2>7
<1>6. OverIsKept'
  <2>1. Reported' = Reported
    BY <1>1 DEF Reported
  <2>2. over \subseteq Keys
    BY DEF TypeOK
  <2> QED
    BY <1>0, <1>1, <1>4, <1>5, <2>1, <2>2 DEF OverIsKept
<1>7. OverIsMarked'
  BY <1>0, <1>1 DEF OverIsMarked
<1> QED
  BY <1>2, <1>3, <1>6, <1>7 DEF StaleInv
\* When a node is left, the locks it returned are answered or dropped, and the next one
\* still has those that lasted.
LEMMA LeaveStale ==
  ASSUME TypeOK, WalkInv, OnceInv, StaleInv, job = "locks", threshold > 0, NodeFails \/ NodeDone
  PROVE  StaleInv'
<1> DEFINE H == Head(targets)
           kept == IF NodeDone THEN result ELSE NoCounts
<1>0. Walking /\ OverIsOver /\ OverIsComing /\ OverIsKept /\ OverIsMarked
  BY StaleFacts DEF NodeFails, NodeDone, Walking
<1>1. /\ targets # << >> /\ H \in Nodes /\ Tail(targets) \in Seq(Nodes)
      /\ \A i \in DOMAIN Tail(targets) : \E j \in DOMAIN targets : Tail(targets)[i] = targets[j]
      /\ \E j \in DOMAIN targets : H = targets[j]
  BY <1>0, RestOfTheWalk
<1>2. /\ UNCHANGED <<value, job, threshold, seen, status, over>>
      /\ Visit(Tail(targets)) /\ all' = [all EXCEPT ![H] = kept]
  BY DEF NodeFails, NodeDone, Kept, keyVars, request
<1>3. UNCHANGED unread /\ result' = NoCounts /\ targets' = Tail(targets) /\ pc' # "end"
  BY <1>2 DEF Visit
<1>4. OverIsOver'
  BY <1>0, <1>1, <1>2, <1>3 DEF OverIsOver
<1>5. OverIsComing'
  <2> SUFFICES ASSUME Walking' PROVE over \subseteq due'
    BY <1>2 DEF OverIsComing
  <2>1. Tail(targets) # << >> /\ due' = Present(Head(Tail(targets)))
    BY <1>2 DEF Visit, Walking
  <2>2. PICK j \in DOMAIN targets : Head(Tail(targets)) = targets[j]
    BY <1>1, <2>1
  <2>3. over \subseteq Keys /\ threshold \in Nat
    BY DEF TypeOK
  <2> QED
    BY <1>0, <2>1, <2>2, <2>3 DEF OverIsOver, Present, Absent
<1>6. \A n \in Nodes : all'[n] = IF n = H THEN kept ELSE all[n]
  BY <1>1, <1>2 DEF TypeOK
<1>7. Reported \cup {k \in Keys : kept[k] > 0} \subseteq Reported'
  <2>1. \A k \in Keys : ~(all[H][k] > 0)
    BY <1>1 DEF OnceInv, EarlierOnce
  <2> QED
    BY <1>1, <1>6, <2>1 DEF Reported
<1>8. {k \in Keys : result[k] > 0} \subseteq {k \in Keys : kept[k] > 0} \cup dropped' /\ dropped \subseteq dropped'
  BY DEF NodeFails, NodeDone, Kept, NoCounts
<1>9. OverIsKept'
  BY <1>0, <1>2, <1>3, <1>7, <1>8 DEF OverIsKept
<1>10. OverIsMarked'
  <2>1. CASE NodeDone
    <3>1. due = {} /\ batch = {}
      BY <2>1 DEF NodeDone, WalkInv, NothingLost
    <3> QED
      BY <1>0, <1>2, <3>1 DEF OverIsComing, OverIsMarked
  <2>2. CASE ~NodeDone
    <3>1. failed' # {} /\ kept = NoCounts
      BY <2>2 DEF NodeFails
    <3> QED
      BY <1>0, <1>2, <1>6, <3>1 DEF OverIsMarked
  <2> QED
    BY <2>1, <2>2
<1> QED
  BY <1>4, <1>5, <1>9, <1>10 DEF StaleInv

\* A lock that does not stay over the threshold on a node that is left is none of them.
LEMMA ChangeStale ==
  ASSUME TypeOK, StaleInv, job = "locks", threshold > 0, pc # "resolve",
         NEW n \in Nodes, NEW k \in Keys, Change(n, k)
  PROVE  StaleInv'
<1>0. OverIsOver /\ OverIsComing /\ OverIsKept /\ OverIsMarked
  BY StaleFacts
<1>1. UNCHANGED <<pc, job, threshold, targets, batch, seen, result, all, failed, status, unread, dropped>>
  BY DEF Change, request, answer
<1>2. PICK v \in ValuesOf(job) :
        /\ value' = [value EXCEPT ![n][k] = v]
        /\ due' = IF v = Absent /\ n \in Visited THEN due \ {k} ELSE due
        /\ over' = IF v > threshold THEN over ELSE over \ {k}
  BY DEF Change
<1>3. over' \subseteq over /\ (k \in over' => v > threshold)
  BY <1>2
<1>4. OverIsOver'
  <2> SUFFICES ASSUME NEW l \in over', NEW i \in DOMAIN targets
               PROVE  value'[targets[i]][l] > threshold
    BY <1>1 DEF OverIsOver
  <2>1. l \in Keys /\ targets[i] \in Nodes
    BY <1>3 DEF TypeOK
  <2>2. value'[targets[i]][l] = IF targets[i] = n /\ l = k THEN v ELSE value[targets[i]][l]
    BY <1>2, <2>1 DEF TypeOK
  <2> QED
    BY <1>0, <1>3, <2>2 DEF OverIsOver
<1>5. OverIsComing'
  <2>1. threshold \in Nat
    BY DEF TypeOK
  <2>2. \A l \in over' : l \in due => l \in due'
    BY <1>2, <1>3, <2>1 DEF Absent
  <2> QED
    BY <1>0, <1>1, <1>3, <2>2 DEF OverIsComing, Walking
<1>6. OverIsKept' /\ OverIsMarked'
  BY <1>0, <1>1, <1>3 DEF OverIsKept, OverIsMarked, Reported
<1> QED
  BY <1>4, <1>5, <1>6 DEF StaleInv

LEMMA NextStale == TypeOK /\ WalkInv /\ OnceInv /\ StaleInv /\ [Next]_vars => StaleInv'
<1> SUFFICES ASSUME TypeOK, WalkInv, OnceInv, StaleInv, [Next]_vars,
                    (job = "locks" /\ threshold > 0 /\ pc # "resolve")'
             PROVE  StaleInv'
  BY DEF StaleInv
<1>0. job = "locks" /\ threshold > 0
  BY NextCases DEF Resolve, ResolveFails, Scan, PolicyFails, NodeFails, Process, NextBatch,
                   NodeDone, Answer, Change, vars, request
<1>1. CASE Resolve
  BY <1>0, <1>1, ResolveStale
<1>2. CASE ResolveFails
  BY <1>2 DEF ResolveFails, scanVars, history, lasting, WalkInv, NothingFound, HasATarget,
              StaleInv, OverIsOver, OverIsComing, OverIsKept, OverIsMarked, Walking
<1>3. CASE Scan
  <2>1. OverIsOver /\ OverIsComing /\ OverIsKept /\ OverIsMarked /\ batch = {}
    BY <1>0, <1>3, StaleFacts DEF Scan, WalkInv, NothingLost
  <2>2. due \subseteq due' \cup batch'
    BY <1>3 DEF Scan
  <2> QED
    BY <1>3, <2>1, <2>2 DEF Scan, keyVars, request, answer, history, lasting, StaleInv,
                            OverIsOver, OverIsComing, OverIsKept, OverIsMarked, Reported, Walking
<1>4. CASE NodeFails \/ NodeDone
  BY <1>0, <1>4, LeaveStale
<1>5. ASSUME NEW k \in Keys, Process(k) PROVE StaleInv'
  BY <1>0, <1>5, ProcessStale
<1>6. CASE NextBatch
  BY <1>6 DEF NextBatch, keyVars, request, scanVars, answer, history, lasting, StaleInv,
              OverIsOver, OverIsComing, OverIsKept, OverIsMarked, Reported, Walking
<1>7. CASE Answer
  <2>1. OverIsOver /\ OverIsKept /\ OverIsMarked
    BY <1>0, <1>7, StaleFacts DEF Answer
  <2>2. OverIsMarked'
    BY <1>0, <1>7, <2>1 DEF Answer, keyVars, request, scanVars, history, lasting, OverIsMarked
  <2>3. OverIsOver' /\ OverIsComing' /\ OverIsKept'
    BY <1>7, <2>1 DEF Answer, keyVars, request, scanVars, history, lasting,
                      OverIsOver, OverIsComing, OverIsKept, Reported, Walking
  <2> QED
    BY <2>2, <2>3 DEF StaleInv
<1>8. ASSUME NEW n \in Nodes, NEW k \in Keys, Change(n, k) PROVE StaleInv'
  <2>1. pc # "resolve"
    BY <1>8 DEF Change
  <2> QED
    BY <1>0, <1>8, <2>1, ChangeStale
<1>9. CASE UNCHANGED vars
  BY <1>9 DEF vars, keyVars, request, scanVars, answer, history, lasting, StaleInv,
              OverIsOver, OverIsComing, OverIsKept, OverIsMarked, Reported, Walking
<1>10. ~PolicyFails
  BY <1>0 DEF PolicyFails
<1> QED
  BY <1>1, <1>2, <1>3, <1>4, <1>5, <1>6, <1>7, <1>8, <1>9, <1>10, NextCases

\* A lock that stays over the threshold on every replica is in the answer, whatever
\* batches SCAN makes and whatever else changes, unless its TTL could not be read or
\* the node that found it then failed.
THEOREM StaleLocksAreReported == Spec => []StaleIsReported
<1>1. TypeOK /\ WalkInv /\ StaleInv => StaleIsReported
  <2> SUFFICES ASSUME TypeOK, WalkInv, StaleInv, job = "locks", status = "ok", threshold > 0
               PROVE  over \subseteq Reported \cup unread \cup dropped
    BY DEF StaleIsReported
  <2>1. pc = "end" /\ \A k \in Keys : result[k] = 0
    BY DEF WalkInv, NothingFound, Walking, NoCounts
  <2> QED
    BY <2>1, StaleFacts DEF OverIsKept, OverIsMarked
<1> QED
  BY <1>1, WalkInvariance, InitOnce, NextOnce, InitStale, NextStale, PTL DEF Spec
-----------------------------------------------------------------------------
(* No lasting key left out.                                                *)

\* The keys the job is after exist, and are reported when their value is read.
LEMMA WantedIsReported ==
  ASSUME TypeOK, job \in {"bigkeys", "ttl"}, job = "bigkeys" => threshold > 0, NEW v, IsWanted(v)
  PROVE  v # Absent /\ IsReported(v)
BY DEF TypeOK, IsWanted, IsReported, Absent

LEMMA InitLasting == Init => LastingInv
<1> SUFFICES ASSUME Init PROVE LastingInv
  OBVIOUS
<1>1. job = "bigkeys" => threshold \in BigThresholds
  BY DEF Init
<1>2. job = "bigkeys" => threshold > 0
  <2>1. \A b \in BigThresholds : b > 0
    BY BigAssumption
  <2> QED
    BY <1>1, <2>1
<1>3. SteadyIsComing
  BY DEF Init, SteadyIsComing, Walking
<1> QED
  BY <1>2, <1>3 DEF LastingInv

\* SCAN owes the next node's keys.
LEMMA VisitLasting ==
  ASSUME TypeOK, job \in {"bigkeys", "ttl"}, job = "bigkeys" => threshold > 0,
         NEW nodes, Visit(nodes), UNCHANGED <<value, job, threshold>>
  PROVE  LastingInv'
<1> SUFFICES ASSUME Walking', NEW k \in steady'
             PROVE  IsWanted(value[Head(nodes)][k])' /\ k \in due'
  BY DEF LastingInv, SteadyIsComing, Visit
<1>1. nodes # << >>
  BY DEF Visit, Walking
<1>2. /\ due' = {l \in Keys : value[Head(nodes)][l] # Absent}
      /\ steady' = {l \in Keys : IsWanted(value[Head(nodes)][l])}
  BY <1>1 DEF Visit, Present
<1>3. k \in Keys /\ IsWanted(value[Head(nodes)][k])
  BY <1>2
<1>4. k \in due'
  BY <1>2, <1>3, WantedIsReported
<1>5. IsWanted(value[Head(nodes)][k])'
  BY <1>3 DEF IsWanted
<1> QED
  BY <1>4, <1>5

\* A key that is returned is counted, unless it could not be read.
LEMMA ProcessLasting ==
  ASSUME TypeOK, LastingInv, job \in {"bigkeys", "ttl"}, NEW k \in Keys, Process(k)
  PROVE  LastingInv'
<1>0. Walking /\ SteadyIsComing /\ (job = "bigkeys" => threshold > 0)
  BY DEF LastingInv, Process, Walking
<1>1. /\ UNCHANGED <<value, pc, job, threshold, targets, due, steady>>
      /\ batch' = batch \ {k} /\ unread \subseteq unread'
  BY DEF Process, keyVars, request, lasting
<1>2. \A l \in Keys : result[l] > 0 => result'[l] > 0
  <2>1. result' = result \/ result' = [result EXCEPT ![k] = @ + 1]
    BY DEF Process
  <2>2. result \in [Keys -> Nat]
    BY DEF TypeOK, Counts
  <2> QED
    BY <2>1, <2>2
<1>3. k \in steady => k \in unread' \/ result'[k] > 0
  <2> SUFFICES ASSUME k \in steady PROVE k \in unread' \/ result'[k] > 0
    OBVIOUS
  <2>1. IsReported(value[Head(targets)][k])
    BY <1>0, WantedIsReported DEF SteadyIsComing
  <2>2. k \in unread' \/ result' = [result EXCEPT ![k] = @ + 1]
    BY <2>1 DEF Process, Skip
  <2>3. result \in [Keys -> Nat]
    BY DEF TypeOK, Counts
  <2> QED
    BY <2>2, <2>3
<1>4. steady \subseteq Keys
  BY DEF TypeOK
<1>5. SteadyIsComing'
  BY <1>0, <1>1, <1>2, <1>3, <1>4 DEF SteadyIsComing, IsWanted, Walking
<1> QED
  BY <1>0, <1>1, <1>5 DEF LastingInv

\* A key that is no longer wanted on the current node has not lasted.
LEMMA ChangeLasting ==
  ASSUME TypeOK, WalkInv, LastingInv, job \in {"bigkeys", "ttl"},
         NEW n \in Nodes, NEW k \in Keys, Change(n, k)
  PROVE  LastingInv'
<1>0. SteadyIsComing /\ (job = "bigkeys" => threshold > 0)
  BY DEF LastingInv
<1>1. UNCHANGED <<pc, job, threshold, targets, batch, result, unread>>
  BY DEF Change, request
<1>2. PICK v \in ValuesOf(job) :
        /\ value' = [value EXCEPT ![n][k] = v]
        /\ due' = IF v = Absent /\ n \in Visited THEN due \ {k} ELSE due
        /\ steady' = IF n \in Visited /\ ~IsWanted(v) THEN steady \ {k} ELSE steady
  BY DEF Change
<1> SUFFICES ASSUME Walking, NEW l \in steady'
             PROVE  /\ IsWanted(value'[Head(targets)][l])
                    /\ l \in due' \cup batch \cup unread \/ result[l] > 0
  BY <1>0, <1>1 DEF LastingInv, SteadyIsComing, IsWanted, Walking
<1>3. Visited = {Head(targets)} /\ Head(targets) \in Nodes
  BY RestOfTheWalk DEF Visited
<1>4. l \in steady /\ l \in Keys /\ (n = Head(targets) /\ l = k => IsWanted(v))
  BY <1>2, <1>3 DEF TypeOK
<1>5. value'[Head(targets)][l] = IF n = Head(targets) /\ l = k THEN v ELSE value[Head(targets)][l]
  BY <1>2, <1>3, <1>4 DEF TypeOK
<1>6. IsWanted(value'[Head(targets)][l])
  BY <1>0, <1>4, <1>5 DEF SteadyIsComing
<1>7. l \in due => l \in due'
  <2>1. n = Head(targets) /\ l = k => v # Absent
    BY <1>0, <1>4, WantedIsReported
  <2> QED
    BY <1>2, <1>3, <2>1
<1> QED
  BY <1>0, <1>4, <1>6, <1>7 DEF SteadyIsComing

LEMMA NextLasting == TypeOK /\ WalkInv /\ LastingInv /\ [Next]_vars => LastingInv'
<1> SUFFICES ASSUME TypeOK, WalkInv, LastingInv, [Next]_vars, (job \in {"bigkeys", "ttl"})'
             PROVE  LastingInv'
  BY DEF LastingInv
<1>0. UNCHANGED <<job, threshold>>
  BY NextCases DEF Resolve, ResolveFails, Scan, PolicyFails, NodeFails, Process, NextBatch,
                   NodeDone, Answer, Change, vars, request
<1>1. job \in {"bigkeys", "ttl"} /\ SteadyIsComing /\ (job = "bigkeys" => threshold > 0)
  BY <1>0 DEF LastingInv
<1>2. CASE Resolve \/ PolicyFails \/ NodeFails \/ NodeDone
  <2>1. (\E nodes : Visit(nodes)) /\ UNCHANGED value
    BY <1>2 DEF Resolve, PolicyFails, NodeFails, NodeDone, keyVars
  <2> QED
    BY <1>0, <1>1, <2>1, VisitLasting
<1>3. CASE Scan
  <2>1. due \subseteq due' \cup batch' /\ batch = {} /\ Walking
    BY <1>3 DEF Scan, WalkInv, NothingLost, Walking
  <2> QED
    BY <1>1, <1>3, <2>1 DEF Scan, keyVars, request, answer, history, lasting,
                            LastingInv, SteadyIsComing, IsWanted
<1>4. ASSUME NEW k \in Keys, Process(k) PROVE LastingInv'
  BY <1>1, <1>4, ProcessLasting
<1>5. ASSUME NEW n \in Nodes, NEW k \in Keys, Change(n, k) PROVE LastingInv'
  BY <1>1, <1>5, ChangeLasting
<1>6. CASE ResolveFails \/ Answer
  <2>1. ~Walking'
    BY <1>6 DEF ResolveFails, Answer, Walking
  <2> QED
    BY <1>0, <1>1, <2>1 DEF LastingInv, SteadyIsComing
<1>7. CASE NextBatch \/ UNCHANGED vars
  <2>1. /\ UNCHANGED <<value, job, threshold, targets, due, batch, result, unread, steady>>
        /\ Walking' => Walking
    BY <1>7 DEF NextBatch, vars, keyVars, request, scanVars, answer, history, lasting, Walking
  <2> QED
    BY <1>1, <2>1 DEF LastingInv, SteadyIsComing, IsWanted
<1> QED
  BY <1>2, <1>3, <1>4, <1>5, <1>6, <1>7, NextCases

\* When the iteration on a node ends, every key that was what bigkeys or ttl is after
\* all the while is counted, unless it could not be read.
THEOREM LastingKeysAreCounted == Spec => []LastingIsCounted
<1>1. WalkInv /\ LastingInv => LastingIsCounted
  BY DEF WalkInv, NothingLost, LastingInv, SteadyIsComing, LastingIsCounted, Walking
<1> QED
  BY <1>1, WalkInvariance, InitLasting, NextLasting, PTL DEF Spec
=============================================================================
