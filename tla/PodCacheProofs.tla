--------------------------- MODULE PodCacheProofs ---------------------------
(***************************************************************************)
(* Proofs about PodCache, for any pods, addresses and number of changes.   *)
(***************************************************************************)
EXTENDS PodCache, FiniteSetTheorems, TLAPS

\* A handler is called only with an address the pod has had, as h tells.
Granted(call, h) == call.op = "set" /\ call.ip # NoIP => <<call.pod, call.ip>> \in h

\* So are the addresses of the cluster, and of what the informer holds back.
OnlyHeld ==
  /\ \A p \in Pods : pods[p].ip # NoIP => <<p, pods[p].ip>> \in held
  /\ \A p \in Pods : \A k \in DOMAIN deltas[p] : Granted(deltas[p][k], held)
  /\ \A k \in DOMAIN calls : Granted(calls[k], held)

IInv == TypeOK /\ OnlyHeld

-----------------------------------------------------------------------------
LEMMA InitHolds == Init => IInv
<1> SUFFICES ASSUME Init PROVE IInv
  OBVIOUS
<1>1. pods \in [Pods -> {Absent, [phase |-> "pending", ip |-> NoIP]}
                          \cup [phase : {"running", "finished"}, ip : IPs]]
  BY DEF Init
<1>2. \A p \in Pods : pods[p] \in PodStates
  BY <1>1 DEF Absent, PodStates, Phases
<1>3. \A p \in Pods : (pods[p].ip = NoIP) <=> (pods[p].phase \in {"absent", "pending"})
  BY <1>1, NoIPAssumption DEF Absent
<1>4. /\ pods \in [Pods -> PodStates]
      /\ held \in SUBSET (Pods \X IPs)
  BY <1>1, <1>2 DEF Init, PodStates
<1>5. known \in [Pods -> PodStates] /\ deltas \in [Pods -> Seq(Calls)]
  BY DEF Init, Absent, PodStates, Phases
<1>6. /\ changes \in 0..MaxChanges /\ watching \in BOOLEAN
      /\ queue \in Seq(Pods) /\ calls \in Seq(Calls)
      /\ cache \in [IPs -> Pods \cup {Nobody}] /\ moved \in SUBSET Pods
  <2>1. changes \in 0..MaxChanges
    BY MaxChangesAssumption DEF Init
  <2>2. queue \in Seq(Pods) /\ calls \in Seq(Calls)
    BY DEF Init
  <2> QED
    BY <2>1, <2>2 DEF Init
<1>7. TypeOK
  BY <1>3, <1>4, <1>5, <1>6 DEF TypeOK
<1>8. \A p \in Pods : pods[p].ip # NoIP => <<p, pods[p].ip>> \in held
  BY DEF Init
<1>9. /\ \A p \in Pods : \A k \in DOMAIN deltas[p] : Granted(deltas[p][k], held)
      /\ \A k \in DOMAIN calls : Granted(calls[k], held)
  BY DEF Init
<1> QED
  BY <1>7, <1>8, <1>9 DEF IInv, OnlyHeld

\* What the informer makes of pods that have had their addresses.
LEMMA HearKeeps ==
  ASSUME IInv, NEW ps \in SUBSET Pods, NEW now \in [Pods -> PodStates],
         NEW last \in [Pods -> PodStates], Hear(ps, now, last),
         held \subseteq held',
         \A p \in ps : now[p].ip # NoIP => <<p, now[p].ip>> \in held'
  PROVE  /\ known' \in [Pods -> PodStates]
         /\ deltas' \in [Pods -> Seq(Calls)]
         /\ queue' \in Seq(Pods)
         /\ moved' \in SUBSET Pods
         /\ \A p \in Pods : \A k \in DOMAIN deltas'[p] : Granted(deltas'[p][k], held')
<1>1. \A p \in Pods : CallFor(p, now[p], last[p]) \in Calls
  BY DEF CallFor, Calls, PodStates
<1>2. \A p \in ps : Granted(CallFor(p, now[p], last[p]), held')
  BY DEF Granted, CallFor
<1>3. known' \in [Pods -> PodStates] /\ deltas' \in [Pods -> Seq(Calls)]
  BY <1>1 DEF Hear, IInv, TypeOK
<1>4. queue' \in Seq(Pods)
  <2> DEFINE new == {p \in ps : deltas[p] = <<>>}
  <2>1. Cardinality(new) \in Nat
    BY PodsAssumption, FS_Subset, FS_CardinalityType
  <2>2. PICK order \in [1..Cardinality(new) -> new] : queue' = queue \o order
    BY DEF Hear
  <2>3. order \in Seq(Pods)
    <3>1. order \in [1..Cardinality(new) -> Pods]
      BY <2>2
    <3> HIDE DEF new
    <3> QED
      BY <2>1, <3>1
  <2> QED
    BY <2>2, <2>3 DEF IInv, TypeOK
<1>5. moved' \in SUBSET Pods
  BY DEF Hear, IInv, TypeOK
<1>6. ASSUME NEW p \in Pods, NEW k \in DOMAIN deltas'[p]
      PROVE  Granted(deltas'[p][k], held')
  <2> DEFINE c == CallFor(p, now[p], last[p])
  <2>1. deltas[p] \in Seq(Calls) /\ c \in Calls
    BY <1>1 DEF IInv, TypeOK
  <2>2. \A j \in DOMAIN deltas[p] : Granted(deltas[p][j], held')
    BY DEF IInv, OnlyHeld, Granted
  <2>3. deltas'[p] = IF p \in ps THEN Append(deltas[p], c) ELSE deltas[p]
    BY DEF Hear
  <2>4. p \in ps => Granted(c, held')
    BY <1>2
  <2> HIDE DEF c
  <2>5. CASE p \notin ps
    BY <2>2, <2>3, <2>5
  <2>6. CASE p \in ps
    <3>1. \/ k \in DOMAIN deltas[p] /\ deltas'[p][k] = deltas[p][k]
          \/ deltas'[p][k] = c
      BY <2>1, <2>3, <2>6
    <3> QED
      BY <2>2, <2>4, <2>6, <3>1
  <2> QED
    BY <2>5, <2>6
<1> QED
  BY <1>3, <1>4, <1>5, <1>6

LEMMA ChangeKeeps ==
  ASSUME IInv, NEW p \in Pods, NEW new \in PodStates, Change(p, new),
         (new.ip = NoIP) <=> (new.phase \in {"absent", "pending"})
  PROVE  IInv'
<1>1. pods' \in [Pods -> PodStates]
  BY DEF Change, IInv, TypeOK
<1>2. \A q \in Pods : (pods'[q].ip = NoIP) <=> (pods'[q].phase \in {"absent", "pending"})
  BY DEF Change, IInv, TypeOK
<1>3. held \subseteq held' /\ held' \in SUBSET (Pods \X IPs)
  BY DEF Change, IInv, TypeOK, PodStates
<1>4. \A q \in Pods : pods'[q].ip # NoIP => <<q, pods'[q].ip>> \in held'
  <2>1. new.ip # NoIP => <<p, new.ip>> \in held'
    BY DEF Change
  <2> QED
    BY <2>1, <1>3 DEF Change, IInv, TypeOK, OnlyHeld
<1>5. /\ known' \in [Pods -> PodStates]
      /\ deltas' \in [Pods -> Seq(Calls)]
      /\ queue' \in Seq(Pods)
      /\ moved' \in SUBSET Pods
      /\ \A q \in Pods : \A k \in DOMAIN deltas'[q] : Granted(deltas'[q][k], held')
  <2>1. CASE watching
    <3>1. Hear({p}, pods', pods)
      BY <2>1 DEF Change
    <3>2. pods \in [Pods -> PodStates] /\ {p} \in SUBSET Pods
      BY DEF IInv, TypeOK
    <3>3. \A q \in {p} : pods'[q].ip # NoIP => <<q, pods'[q].ip>> \in held'
      BY <1>4
    <3> QED
      BY <3>1, <3>2, <3>3, <1>1, <1>3, HearKeeps
  <2>2. CASE ~watching
    BY <2>2, <1>3 DEF Change, IInv, TypeOK, OnlyHeld, Granted
  <2> QED
    BY <2>1, <2>2
<1>6. changes' \in 0..MaxChanges /\ watching' \in BOOLEAN /\ calls' \in Seq(Calls)
      /\ cache' \in [IPs -> Pods \cup {Nobody}]
  BY MaxChangesAssumption DEF Change, IInv, TypeOK
<1>7. \A k \in DOMAIN calls' : Granted(calls'[k], held')
  BY <1>3 DEF Change, IInv, OnlyHeld, Granted
<1> QED
  BY <1>1, <1>2, <1>3, <1>4, <1>5, <1>6, <1>7 DEF IInv, TypeOK, OnlyHeld

\* Every change of a pod is one of these.
LEMMA ClusterStep ==
  ASSUME IInv, NEW p \in Pods, Create(p) \/ Start(p) \/ Finish(p) \/ Delete(p)
  PROVE  \E new \in PodStates :
           /\ Change(p, new)
           /\ (new.ip = NoIP) <=> (new.phase \in {"absent", "pending"})
<1>1. CASE Create(p)
  <2>1. [phase |-> "pending", ip |-> NoIP] \in PodStates
    BY DEF PodStates, Phases
  <2> QED
    BY <1>1, <2>1 DEF Create
<1>2. CASE Start(p)
  <2>1. PICK i \in IPs : Change(p, [phase |-> "running", ip |-> i])
    BY <1>2 DEF Start
  <2>2. [phase |-> "running", ip |-> i] \in PodStates
    BY DEF PodStates, Phases
  <2> QED
    BY <2>1, <2>2, NoIPAssumption
<1>3. CASE Finish(p)
  <2> DEFINE new == [pods[p] EXCEPT !.phase = "finished"]
  <2>1. pods[p] \in PodStates
    BY DEF IInv, TypeOK
  <2>2. new \in PodStates /\ new.phase = "finished" /\ new.ip = pods[p].ip
    BY <2>1 DEF PodStates, Phases
  <2>3. new.ip # NoIP
    BY <1>3, <2>2 DEF Finish, IInv, TypeOK
  <2> QED
    BY <1>3, <2>2, <2>3 DEF Finish
<1>4. CASE Delete(p)
  <2>1. Absent \in PodStates /\ Absent.ip = NoIP /\ Absent.phase = "absent"
    BY DEF Absent, PodStates, Phases
  <2> QED
    BY <1>4, <2>1 DEF Delete
<1> QED
  BY <1>1, <1>2, <1>3, <1>4

LEMMA ListKeeps == ASSUME IInv, List PROVE IInv'
<1> DEFINE ps == {p \in Pods : pods[p] # Absent \/ known[p] # Absent}
<1>1. /\ Hear(ps, pods, known) /\ watching' = TRUE
      /\ pods' = pods /\ changes' = changes /\ held' = held
      /\ calls' = calls /\ cache' = cache
  BY DEF List, clusterVars
<1>2. /\ known' \in [Pods -> PodStates]
      /\ deltas' \in [Pods -> Seq(Calls)]
      /\ queue' \in Seq(Pods)
      /\ moved' \in SUBSET Pods
      /\ \A p \in Pods : \A k \in DOMAIN deltas'[p] : Granted(deltas'[p][k], held')
  <2>1. pods \in [Pods -> PodStates] /\ known \in [Pods -> PodStates]
    BY DEF IInv, TypeOK
  <2>2. ps \in SUBSET Pods
    OBVIOUS
  <2>3. \A p \in ps : pods[p].ip # NoIP => <<p, pods[p].ip>> \in held'
    BY <1>1 DEF IInv, OnlyHeld
  <2> HIDE DEF ps
  <2> QED
    BY <1>1, <2>1, <2>2, <2>3, HearKeeps
<1> QED
  BY <1>1, <1>2 DEF IInv, TypeOK, OnlyHeld, Granted

LEMMA PopKeeps == ASSUME IInv, Pop PROVE IInv'
<1> DEFINE p == Head(queue)
<1>1. p \in Pods /\ queue' \in Seq(Pods)
  BY DEF Pop, IInv, TypeOK
<1>2. /\ calls' = calls \o deltas[p] /\ deltas' = [deltas EXCEPT ![p] = <<>>]
      /\ pods' = pods /\ changes' = changes /\ held' = held /\ watching' = watching
      /\ known' = known /\ moved' = moved /\ cache' = cache
  BY DEF Pop, clusterVars
<1>3. calls \in Seq(Calls) /\ deltas[p] \in Seq(Calls)
  BY <1>1 DEF IInv, TypeOK
<1> HIDE DEF p
<1>4. calls' \in Seq(Calls) /\ deltas' \in [Pods -> Seq(Calls)]
  BY <1>1, <1>2, <1>3 DEF IInv, TypeOK
<1>5. ASSUME NEW k \in DOMAIN calls' PROVE Granted(calls'[k], held')
  <2>1. CASE k \in DOMAIN calls
    <3>1. calls'[k] = calls[k]
      BY <1>2, <1>3, <2>1
    <3> QED
      BY <1>2, <2>1, <3>1 DEF IInv, OnlyHeld, Granted
  <2>2. CASE k \notin DOMAIN calls
    <3>1. /\ k - Len(calls) \in DOMAIN deltas[p]
          /\ calls'[k] = deltas[p][k - Len(calls)]
      BY <1>2, <1>3, <2>2
    <3> QED
      BY <1>1, <1>2, <3>1 DEF IInv, OnlyHeld, Granted
  <2> QED
    BY <2>1, <2>2
<1>6. ASSUME NEW q \in Pods, NEW k \in DOMAIN deltas'[q] PROVE Granted(deltas'[q][k], held')
  <2>1. q # p
    BY <1>1, <1>2 DEF IInv, TypeOK
  <2>2. deltas'[q] = deltas[q]
    BY <1>2, <2>1 DEF IInv, TypeOK
  <2>3. \A j \in DOMAIN deltas[q] : Granted(deltas[q][j], held)
    BY DEF IInv, OnlyHeld
  <2> QED
    BY <1>2, <1>6, <2>2, <2>3
<1>7. \A q \in Pods : pods'[q].ip # NoIP => <<q, pods'[q].ip>> \in held'
  BY <1>2 DEF IInv, OnlyHeld
<1>8. TypeOK'
  BY <1>1, <1>2, <1>4 DEF IInv, TypeOK
<1> QED
  BY <1>5, <1>6, <1>7, <1>8 DEF IInv, OnlyHeld

\* What a handler does with the first call that is due.
LEMMA HandleCases ==
  ASSUME IInv, Handle
  PROVE  /\ held' = held
         /\ \/ cache' = cache
            \/ \E i \in IPs : cache' = [cache EXCEPT ![i] = Nobody]
            \/ \E i \in IPs, p \in Pods : /\ <<p, i>> \in held
                                          /\ cache' = [cache EXCEPT ![i] = p]
<1> DEFINE call == Head(calls)
<1>1. call \in Calls /\ Granted(call, held)
  <2>1. calls \in Seq(Calls) /\ calls # <<>>
    BY DEF Handle, IInv, TypeOK
  <2>2. call = calls[1] /\ 1 \in DOMAIN calls
    BY <2>1
  <2> QED
    BY <2>1, <2>2 DEF IInv, OnlyHeld
<1>2. /\ held' = held
      /\ cache' = IF call.op = "set" THEN Stored(call) ELSE Removed(call)
  BY DEF Handle, clusterVars
<1> HIDE DEF call
<1>3. call.pod \in Pods /\ call.ip \in IPs \cup {NoIP}
  BY <1>1 DEF Calls
<1>4. CASE call.ip = NoIP
  BY <1>2, <1>4 DEF Stored, Removed
<1>5. CASE call.ip # NoIP /\ call.op = "set"
  BY <1>1, <1>2, <1>3, <1>5 DEF Stored, Granted
<1>6. CASE call.ip # NoIP /\ call.op # "set"
  BY <1>2, <1>3, <1>6 DEF Removed
<1> QED
  BY <1>2, <1>4, <1>5, <1>6

LEMMA HandleKeeps == ASSUME IInv, Handle PROVE IInv'
<1>1. /\ pods' = pods /\ changes' = changes /\ held' = held /\ watching' = watching
      /\ known' = known /\ deltas' = deltas /\ queue' = queue /\ moved' = moved
      /\ calls # <<>> /\ calls' = Tail(calls)
  BY DEF Handle, clusterVars, informerVars
<1>2. calls \in Seq(Calls)
  BY DEF IInv, TypeOK
<1>3. calls' \in Seq(Calls)
  BY <1>1, <1>2
<1>4. cache' \in [IPs -> Pods \cup {Nobody}]
  BY HandleCases DEF IInv, TypeOK
<1>5. ASSUME NEW k \in DOMAIN calls' PROVE Granted(calls'[k], held')
  <2>1. k + 1 \in DOMAIN calls /\ calls'[k] = calls[k + 1]
    BY <1>1, <1>2
  <2> QED
    BY <1>1, <2>1 DEF IInv, OnlyHeld, Granted
<1>6. TypeOK'
  BY <1>1, <1>3, <1>4 DEF IInv, TypeOK
<1> QED
  BY <1>1, <1>5, <1>6 DEF IInv, OnlyHeld, Granted

LEMMA StepKeeps == IInv /\ [Next]_vars => IInv'
<1> SUFFICES ASSUME IInv, [Next]_vars PROVE IInv'
  OBVIOUS
<1>1. ASSUME NEW p \in Pods, Create(p) \/ Start(p) \/ Finish(p) \/ Delete(p) PROVE IInv'
  BY <1>1, ClusterStep, ChangeKeeps
<1>2. CASE WatchBreaks
  <2>1. /\ pods' = pods /\ held' = held /\ known' = known /\ deltas' = deltas
        /\ queue' = queue /\ moved' = moved /\ calls' = calls /\ cache' = cache
        /\ changes' = changes + 1 /\ changes < MaxChanges /\ watching' = FALSE
    BY <1>2 DEF WatchBreaks
  <2>2. changes' \in 0..MaxChanges
    BY <2>1, MaxChangesAssumption DEF IInv, TypeOK
  <2>3. TypeOK'
    BY <2>1, <2>2 DEF IInv, TypeOK
  <2>4. OnlyHeld'
    BY <2>1 DEF IInv, OnlyHeld
  <2> QED
    BY <2>3, <2>4 DEF IInv
<1>3. CASE Quiescent \/ UNCHANGED vars
  BY <1>3 DEF Quiescent, vars, clusterVars, informerVars, IInv, TypeOK, OnlyHeld, Granted
<1> QED
  BY <1>1, <1>2, <1>3, ListKeeps, PopKeeps, HandleKeeps DEF Next

LEMMA Invariance == Spec => []IInv
  BY InitHolds, StepKeeps, PTL DEF Spec

\* The types of the cluster, the informer and the map, for any set of pods.
THEOREM TypeCorrect == Spec => []TypeOK
<1>1. IInv => TypeOK
  BY DEF IInv
<1> QED
  BY <1>1, Invariance, PTL

-----------------------------------------------------------------------------
LEMMA InitDirectory == Init => Directory!DirectoryInit
<1> SUFFICES ASSUME Init PROVE Directory!DirectoryInit
  OBVIOUS
<1>1. held \in SUBSET (Pods \X IPs)
  BY InitHolds DEF IInv, TypeOK
<1> QED
  BY <1>1 DEF Init, Directory!DirectoryInit

LEMMA StepDirectory ==
  IInv /\ [Next]_vars => [Directory!DirectoryNext]_(Directory!directoryVars)
<1> SUFFICES ASSUME IInv, [Next]_vars
             PROVE  [Directory!DirectoryNext]_(Directory!directoryVars)
  OBVIOUS
<1> USE DEF Directory!DirectoryNext, Directory!directoryVars
<1>1. ASSUME NEW p \in Pods, Create(p) \/ Start(p) \/ Finish(p) \/ Delete(p)
      PROVE  [Directory!DirectoryNext]_(Directory!directoryVars)
  <2>1. PICK new \in PodStates : Change(p, new)
    BY <1>1, ClusterStep
  <2>2. CASE new.ip = NoIP
    BY <2>1, <2>2 DEF Change
  <2>3. CASE new.ip # NoIP
    <3>1. new.ip \in IPs
      BY <2>3 DEF PodStates
    <3>2. Directory!Gain(p, new.ip)
      BY <2>1, <2>3 DEF Change, Directory!Gain
    <3> QED
      BY <3>1, <3>2
  <2> QED
    BY <2>2, <2>3
<1>2. CASE Handle
  BY <1>2, HandleCases DEF Directory!Forget, Directory!Learn
<1>3. CASE WatchBreaks \/ List \/ Pop \/ Quiescent \/ UNCHANGED vars
  BY <1>3 DEF Quiescent, WatchBreaks, List, Pop, vars, clusterVars
<1> QED
  BY <1>1, <1>2, <1>3 DEF Next

\* The cache implements what its readers rely on, in whatever order the informer
\* hands out the changes and however often it lists again: a lookup finds only
\* a pod that has had the address.
THEOREM CacheImplementsDirectory == Spec => ImplementsDirectory
<1>1. Spec => Init /\ [][Next]_vars /\ []IInv
  BY Invariance DEF Spec
<1> QED
  BY <1>1, InitDirectory, StepDirectory, PTL DEF ImplementsDirectory, Directory!DirectorySpec
-----------------------------------------------------------------------------
(* What is in the map once every call has been made.                       *)

Call(op, p, i) == [op |-> op, pod |-> p, ip |-> i]

Opposite(op) == IF op = "set" THEN "delete" ELSE "set"

\* The opposite of the call is not made by s.
NotUndone(s, op, p, i) == \A k \in DOMAIN s : s[k] # Call(Opposite(op), p, i)

\* The call is made by s, and not undone after it.
Made(s, op, p, i) ==
  \E k \in DOMAIN s : /\ s[k] = Call(op, p, i)
                      /\ \A j \in DOMAIN s : j > k => s[j] # Call(Opposite(op), p, i)

\* The calls of s all use an address their pod has had.
Had(s, h) == \A k \in DOMAIN s : s[k].ip # NoIP => <<s[k].pod, s[k].ip>> \in h

LEMMA MadeAfter ==
  ASSUME NEW s \in Seq(Calls), NEW t \in Seq(Calls), NEW op, NEW p, NEW i
  PROVE  /\ Made(t, op, p, i) => Made(s \o t, op, p, i)
         /\ Made(s, op, p, i) /\ NotUndone(t, op, p, i) => Made(s \o t, op, p, i)
         /\ NotUndone(s, op, p, i) /\ NotUndone(t, op, p, i) => NotUndone(s \o t, op, p, i)
<1> DEFINE u == s \o t
           m == Len(s)
           n == Len(t)
<1>1. m \in Nat /\ n \in Nat /\ DOMAIN s = 1..m /\ DOMAIN t = 1..n
  OBVIOUS
<1>2. /\ DOMAIN u = 1..(m + n)
      /\ \A k \in 1..m : u[k] = s[k]
      /\ \A k \in 1..n : u[m + k] = t[k]
      /\ \A k \in 1..(m + n) : k > m => k - m \in 1..n /\ u[k] = t[k - m]
  OBVIOUS
<1> HIDE DEF u, m, n
<1>3. Made(t, op, p, i) => Made(u, op, p, i)
  <2> SUFFICES ASSUME Made(t, op, p, i) PROVE Made(u, op, p, i)
    OBVIOUS
  <2>1. PICK k \in 1..n : /\ t[k] = Call(op, p, i)
                          /\ \A j \in 1..n : j > k => t[j] # Call(Opposite(op), p, i)
    BY <1>1 DEF Made
  <2>2. m + k \in 1..(m + n) /\ u[m + k] = Call(op, p, i)
    BY <1>1, <1>2, <2>1
  <2>3. \A j \in 1..(m + n) : j > m + k => u[j] # Call(Opposite(op), p, i)
    BY <1>1, <1>2, <2>1
  <2> QED
    BY <1>2, <2>2, <2>3 DEF Made
<1>4. Made(s, op, p, i) /\ NotUndone(t, op, p, i) => Made(u, op, p, i)
  <2> SUFFICES ASSUME Made(s, op, p, i), NotUndone(t, op, p, i) PROVE Made(u, op, p, i)
    OBVIOUS
  <2>1. PICK k \in 1..m : /\ s[k] = Call(op, p, i)
                          /\ \A j \in 1..m : j > k => s[j] # Call(Opposite(op), p, i)
    BY <1>1 DEF Made
  <2>2. k \in 1..(m + n) /\ u[k] = Call(op, p, i)
    BY <1>1, <1>2, <2>1
  <2>3. \A j \in 1..(m + n) : j > k => u[j] # Call(Opposite(op), p, i)
    <3>1. \A j \in 1..n : t[j] # Call(Opposite(op), p, i)
      BY <1>1 DEF NotUndone
    <3>2. \A j \in 1..m : j > k => u[j] # Call(Opposite(op), p, i)
      BY <1>2, <2>1
    <3>3. \A j \in 1..(m + n) : j > m => u[j] # Call(Opposite(op), p, i)
      BY <1>2, <3>1
    <3> QED
      BY <1>1, <3>2, <3>3
  <2> QED
    BY <1>2, <2>2, <2>3 DEF Made
<1>5. NotUndone(s, op, p, i) /\ NotUndone(t, op, p, i) => NotUndone(u, op, p, i)
  BY <1>1, <1>2 DEF NotUndone
<1> QED
  BY <1>3, <1>4, <1>5 DEF u

\* The first call is made.
LEMMA MadeNext ==
  ASSUME NEW s \in Seq(Calls), s # <<>>, NEW op, NEW p, NEW i
  PROVE  /\ Made(s, op, p, i) => \/ Made(Tail(s), op, p, i)
                                 \/ Head(s) = Call(op, p, i) /\ NotUndone(Tail(s), op, p, i)
         /\ NotUndone(s, op, p, i) => /\ Head(s) # Call(Opposite(op), p, i)
                                      /\ NotUndone(Tail(s), op, p, i)
<1> DEFINE t == Tail(s)
           n == Len(t)
<1>1. /\ n \in Nat /\ DOMAIN t = 1..n /\ DOMAIN s = 1..(n + 1) /\ Head(s) = s[1]
      /\ \A k \in 1..n : t[k] = s[k + 1]
  OBVIOUS
<1> HIDE DEF t, n
<1>2. NotUndone(s, op, p, i) => Head(s) # Call(Opposite(op), p, i) /\ NotUndone(t, op, p, i)
  BY <1>1 DEF NotUndone
<1>3. ASSUME Made(s, op, p, i)
      PROVE  Made(t, op, p, i) \/ (Head(s) = Call(op, p, i) /\ NotUndone(t, op, p, i))
  <2>1. PICK k \in 1..(n + 1) :
          /\ s[k] = Call(op, p, i)
          /\ \A j \in 1..(n + 1) : j > k => s[j] # Call(Opposite(op), p, i)
    BY <1>1, <1>3 DEF Made
  <2>2. CASE k = 1
    BY <1>1, <2>1, <2>2 DEF NotUndone
  <2>3. CASE k > 1
    <3>1. k - 1 \in 1..n /\ t[k - 1] = Call(op, p, i)
      BY <1>1, <2>1, <2>3
    <3>2. \A j \in 1..n : j > k - 1 => t[j] # Call(Opposite(op), p, i)
      BY <1>1, <2>1, <2>3
    <3> QED
      BY <1>1, <3>1, <3>2 DEF Made
  <2> QED
    BY <1>1, <2>2, <2>3
<1> QED
  BY <1>2, <1>3 DEF t

\* One call that is not the opposite.
LEMMA OneCall ==
  ASSUME NEW c, NEW op, NEW p, NEW i
  PROVE  /\ c # Call(Opposite(op), p, i) => NotUndone(<<c>>, op, p, i)
         /\ c = Call(op, p, i) => Made(<<c>>, op, p, i)
<1>1. DOMAIN <<c>> = {1} /\ <<c>>[1] = c
  OBVIOUS
<1> QED
  BY <1>1 DEF Made, NotUndone

-----------------------------------------------------------------------------
(* The informer loses nothing.                                             *)

\* Once all calls that are due have been made the entry of i names p, for "set", or does
\* not name p, for "delete".
InTheEnd(op, p, i) ==
  \/ Made(deltas[p], op, p, i)
  \/ /\ NotUndone(deltas[p], op, p, i)
     /\ \/ Made(calls, op, p, i)
        \/ /\ NotUndone(calls, op, p, i)
           /\ IF op = "set" THEN cache[i] = p ELSE cache[i] # p

Shared(p, i) == \E q \in Pods \ {p} : <<q, i>> \in held

\* What the informer knows it has heard of the cluster, or will when the watch is back;
\* what it holds back is in its queue, under the name of the pod it is about.
InformerKeepsUp ==
  /\ watching => known = pods
  /\ \A p \in Pods : known[p].ip # NoIP => <<p, known[p].ip>> \in held
  /\ \A p \in Pods : deltas[p] # <<>> => \E k \in DOMAIN queue : queue[k] = p
  /\ \A p \in Pods : \A k \in DOMAIN deltas[p] : deltas[p][k].pod = p
  /\ \A p \in Pods : Had(deltas[p], held)
  /\ Had(calls, held)

\* The address of a pod as the informer knows it will be in the map.
KnownIsComing ==
  \A p \in Pods, i \in IPs : known[p].ip = i => Shared(p, i) \/ InTheEnd("set", p, i)

\* Any other address will not be, under the pod's name.
OthersAreGoing ==
  \A p \in Pods, i \in IPs : known[p].ip # i => p \in moved \/ InTheEnd("delete", p, i)

\* UnsharedIsFound and LeftoversMoved speak of a settled map only: what holds before is
\* what the calls that are due will make of it.
CatchUpInv == IInv /\ InformerKeepsUp /\ KnownIsComing /\ OthersAreGoing

LEMMA InitCatchUp == Init => CatchUpInv
<1> SUFFICES ASSUME Init PROVE CatchUpInv
  OBVIOUS
<1>1. /\ ~watching /\ calls = <<>> /\ \A i \in IPs : cache[i] = Nobody
      /\ \A p \in Pods : known[p].ip = NoIP /\ deltas[p] = <<>>
  BY DEF Init, Absent
<1>2. DOMAIN <<>> = {}
  OBVIOUS
<1>3. InformerKeepsUp
  BY <1>1, <1>2 DEF InformerKeepsUp, Had
<1>4. KnownIsComing
  BY <1>1, NoIPAssumption DEF KnownIsComing
<1>5. OthersAreGoing
  BY <1>1, <1>2, NobodyAssumption DEF OthersAreGoing, InTheEnd, NotUndone
<1> QED
  BY <1>3, <1>4, <1>5, InitHolds DEF CatchUpInv

\* A call held back at the end decides, if it is about the address.
LEMMA HeldBack ==
  ASSUME TypeOK, NEW p \in Pods, NEW i \in IPs, NEW op \in {"set", "delete"}, NEW c \in Calls,
         deltas'[p] = Append(deltas[p], c), calls' = calls, cache' = cache
  PROVE  /\ c = Call(op, p, i) => InTheEnd(op, p, i)'
         /\ InTheEnd(op, p, i) /\ c # Call(Opposite(op), p, i) => InTheEnd(op, p, i)'
<1>1. deltas[p] \in Seq(Calls) /\ <<c>> \in Seq(Calls) /\ deltas'[p] = deltas[p] \o <<c>>
  <2>1. deltas[p] \in Seq(Calls)
    BY DEF TypeOK
  <2> QED
    BY <2>1
<1>2. c = Call(op, p, i) => Made(deltas'[p], op, p, i)
  BY <1>1, MadeAfter, OneCall
<1>3. c # Call(Opposite(op), p, i) =>
        /\ Made(deltas[p], op, p, i) => Made(deltas'[p], op, p, i)
        /\ NotUndone(deltas[p], op, p, i) => NotUndone(deltas'[p], op, p, i)
  BY <1>1, MadeAfter, OneCall
<1> QED
  BY <1>2, <1>3 DEF InTheEnd

\* The informer hears of pods whose last state is the one it knows.
LEMMA HearCatchesUp ==
  ASSUME CatchUpInv, NEW ps \in SUBSET Pods, NEW now \in [Pods -> PodStates],
         Hear(ps, now, known), calls' = calls, cache' = cache,
         held \subseteq held', \A p \in ps : now[p].ip # NoIP => <<p, now[p].ip>> \in held',
         \A p \in ps : now[p].phase = "absent" => now[p].ip = NoIP
  PROVE  /\ \A p \in Pods : known'[p].ip # NoIP => <<p, known'[p].ip>> \in held'
         /\ \A p \in Pods : deltas'[p] # <<>> => \E k \in DOMAIN queue' : queue'[k] = p
         /\ \A p \in Pods : \A k \in DOMAIN deltas'[p] : deltas'[p][k].pod = p
         /\ \A p \in Pods : Had(deltas'[p], held')
         /\ KnownIsComing' /\ OthersAreGoing'
<1> DEFINE c(p) == CallFor(p, now[p], known[p])
<1>1. /\ \A p \in Pods : known'[p] = IF p \in ps THEN now[p] ELSE known[p]
      /\ \A p \in Pods : deltas'[p] = IF p \in ps THEN Append(deltas[p], c(p)) ELSE deltas[p]
      /\ moved' = moved \cup {p \in ps : /\ now[p].phase # "absent"
                                        /\ known[p].ip \notin {NoIP, now[p].ip}}
  BY DEF Hear
<1>2. /\ TypeOK /\ InformerKeepsUp /\ KnownIsComing /\ OthersAreGoing
      /\ known \in [Pods -> PodStates]
      /\ \A p \in Pods : deltas[p] \in Seq(Calls)
  BY DEF CatchUpInv, IInv, TypeOK
<1>3. \A p \in ps : c(p) \in Calls /\ c(p).pod = p
  BY <1>2 DEF CallFor, Calls, PodStates
<1>4. \A p \in ps : c(p).ip # NoIP => <<p, c(p).ip>> \in held'
  BY <1>2 DEF CallFor, InformerKeepsUp
<1>5. \A p \in ps : c(p) = IF now[p].phase = "absent" THEN Call("delete", p, known[p].ip)
                                                    ELSE Call("set", p, now[p].ip)
  BY DEF CallFor, Call
<1> HIDE DEF c
<1>6. \A p \in Pods : known'[p].ip # NoIP => <<p, known'[p].ip>> \in held'
  BY <1>1, <1>2 DEF InformerKeepsUp
<1>7. ASSUME NEW p \in Pods, deltas'[p] # <<>> PROVE \E k \in DOMAIN queue' : queue'[k] = p
  <2> DEFINE new == {q \in ps : deltas[q] = <<>>}
  <2>1. Cardinality(new) \in Nat
    BY PodsAssumption, FS_Subset, FS_CardinalityType
  <2>2. PICK order \in [1..Cardinality(new) -> new] :
          /\ \A q \in ps : deltas[q] = <<>> => \E k \in DOMAIN order : order[k] = q
          /\ queue' = queue \o order
    BY DEF Hear
  <2>3. DOMAIN order = 1..Cardinality(new)
    BY <2>2
  <2>4. order \in Seq(Pods) /\ queue \in Seq(Pods)
    <3>1. order \in [1..Cardinality(new) -> Pods]
      BY <2>2
    <3>2. queue \in Seq(Pods)
      BY <1>2 DEF TypeOK
    <3> HIDE DEF new
    <3> QED
      BY <2>1, <3>1, <3>2
  <2> HIDE DEF new
  <2>5. CASE deltas[p] = <<>>
    <3>1. p \in ps
      BY <1>1, <1>7, <2>5
    <3>2. PICK k \in DOMAIN order : order[k] = p
      BY <2>2, <2>5, <3>1
    <3>3. Len(queue) + k \in DOMAIN queue' /\ queue'[Len(queue) + k] = p
      <4>1. DOMAIN order = 1..Len(order) /\ Len(order) \in Nat /\ Len(queue) \in Nat
        BY <2>4
      <4>2. k \in 1..Len(order) /\ order[k] = p
        BY <3>2, <4>1
      <4> QED
        BY <2>2, <2>4, <4>1, <4>2
    <3> QED
      BY <3>3
  <2>6. CASE deltas[p] # <<>>
    <3>1. PICK k \in DOMAIN queue : queue[k] = p
      BY <1>2, <2>6 DEF InformerKeepsUp
    <3>2. k \in DOMAIN queue' /\ queue'[k] = p
      BY <2>2, <2>4, <3>1
    <3> QED
      BY <3>2
  <2> QED
    BY <2>5, <2>6
<1>8. ASSUME NEW p \in Pods, NEW k \in DOMAIN deltas'[p]
      PROVE  /\ deltas'[p][k].pod = p
             /\ deltas'[p][k].ip # NoIP => <<deltas'[p][k].pod, deltas'[p][k].ip>> \in held'
  <2>1. deltas[p] \in Seq(Calls) /\ Had(deltas[p], held)
        /\ \A j \in DOMAIN deltas[p] : deltas[p][j].pod = p
    BY <1>2 DEF InformerKeepsUp
  <2>2. CASE k \in DOMAIN deltas[p] /\ deltas'[p][k] = deltas[p][k]
    BY <2>1, <2>2 DEF Had
  <2>3. CASE p \in ps /\ deltas'[p][k] = c(p)
    BY <1>3, <1>4, <2>3
  <2>4. (k \in DOMAIN deltas[p] /\ deltas'[p][k] = deltas[p][k]) \/ (p \in ps /\ deltas'[p][k] = c(p))
    <3>1. CASE p \in ps
      <4>1. deltas'[p] = Append(deltas[p], c(p))
        BY <1>1, <3>1
      <4> QED
        BY <1>8, <2>1, <3>1, <4>1
    <3>2. CASE p \notin ps
      BY <1>1, <1>8, <3>2
    <3> QED
      BY <3>1, <3>2
  <2> QED
    BY <2>2, <2>3, <2>4
<1>9. ASSUME NEW p \in Pods, NEW i \in IPs, known'[p].ip = i
      PROVE  Shared(p, i)' \/ InTheEnd("set", p, i)'
  <2>1. Shared(p, i) => Shared(p, i)'
    BY DEF Shared
  <2>2. CASE p \in ps
    <3>1. now[p].ip = i /\ now[p].phase # "absent"
      BY <1>1, <1>9, <2>2, NoIPAssumption
    <3>2. c(p) = Call("set", p, i) /\ deltas'[p] = Append(deltas[p], c(p)) /\ c(p) \in Calls
      BY <1>1, <1>3, <1>5, <2>2, <3>1
    <3> QED
      BY <1>2, <3>2, HeldBack
  <2>3. CASE p \notin ps
    BY <1>1, <1>2, <1>9, <2>1, <2>3 DEF KnownIsComing, InTheEnd
  <2> QED
    BY <2>2, <2>3
<1>10. ASSUME NEW p \in Pods, NEW i \in IPs, known'[p].ip # i
       PROVE  p \in moved' \/ InTheEnd("delete", p, i)'
  <2>1. CASE p \in ps
    <3>1. now[p].ip # i /\ deltas'[p] = Append(deltas[p], c(p)) /\ c(p) \in Calls
      BY <1>1, <1>3, <1>10, <2>1
    <3>2. CASE known[p].ip = i /\ now[p].phase = "absent"
      <4>1. c(p) = Call("delete", p, i)
        BY <1>5, <2>1, <3>2
      <4> QED
        BY <1>2, <3>1, <4>1, HeldBack
    <3>3. CASE known[p].ip = i /\ now[p].phase # "absent"
      BY <1>1, <2>1, <3>1, <3>3, NoIPAssumption
    <3>4. CASE known[p].ip # i
      <4>1. c(p) # Call("set", p, i)
        BY <1>5, <2>1, <3>1 DEF Call
      <4>2. Opposite("delete") = "set"
        BY DEF Opposite
      <4>3. p \in moved \/ InTheEnd("delete", p, i)
        BY <1>2, <3>4 DEF OthersAreGoing
      <4> QED
        BY <1>1, <1>2, <3>1, <4>1, <4>2, <4>3, HeldBack
    <3> QED
      BY <3>2, <3>3, <3>4
  <2>2. CASE p \notin ps
    BY <1>1, <1>2, <1>10, <2>2 DEF OthersAreGoing, InTheEnd
  <2> QED
    BY <2>1, <2>2
<1> QED
  BY <1>6, <1>7, <1>8, <1>9, <1>10 DEF KnownIsComing, OthersAreGoing, Had

LEMMA ChangeCatchesUp ==
  ASSUME CatchUpInv, NEW p \in Pods, NEW new \in PodStates, Change(p, new),
         (new.ip = NoIP) <=> (new.phase \in {"absent", "pending"})
  PROVE  CatchUpInv'
<1>1. IInv' /\ IInv
  BY ChangeKeeps DEF CatchUpInv
<1>2. /\ pods' \in [Pods -> PodStates] /\ held \subseteq held'
      /\ \A q \in Pods : pods'[q].ip # NoIP => <<q, pods'[q].ip>> \in held'
      /\ \A q \in Pods : pods'[q].phase = "absent" => pods'[q].ip = NoIP
      /\ calls' = calls /\ cache' = cache /\ watching' = watching
      /\ \A q \in Pods \ {p} : pods'[q] = pods[q]
  BY <1>1 DEF Change, IInv, TypeOK, OnlyHeld
<1>3. Had(calls', held')
  BY <1>2 DEF CatchUpInv, InformerKeepsUp, Had
<1>4. CASE watching
  <2>1. Hear({p}, pods', known) /\ known = pods
    BY <1>4 DEF Change, CatchUpInv, InformerKeepsUp
  <2>2. known' = pods'
    BY <1>1, <1>2, <2>1 DEF Hear, IInv, TypeOK
  <2>3. {p} \in SUBSET Pods
    OBVIOUS
  <2>4. /\ \A q \in Pods : known'[q].ip # NoIP => <<q, known'[q].ip>> \in held'
        /\ \A q \in Pods : deltas'[q] # <<>> => \E k \in DOMAIN queue' : queue'[k] = q
        /\ \A q \in Pods : \A k \in DOMAIN deltas'[q] : deltas'[q][k].pod = q
        /\ \A q \in Pods : Had(deltas'[q], held')
        /\ KnownIsComing' /\ OthersAreGoing'
    BY <1>2, <2>1, <2>3, HearCatchesUp
  <2> QED
    BY <1>1, <1>3, <2>2, <2>4 DEF CatchUpInv, InformerKeepsUp
<1>5. CASE ~watching
  <2>1. known' = known /\ deltas' = deltas /\ queue' = queue /\ moved' = moved
    BY <1>5 DEF Change
  <2>2. InformerKeepsUp'
    BY <1>2, <1>3, <1>5, <2>1 DEF CatchUpInv, InformerKeepsUp, Had
  <2>3. KnownIsComing' /\ OthersAreGoing'
    BY <1>2, <2>1 DEF CatchUpInv, KnownIsComing, OthersAreGoing, InTheEnd, Shared
  <2> QED
    BY <1>1, <2>2, <2>3 DEF CatchUpInv
<1> QED
  BY <1>4, <1>5

LEMMA ListCatchesUp == ASSUME CatchUpInv, List PROVE CatchUpInv'
<1> DEFINE ps == {p \in Pods : pods[p] # Absent \/ known[p] # Absent}
<1>1. /\ Hear(ps, pods, known) /\ watching' = TRUE
      /\ pods' = pods /\ held' = held /\ calls' = calls /\ cache' = cache
  BY DEF List, clusterVars
<1>2. IInv' /\ IInv
  BY ListKeeps DEF CatchUpInv
<1>3. /\ pods \in [Pods -> PodStates] /\ known \in [Pods -> PodStates]
      /\ \A p \in Pods : pods[p].ip # NoIP => <<p, pods[p].ip>> \in held'
      /\ \A p \in Pods : pods[p].phase = "absent" => pods[p].ip = NoIP
  BY <1>1, <1>2 DEF IInv, TypeOK, OnlyHeld
<1>4. known' = pods'
  BY <1>1, <1>3 DEF Hear
<1>5. ps \in SUBSET Pods
  OBVIOUS
<1> HIDE DEF ps
<1>6. /\ \A q \in Pods : known'[q].ip # NoIP => <<q, known'[q].ip>> \in held'
      /\ \A q \in Pods : deltas'[q] # <<>> => \E k \in DOMAIN queue' : queue'[k] = q
      /\ \A q \in Pods : \A k \in DOMAIN deltas'[q] : deltas'[q][k].pod = q
      /\ \A q \in Pods : Had(deltas'[q], held')
      /\ KnownIsComing' /\ OthersAreGoing'
  BY <1>1, <1>3, <1>5, HearCatchesUp
<1>7. Had(calls', held')
  BY <1>1 DEF CatchUpInv, InformerKeepsUp
<1> QED
  BY <1>2, <1>4, <1>6, <1>7 DEF CatchUpInv, InformerKeepsUp

\* Whose calls become due: those of p decide as they did while they were held back, and
\* those of another pod are not about p.
LEMMA PopCatchesUp == ASSUME CatchUpInv, Pop PROVE CatchUpInv'
<1> DEFINE q == Head(queue)
<1>1. /\ q \in Pods /\ queue \in Seq(Pods) /\ queue # <<>> /\ queue' = Tail(queue)
      /\ q = queue[1]
      /\ calls' = calls \o deltas[q] /\ deltas' = [deltas EXCEPT ![q] = <<>>]
      /\ pods' = pods /\ held' = held /\ watching' = watching
      /\ known' = known /\ moved' = moved /\ cache' = cache
  BY DEF Pop, clusterVars, CatchUpInv, IInv, TypeOK
<1> HIDE DEF q
<1>2. IInv' /\ IInv
  BY PopKeeps DEF CatchUpInv
<1>3. calls \in Seq(Calls) /\ deltas \in [Pods -> Seq(Calls)]
  BY <1>2 DEF IInv, TypeOK
<1>4. deltas[q] \in Seq(Calls) /\ deltas'[q] = <<>> /\ DOMAIN <<>> = {}
      /\ \A p \in Pods \ {q} : deltas'[p] = deltas[p]
  BY <1>1, <1>3
<1>5. ASSUME NEW p \in Pods, NEW i \in IPs, NEW op \in {"set", "delete"}, InTheEnd(op, p, i)
      PROVE  InTheEnd(op, p, i)'
  <2>1. CASE p = q
    <3>1. ~Made(<<>>, op, p, i) /\ NotUndone(<<>>, op, p, i)
      BY <1>4 DEF Made, NotUndone
    <3>2. \/ Made(calls', op, p, i)
          \/ /\ NotUndone(calls', op, p, i)
             /\ IF op = "set" THEN cache[i] = p ELSE cache[i] # p
      BY <1>1, <1>3, <1>4, <1>5, <2>1, MadeAfter DEF InTheEnd
    <3> QED
      BY <1>1, <1>4, <2>1, <3>1, <3>2 DEF InTheEnd
  <2>2. CASE p # q
    <3>1. NotUndone(deltas[q], op, p, i)
      BY <1>1, <2>2 DEF CatchUpInv, InformerKeepsUp, NotUndone, Call
    <3>2. /\ Made(calls, op, p, i) => Made(calls', op, p, i)
          /\ NotUndone(calls, op, p, i) => NotUndone(calls', op, p, i)
      BY <1>1, <1>3, <1>4, <3>1, MadeAfter
    <3> QED
      BY <1>1, <1>4, <1>5, <2>2, <3>2 DEF InTheEnd
  <2> QED
    BY <2>1, <2>2
<1>6. KnownIsComing' /\ OthersAreGoing'
  BY <1>1, <1>5 DEF CatchUpInv, KnownIsComing, OthersAreGoing, Shared
<1>7. ASSUME NEW p \in Pods, deltas'[p] # <<>> PROVE \E k \in DOMAIN queue' : queue'[k] = p
  <2>1. p # q /\ deltas[p] # <<>>
    BY <1>4, <1>7
  <2>2. PICK k \in DOMAIN queue : queue[k] = p
    BY <2>1 DEF CatchUpInv, InformerKeepsUp
  <2>3. k # 1
    BY <1>1, <2>1, <2>2
  <2>4. k - 1 \in DOMAIN queue' /\ queue'[k - 1] = p
    BY <1>1, <2>2, <2>3
  <2> QED
    BY <2>4
<1>8. ASSUME NEW p \in Pods
      PROVE  Had(deltas'[p], held') /\ \A k \in DOMAIN deltas'[p] : deltas'[p][k].pod = p
  <2>1. CASE p = q
    BY <1>4, <2>1 DEF Had
  <2>2. CASE p # q
    BY <1>1, <1>4, <2>2 DEF CatchUpInv, InformerKeepsUp
  <2> QED
    BY <2>1, <2>2
<1>9. Had(calls', held')
  <2>1. Had(calls, held) /\ Had(deltas[q], held)
    BY <1>1 DEF CatchUpInv, InformerKeepsUp
  <2>2. \A k \in DOMAIN calls' : \/ k \in DOMAIN calls /\ calls'[k] = calls[k]
                                 \/ \E j \in DOMAIN deltas[q] : calls'[k] = deltas[q][j]
    <3> SUFFICES ASSUME NEW k \in DOMAIN calls', k \notin DOMAIN calls
                 PROVE  \E j \in DOMAIN deltas[q] : calls'[k] = deltas[q][j]
      BY <1>1, <1>3, <1>4
    <3>1. /\ k - Len(calls) \in DOMAIN deltas[q]
          /\ calls'[k] = deltas[q][k - Len(calls)]
      BY <1>1, <1>3, <1>4
    <3> QED
      BY <3>1
  <2>3. /\ \A k \in DOMAIN calls : calls[k].ip # NoIP => <<calls[k].pod, calls[k].ip>> \in held
        /\ \A j \in DOMAIN deltas[q] :
             deltas[q][j].ip # NoIP => <<deltas[q][j].pod, deltas[q][j].ip>> \in held
    BY <2>1 DEF Had
  <2>4. \A k \in DOMAIN calls' :
          calls'[k].ip # NoIP => <<calls'[k].pod, calls'[k].ip>> \in held
    BY <2>2, <2>3
  <2> QED
    BY <1>1, <2>4 DEF Had
<1>10. InformerKeepsUp'
  BY <1>1, <1>7, <1>8, <1>9 DEF CatchUpInv, InformerKeepsUp
<1> QED
  BY <1>2, <1>6, <1>10 DEF CatchUpInv

\* The call that is made is the last word, or another one follows.
LEMMA HandleCatchesUp == ASSUME CatchUpInv, Handle PROVE CatchUpInv'
<1> DEFINE c == Head(calls)
<1>1. /\ pods' = pods /\ held' = held /\ watching' = watching
      /\ known' = known /\ deltas' = deltas /\ queue' = queue /\ moved' = moved
      /\ calls # <<>> /\ calls' = Tail(calls)
      /\ cache' = IF c.op = "set" THEN Stored(c) ELSE Removed(c)
  BY DEF Handle, clusterVars, informerVars
<1>2. IInv' /\ IInv
  BY HandleKeeps DEF CatchUpInv
<1>3. calls \in Seq(Calls) /\ cache \in [IPs -> Pods \cup {Nobody}]
  BY <1>2 DEF IInv, TypeOK
<1>4. c \in Calls /\ c = calls[1] /\ 1 \in DOMAIN calls
  BY <1>1, <1>3
<1>5. \A k \in DOMAIN calls' : k + 1 \in DOMAIN calls /\ calls'[k] = calls[k + 1]
  BY <1>1, <1>3
<1>6. \A i \in IPs : cache'[i] = IF c.ip # i THEN cache[i]
                                ELSE IF c.op = "set" THEN c.pod ELSE Nobody
  BY <1>1, <1>3, <1>4, NoIPAssumption DEF Stored, Removed, Calls
<1>7. c.op \in {"set", "delete"} /\ c.pod \in Pods /\ c = Call(c.op, c.pod, c.ip)
  BY <1>4 DEF Calls, Call
<1>8. \A op, p, i : /\ Made(calls, op, p, i) =>
                         \/ Made(calls', op, p, i)
                         \/ c = Call(op, p, i) /\ NotUndone(calls', op, p, i)
                    /\ NotUndone(calls, op, p, i) =>
                         c # Call(Opposite(op), p, i) /\ NotUndone(calls', op, p, i)
  BY <1>1, <1>3, MadeNext
<1>9. Had(calls, held)
  BY DEF CatchUpInv, InformerKeepsUp
<1> HIDE DEF c
<1>10. InformerKeepsUp'
  <2>1. Had(calls', held')
    BY <1>1, <1>5, <1>9 DEF Had
  <2> QED
    BY <1>1, <2>1 DEF CatchUpInv, InformerKeepsUp
<1>11. ASSUME NEW p \in Pods, NEW i \in IPs, known'[p].ip = i
       PROVE  Shared(p, i)' \/ InTheEnd("set", p, i)'
  <2> SUFFICES ASSUME ~Shared(p, i) PROVE InTheEnd("set", p, i)'
    BY <1>1 DEF Shared
  <2>1. InTheEnd("set", p, i)
    BY <1>1, <1>11 DEF CatchUpInv, KnownIsComing
  <2>2. c.ip = i => c.pod = p
    BY <1>4, <1>7, <1>9, NoIPAssumption DEF Had, Shared
  <2>3. Made(calls', "set", p, i) \/ (NotUndone(calls', "set", p, i) /\ cache'[i] = p)
        \/ Made(deltas[p], "set", p, i)
    <3>1. /\ Made(calls, "set", p, i) =>
               \/ Made(calls', "set", p, i)
               \/ c = Call("set", p, i) /\ NotUndone(calls', "set", p, i)
          /\ NotUndone(calls, "set", p, i) =>
               c # Call("delete", p, i) /\ NotUndone(calls', "set", p, i)
      BY <1>8 DEF Opposite
    <3>2. CASE c = Call("set", p, i) /\ NotUndone(calls', "set", p, i)
      BY <1>6, <3>2 DEF Call
    <3>3. CASE /\ NotUndone(calls', "set", p, i) /\ cache[i] = p
               /\ c # Call("delete", p, i)
      BY <1>6, <1>7, <2>2, <3>3
    <3>4. \/ Made(deltas[p], "set", p, i)
          \/ Made(calls, "set", p, i)
          \/ NotUndone(calls, "set", p, i) /\ cache[i] = p
      BY <2>1 DEF InTheEnd
    <3> QED
      BY <3>1, <3>2, <3>3, <3>4
  <2> QED
    BY <1>1, <2>1, <2>3 DEF InTheEnd
<1>12. ASSUME NEW p \in Pods, NEW i \in IPs, known'[p].ip # i
       PROVE  p \in moved' \/ InTheEnd("delete", p, i)'
  <2> SUFFICES ASSUME p \notin moved PROVE InTheEnd("delete", p, i)'
    BY <1>1
  <2>1. InTheEnd("delete", p, i)
    BY <1>1, <1>12 DEF CatchUpInv, OthersAreGoing
  <2>2. Made(calls', "delete", p, i) \/ (NotUndone(calls', "delete", p, i) /\ cache'[i] # p)
        \/ Made(deltas[p], "delete", p, i)
    <3>1. /\ Made(calls, "delete", p, i) =>
               \/ Made(calls', "delete", p, i)
               \/ c = Call("delete", p, i) /\ NotUndone(calls', "delete", p, i)
          /\ NotUndone(calls, "delete", p, i) =>
               c # Call("set", p, i) /\ NotUndone(calls', "delete", p, i)
      BY <1>8 DEF Opposite
    <3>2. CASE c = Call("delete", p, i) /\ NotUndone(calls', "delete", p, i)
      BY <1>6, <3>2, NobodyAssumption DEF Call
    <3>3. CASE /\ NotUndone(calls', "delete", p, i) /\ cache[i] # p
               /\ c # Call("set", p, i)
      BY <1>6, <1>7, <3>3, NobodyAssumption
    <3>4. \/ Made(deltas[p], "delete", p, i)
          \/ Made(calls, "delete", p, i)
          \/ NotUndone(calls, "delete", p, i) /\ cache[i] # p
      BY <2>1 DEF InTheEnd
    <3> QED
      BY <3>1, <3>2, <3>3, <3>4
  <2> QED
    BY <1>1, <2>1, <2>2 DEF InTheEnd
<1> QED
  BY <1>2, <1>10, <1>11, <1>12 DEF CatchUpInv, KnownIsComing, OthersAreGoing

LEMMA StepCatchesUp == CatchUpInv /\ [Next]_vars => CatchUpInv'
<1> SUFFICES ASSUME CatchUpInv, [Next]_vars PROVE CatchUpInv'
  OBVIOUS
<1>1. IInv /\ IInv'
  BY StepKeeps DEF CatchUpInv
<1>2. ASSUME NEW p \in Pods, Create(p) \/ Start(p) \/ Finish(p) \/ Delete(p)
      PROVE  CatchUpInv'
  BY <1>1, <1>2, ClusterStep, ChangeCatchesUp
<1>3. CASE WatchBreaks \/ Quiescent \/ UNCHANGED vars
  <2>1. /\ pods' = pods /\ held' = held /\ known' = known /\ deltas' = deltas
        /\ queue' = queue /\ moved' = moved /\ calls' = calls /\ cache' = cache
        /\ watching' => watching
    BY <1>3 DEF WatchBreaks, Quiescent, vars, clusterVars, informerVars
  <2>2. InformerKeepsUp'
    BY <2>1 DEF CatchUpInv, InformerKeepsUp
  <2>3. KnownIsComing' /\ OthersAreGoing'
    BY <2>1 DEF CatchUpInv, KnownIsComing, OthersAreGoing, InTheEnd, Shared
  <2> QED
    BY <1>1, <2>2, <2>3 DEF CatchUpInv
<1> QED
  BY <1>2, <1>3, ListCatchesUp, PopCatchesUp, HandleCatchesUp DEF Next

LEMMA CatchingUp == Spec => []CatchUpInv
  BY InitCatchUp, StepCatchesUp, PTL DEF Spec

\* Nothing is due any more: what was to be in the end is.
LEMMA SettledMap ==
  ASSUME CatchUpInv, Settled, NEW p \in Pods, NEW i \in IPs
  PROVE  /\ known = pods
         /\ InTheEnd("set", p, i) => cache[i] = p
         /\ InTheEnd("delete", p, i) => cache[i] # p
<1>1. known = pods /\ calls = <<>> /\ deltas[p] = <<>>
  <2>1. DOMAIN queue = {}
    BY DEF Settled
  <2> QED
    BY <2>1 DEF Settled, CatchUpInv, InformerKeepsUp
<1>2. \A op : ~Made(<<>>, op, p, i)
  BY DEF Made
<1> QED
  BY <1>1, <1>2 DEF InTheEnd

\* For any number of changes and breaks of the watch, and whatever order the informer
\* hands out the changes of different pods in: a running pod whose address was no other
\* pod's is found once the informer has caught up.
THEOREM UnsharedAreFound == Spec => []UnsharedIsFound
<1>1. CatchUpInv => UnsharedIsFound
  <2> SUFFICES ASSUME CatchUpInv, Settled, NEW p \in Pods, pods[p].phase = "running",
                      \A q \in Pods \ {p} : <<q, pods[p].ip>> \notin held
               PROVE  cache[pods[p].ip] = p
    BY DEF UnsharedIsFound
  <2> DEFINE i == pods[p].ip
  <2>1. i \in IPs
    BY DEF CatchUpInv, IInv, TypeOK, PodStates
  <2>2. known = pods
    BY <2>1, SettledMap
  <2>3. InTheEnd("set", p, i)
    BY <2>1, <2>2 DEF CatchUpInv, KnownIsComing, Shared
  <2> QED
    BY <2>1, <2>3, SettledMap
<1> QED
  BY <1>1, CatchingUp, PTL

\* What is left over in the map once the informer has caught up names a pod that got
\* another address, never one that was only deleted.
THEOREM LeftoversHaveMoved == Spec => []LeftoversMoved
<1>1. CatchUpInv => LeftoversMoved
  <2> SUFFICES ASSUME CatchUpInv, Settled, NEW i \in IPs, cache[i] # Nobody
               PROVE  pods[cache[i]].ip = i \/ cache[i] \in moved
    BY DEF LeftoversMoved
  <2> DEFINE p == cache[i]
  <2>1. p \in Pods
    BY DEF CatchUpInv, IInv, TypeOK
  <2>2. known = pods /\ ~InTheEnd("delete", p, i)
    BY <2>1, SettledMap
  <2> QED
    BY <2>1, <2>2 DEF CatchUpInv, OthersAreGoing
<1> QED
  BY <1>1, CatchingUp, PTL
=============================================================================
