------------------------- MODULE ExporterProofs ----------------------------
(***************************************************************************)
(* Proofs about the two halves of the exporter's poll, which share no      *)
(* state: LagTracker, for any nodes, any number of requests beside the     *)
(* exporter, any size of the rings and any bounds; then LifeCycle.         *)
(***************************************************************************)
EXTENDS LagTracker, LifeCycle, TLAPS

AllLags == UNION {[rs -> Lags] : rs \in SUBSET Nodes}
LagGauges == UNION {[rs -> [lag : Offsets, poll : Nat]] : rs \in SUBSET Nodes}

CallerSet ==
  [pc : {"idle", "addresses", "master", "replicas", "record", "trend", "gauges", "done"},
   master : Nodes \cup {NoNode}, listed : SUBSET Nodes, left : SUBSET Nodes,
   masterOffset : Offsets, replica : Nodes \cup {NoNode}, lag : Offsets, no : Nat,
   all : AllLags, errs : BOOLEAN, status : {"none", "ok", "error"}, steady : BOOLEAN]

\* What is known of a caller by the step it is at.  Unless a replica failed, those that are
\* neither left nor being measured are in what is returned.
Course(q) ==
  /\ q.left \subseteq q.listed
  /\ q.pc \in {"idle", "addresses", "done"} => ~q.steady
  /\ q.pc \in {"idle", "addresses", "master", "done"} => /\ ~q.errs /\ q.left = {}
                                                         /\ DOMAIN q.all = {}
  /\ q.pc \in {"master", "replicas", "record", "trend"} => q.master \in Nodes
  /\ q.pc \in {"record", "trend"} => q.replica \in q.listed
  /\ q.pc = "replicas" /\ ~q.errs => DOMAIN q.all = q.listed \ q.left
  /\ q.pc \in {"record", "trend"} /\ ~q.errs => DOMAIN q.all \cup {q.replica} = q.listed \ q.left
  /\ q.pc = "gauges" => ~q.errs /\ DOMAIN q.all = q.listed

IsTyped(q) == q \in CallerSet /\ Course(q)

ClusterType ==
  /\ master \in Nodes /\ former \in Nodes
  /\ offset \in [Nodes -> Offsets]
  /\ elections \in 0..MaxElections

RingsType ==
  /\ samples \in [Nodes -> Seq(Samples)]
  /\ \A n \in Nodes : Len(samples[n]) <= RingSize
  /\ taken \in [Nodes -> Nat]

\* TypeOK with the course of the callers.
TypeInv ==
  /\ ClusterType
  /\ RingsType
  /\ DOMAIN caller = Callers /\ \A c \in Callers : IsTyped(caller[c])
  /\ polls \in 0..MaxPolls
  /\ gauges \in [lag : LagGauges, listed : SUBSET Nodes]

-----------------------------------------------------------------------------
\* Each disjunct of Next, one name for each action.
LEMMA NextCases ==
  ASSUME Next
  PROVE  \/ Write
         \/ \E n \in Nodes : Replicate(n)
         \/ \E n \in Nodes : Elect(n)
         \/ Poll
         \/ TakeLags
         \/ SetLagGauge
         \/ GaugesSet
         \/ \E c \in Callers : Request(c)
         \/ \E c \in Callers : Resolve(c)
         \/ \E c \in Callers : ReadMasterOffset(c)
         \/ \E c \in Callers : NoLag(c)
         \/ \E c \in Callers : Measure(c)
         \/ \E c \in Callers : MeasureFails(c)
         \/ \E c \in Callers : RecordSample(c)
         \/ \E c \in Callers : GetTrend(c)
         \/ \E c \in Callers : Answer(c)
         \/ UNCHANGED vars
BY DEF Next, Lag, Quiescent

LEMMA OneGoes ==
  ASSUME DOMAIN caller = Callers, NEW c \in Callers, NEW q, Goes(c, q)
  PROVE  /\ DOMAIN caller' = Callers
         /\ caller'[c] = q
         /\ \A d \in Callers \ {c} : caller'[d] = caller[d]
BY DEF Goes

LEMMA TypedGoes ==
  ASSUME DOMAIN caller = Callers, \A d \in Callers : IsTyped(caller[d]),
         NEW c \in Callers, NEW q, IsTyped(q), Goes(c, q)
  PROVE  DOMAIN caller' = Callers /\ \A d \in Callers : IsTyped(caller'[d])
BY OneGoes

LEMMA NumbersType ==
  /\ MaxOffset \in Nat /\ MaxElections \in Nat /\ MaxPolls \in Nat /\ RingSize \in Nat /\ RingSize >= 1
  /\ 0 \in Offsets
BY BoundsAssumption, RingAssumption DEF Offsets

LEMMA EmptyIsTyped == << >> \in AllLags /\ << >> \in LagGauges /\ DOMAIN << >> = {}
<1>1. << >> \in [{} -> Lags] /\ << >> \in [{} -> [lag : Offsets, poll : Nat]] /\ DOMAIN << >> = {}
  OBVIOUS
<1>2. {} \in SUBSET Nodes
  OBVIOUS
<1> QED
  BY <1>1, <1>2 DEF AllLags, LagGauges

LEMMA IdleIsTyped ==
  /\ IsTyped(Idle) /\ Idle \in CallerSet /\ Idle.left = {} /\ Idle.steady = FALSE
  /\ Idle.errs = FALSE /\ Idle.pc = "idle" /\ DOMAIN Idle.all = {}
<1>1. << >> \in AllLags /\ 0 \in Offsets /\ 0 \in Nat /\ DOMAIN << >> = {}
  BY EmptyIsTyped, NumbersType
<1>2. Idle \in CallerSet
  BY <1>1 DEF Idle, CallerSet
<1>3. /\ Idle.left = {} /\ Idle.listed = {} /\ Idle.steady = FALSE /\ Idle.errs = FALSE
      /\ Idle.all = << >> /\ Idle.pc = "idle"
  BY DEF Idle
<1> QED
  BY <1>1, <1>2, <1>3 DEF IsTyped, Course

LEMMA EndedType ==
  ASSUME NEW c \in Callers, NEW status \in {"ok", "error"}
  PROVE  /\ IsTyped(Ended(c, status)) /\ ~Ended(c, status).steady
         /\ DOMAIN Ended(c, status).all = {} /\ Ended(c, status).pc \in {"idle", "done"}
<1> DEFINE q == [Idle EXCEPT !.pc = "done", !.status = status]
<1>1. q \in CallerSet
  BY IdleIsTyped DEF CallerSet
<1>2. /\ q.left = Idle.left /\ q.steady = Idle.steady /\ q.errs = Idle.errs /\ q.all = Idle.all
      /\ q.pc = "done"
  BY IdleIsTyped DEF CallerSet
<1>3. Ended(c, status) \in {Idle, q}
  BY DEF Ended
<1> HIDE DEF q
<1>4. IsTyped(q)
  BY <1>1, <1>2, IdleIsTyped DEF IsTyped, Course
<1> QED
  BY <1>2, <1>3, <1>4, IdleIsTyped
-----------------------------------------------------------------------------
(* Types.                                                                  *)

\* A caller that has begun, or goes on without anything new.
LEMMA BeginType ==
  ASSUME TypeInv, NEW c \in Callers, caller[c].pc = "idle",
         Goes(c, [caller[c] EXCEPT !.pc = "addresses"])
  PROVE  /\ DOMAIN caller' = Callers /\ \A d \in Callers : IsTyped(caller'[d])
         /\ caller'[c].pc = "addresses" /\ ~caller'[c].steady /\ DOMAIN caller'[c].all = {}
<1> DEFINE q == [caller[c] EXCEPT !.pc = "addresses"]
<1>1. caller[c] \in CallerSet /\ Course(caller[c])
  BY DEF TypeInv, IsTyped
<1>2. q \in CallerSet
  BY <1>1 DEF CallerSet
<1>3. /\ q.left = caller[c].left /\ q.listed = caller[c].listed /\ q.steady = caller[c].steady
      /\ q.errs = caller[c].errs /\ q.all = caller[c].all /\ q.pc = "addresses"
  BY <1>1 DEF CallerSet
<1>4. Goes(c, q)
  OBVIOUS
<1> HIDE DEF q
<1>5. IsTyped(q) /\ ~q.steady /\ DOMAIN q.all = {}
  BY <1>1, <1>2, <1>3 DEF IsTyped, Course
<1> QED
  BY <1>3, <1>4, <1>5, OneGoes, TypedGoes DEF TypeInv

LEMMA ResolveType ==
  ASSUME TypeInv, NEW c \in Callers, Resolve(c)
  PROVE  /\ TypeInv'
         /\ caller'[c].pc = "master" /\ DOMAIN caller'[c].all = {}
         /\ caller'[c].steady => caller'[c].master = master /\ master \notin caller'[c].listed
<1>0. PICK m \in {master, former}, n \in {master, former} : \E rs \in {{}, Nodes \ {n}} :
        /\ m = master => n = master
        /\ Goes(c, [caller[c] EXCEPT !.pc = "master", !.master = m, !.listed = rs,
                                     !.steady = (m = master /\ master \notin rs)])
  BY DEF Resolve
<1>1. PICK rs \in {{}, Nodes \ {n}} :
        /\ m = master => n = master
        /\ Goes(c, [caller[c] EXCEPT !.pc = "master", !.master = m, !.listed = rs,
                                     !.steady = (m = master /\ master \notin rs)])
  BY <1>0
<1> DEFINE q == [caller[c] EXCEPT !.pc = "master", !.master = m, !.listed = rs,
                                  !.steady = (m = master /\ master \notin rs)]
<1>2. caller[c] \in CallerSet /\ Course(caller[c]) /\ caller[c].pc = "addresses"
  BY DEF TypeInv, IsTyped, Resolve
<1>3. m \in Nodes /\ rs \in SUBSET Nodes
  BY DEF TypeInv, ClusterType
<1>4. q \in CallerSet
  BY <1>2, <1>3 DEF CallerSet
<1>5. /\ q.left = caller[c].left /\ q.listed = rs /\ q.master = m /\ q.pc = "master"
      /\ q.errs = caller[c].errs /\ q.all = caller[c].all
      /\ q.steady = (m = master /\ master \notin rs)
  BY <1>2 DEF CallerSet
<1>6. Goes(c, q)
  BY <1>1
<1> HIDE DEF q
<1>7. IsTyped(q)
  BY <1>2, <1>3, <1>4, <1>5 DEF IsTyped, Course
<1>8. TypeInv'
  BY <1>6, <1>7, TypedGoes DEF Resolve, TypeInv, ClusterType, RingsType, cluster, rings
<1>9. caller'[c] = q
  BY <1>6, OneGoes DEF TypeInv
<1> QED
  BY <1>2, <1>5, <1>8, <1>9 DEF Course

LEMMA ReadMasterOffsetType ==
  ASSUME TypeInv, NEW c \in Callers, ReadMasterOffset(c)
  PROVE  /\ TypeInv'
         /\ caller'[c].pc = "replicas" /\ caller'[c].masterOffset = offset[caller[c].master]
         /\ caller'[c].listed = caller[c].listed /\ caller'[c].steady = caller[c].steady
         /\ DOMAIN caller'[c].all = {}
<1> DEFINE q == [caller[c] EXCEPT !.pc = "replicas", !.masterOffset = offset[caller[c].master],
                                  !.left = caller[c].listed]
<1>1. caller[c] \in CallerSet /\ Course(caller[c]) /\ caller[c].pc = "master"
  BY DEF TypeInv, IsTyped, ReadMasterOffset
<1>2. offset[caller[c].master] \in Offsets
  BY <1>1 DEF TypeInv, ClusterType, Course
<1>3. q \in CallerSet
  BY <1>1, <1>2 DEF CallerSet
<1>4. /\ q.left = caller[c].listed /\ q.listed = caller[c].listed /\ q.master = caller[c].master
      /\ q.pc = "replicas" /\ q.errs = caller[c].errs /\ q.all = caller[c].all
      /\ q.steady = caller[c].steady /\ q.masterOffset = offset[caller[c].master]
  BY <1>1 DEF CallerSet
<1>5. Goes(c, q)
  BY DEF ReadMasterOffset
<1> HIDE DEF q
<1>6. IsTyped(q)
  BY <1>1, <1>3, <1>4 DEF IsTyped, Course
<1>7. TypeInv'
  BY <1>5, <1>6, TypedGoes DEF ReadMasterOffset, TypeInv, ClusterType, RingsType, cluster, rings
<1>8. caller'[c] = q
  BY <1>5, OneGoes DEF TypeInv
<1> QED
  BY <1>1, <1>4, <1>7, <1>8 DEF Course

LEMMA MeasureType ==
  ASSUME TypeInv, NEW c \in Callers, Measure(c)
  PROVE  /\ TypeInv'
         /\ caller'[c].pc = "record" /\ caller'[c].replica \in caller[c].listed
         /\ caller'[c].lag = LagBytes(caller[c].masterOffset, ReplicaOffset(caller'[c].replica))
         /\ caller'[c].masterOffset = caller[c].masterOffset
         /\ caller'[c].listed = caller[c].listed /\ caller'[c].steady = caller[c].steady
         /\ caller'[c].all = caller[c].all
<1>1. PICK r \in caller[c].left :
        Goes(c, [caller[c] EXCEPT !.pc = "record", !.left = caller[c].left \ {r}, !.replica = r,
                                  !.lag = LagBytes(caller[c].masterOffset, ReplicaOffset(r))])
  BY DEF Measure
<1> DEFINE lag == LagBytes(caller[c].masterOffset, ReplicaOffset(r))
           q == [caller[c] EXCEPT !.pc = "record", !.left = caller[c].left \ {r}, !.replica = r,
                                  !.lag = lag]
<1>2. caller[c] \in CallerSet /\ Course(caller[c]) /\ caller[c].pc = "replicas"
  BY DEF TypeInv, IsTyped, Measure
<1>3. r \in Nodes /\ r \in caller[c].listed /\ caller[c].masterOffset \in Offsets
  BY <1>2 DEF CallerSet, Course
<1>4. ReplicaOffset(r) \in Offsets
  BY <1>3, NumbersType DEF ReplicaOffset, TypeInv, ClusterType
<1>5. lag \in Offsets
  BY <1>3, <1>4, NumbersType DEF LagBytes, Offsets
<1>6. Goes(c, q)
  BY <1>1
<1> HIDE DEF lag
<1>7. q \in CallerSet
  BY <1>2, <1>3, <1>5 DEF CallerSet
<1>8. /\ q.left = caller[c].left \ {r} /\ q.listed = caller[c].listed /\ q.master = caller[c].master
      /\ q.pc = "record" /\ q.errs = caller[c].errs /\ q.all = caller[c].all
      /\ q.steady = caller[c].steady /\ q.masterOffset = caller[c].masterOffset
      /\ q.replica = r /\ q.lag = lag
  BY <1>2 DEF CallerSet
<1> HIDE DEF q
<1>9. IsTyped(q)
  BY <1>1, <1>2, <1>3, <1>7, <1>8 DEF IsTyped, Course
<1>10. TypeInv'
  BY <1>6, <1>9, TypedGoes DEF Measure, TypeInv, ClusterType, RingsType, cluster, rings
<1>11. caller'[c] = q
  BY <1>6, OneGoes DEF TypeInv
<1> QED
  BY <1>3, <1>8, <1>10, <1>11 DEF lag

LEMMA MeasureFailsType ==
  ASSUME TypeInv, NEW c \in Callers, MeasureFails(c)
  PROVE  /\ TypeInv'
         /\ caller'[c].pc = "replicas" /\ caller'[c].masterOffset = caller[c].masterOffset
         /\ caller'[c].listed = caller[c].listed /\ caller'[c].steady = caller[c].steady
         /\ caller'[c].all = caller[c].all
<1>1. PICK r \in caller[c].left :
        Goes(c, [caller[c] EXCEPT !.left = caller[c].left \ {r}, !.errs = TRUE])
  BY DEF MeasureFails
<1> DEFINE q == [caller[c] EXCEPT !.left = caller[c].left \ {r}, !.errs = TRUE]
<1>2. caller[c] \in CallerSet /\ Course(caller[c]) /\ caller[c].pc = "replicas"
  BY DEF TypeInv, IsTyped, MeasureFails
<1>3. Goes(c, q)
  BY <1>1
<1>4. q \in CallerSet
  BY <1>2 DEF CallerSet
<1>5. /\ q.left = caller[c].left \ {r} /\ q.listed = caller[c].listed /\ q.master = caller[c].master
      /\ q.pc = "replicas" /\ q.errs = TRUE /\ q.all = caller[c].all
      /\ q.steady = caller[c].steady /\ q.masterOffset = caller[c].masterOffset
  BY <1>2 DEF CallerSet
<1> HIDE DEF q
<1>6. IsTyped(q)
  BY <1>2, <1>4, <1>5 DEF IsTyped, Course
<1>7. TypeInv'
  BY <1>3, <1>6, TypedGoes DEF MeasureFails, TypeInv, ClusterType, RingsType, cluster, rings
<1>8. caller'[c] = q
  BY <1>3, OneGoes DEF TypeInv
<1> QED
  BY <1>5, <1>7, <1>8

\* The end of a request or of a poll.
LEMMA EndType ==
  ASSUME TypeInv, NEW c \in Callers, NEW status \in {"ok", "error"}, Goes(c, Ended(c, status))
  PROVE  /\ DOMAIN caller' = Callers /\ \A d \in Callers : IsTyped(caller'[d])
         /\ caller'[c].pc \in {"idle", "done"} /\ ~caller'[c].steady /\ DOMAIN caller'[c].all = {}
<1> DEFINE q == Ended(c, status)
<1>1. IsTyped(q) /\ ~q.steady /\ DOMAIN q.all = {} /\ q.pc \in {"idle", "done"} /\ Goes(c, q)
  BY EndedType
<1> HIDE DEF q
<1> QED
  BY <1>1, OneGoes, TypedGoes DEF TypeInv

\* A ring after an append: the newest of what it had, and the new sample.
LEMMA TrimmedRing ==
  ASSUME NEW ring \in Seq(Samples), Len(ring) <= RingSize, NEW sample \in Samples
  PROVE  LET new == AppendTrimmed(ring, sample)
             dropped == Len(ring) + 1 - Len(new)
         IN  /\ new \in Seq(Samples) /\ Len(new) \in 1..RingSize
             /\ Len(new) = IF Len(ring) < RingSize THEN Len(ring) + 1 ELSE RingSize
             /\ new[Len(new)] = sample
             /\ \A k \in 1..(Len(new) - 1) : k + dropped \in 1..Len(ring) /\ new[k] = ring[k + dropped]
<1> DEFINE longer == Append(ring, sample)
<1>1. /\ Len(ring) \in Nat /\ longer \in Seq(Samples) /\ Len(longer) = Len(ring) + 1
      /\ longer[Len(ring) + 1] = sample
      /\ \A k \in 1..Len(ring) : longer[k] = ring[k]
  OBVIOUS
<1>2. RingSize \in Nat /\ RingSize >= 1
  BY NumbersType
<1> HIDE DEF longer
<1>3. CASE Len(ring) < RingSize
  <2>1. AppendTrimmed(ring, sample) = longer
    BY <1>1, <1>2, <1>3 DEF AppendTrimmed, longer
  <2> QED
    BY <1>1, <1>2, <1>3, <2>1
<1>4. CASE Len(ring) = RingSize
  <2> DEFINE new == SubSeq(longer, Len(longer) - RingSize + 1, Len(longer))
  <2>1. AppendTrimmed(ring, sample) = new
    BY <1>1, <1>2, <1>4 DEF AppendTrimmed, longer
  <2>2. Len(longer) - RingSize + 1 = 2 /\ Len(longer) = RingSize + 1
    BY <1>1, <1>2, <1>4
  <2>3. /\ new \in Seq(Samples) /\ Len(new) = RingSize
        /\ \A k \in 1..RingSize : new[k] = longer[k + 1]
    BY <1>1, <1>2, <2>2
  <2> HIDE DEF new
  <2>4. new[RingSize] = sample
    BY <1>1, <1>2, <1>4, <2>3
  <2>5. \A k \in 1..(RingSize - 1) : k + 1 \in 1..Len(ring) /\ new[k] = ring[k + 1]
    BY <1>1, <1>2, <1>4, <2>3
  <2> QED
    BY <1>2, <1>4, <2>1, <2>3, <2>4, <2>5
<1> QED
  BY <1>1, <1>2, <1>3, <1>4

LEMMA RecordSampleType ==
  ASSUME TypeInv, NEW c \in Callers, RecordSample(c)
  PROVE  /\ TypeInv'
         /\ caller[c].replica \in Nodes /\ [lag |-> caller[c].lag, no |-> taken[caller[c].replica] + 1] \in Samples
         /\ caller'[c].pc = "trend" /\ caller'[c].no = taken[caller[c].replica] + 1
         /\ caller'[c].replica = caller[c].replica /\ caller'[c].lag = caller[c].lag
         /\ caller'[c].masterOffset = caller[c].masterOffset
         /\ caller'[c].listed = caller[c].listed /\ caller'[c].steady = caller[c].steady
         /\ caller'[c].all = caller[c].all
<1> DEFINE r == caller[c].replica
           no == taken[r] + 1
           sample == [lag |-> caller[c].lag, no |-> no]
           q == [caller[c] EXCEPT !.pc = "trend", !.no = no]
<1>1. caller[c] \in CallerSet /\ Course(caller[c]) /\ caller[c].pc = "record"
  BY DEF TypeInv, IsTyped, RecordSample
<1>2. r \in Nodes /\ caller[c].lag \in Offsets
  BY <1>1 DEF CallerSet, Course
<1>3. no \in Nat /\ sample \in Samples
  BY <1>2 DEF TypeInv, RingsType, Samples
<1>4. /\ Goes(c, q) /\ taken' = [taken EXCEPT ![r] = no]
      /\ samples' = [samples EXCEPT ![r] = AppendTrimmed(samples[r], sample)]
      /\ UNCHANGED <<cluster, polls, gauges>>
  BY DEF RecordSample
<1> HIDE DEF no
<1>5. q \in CallerSet
  BY <1>1, <1>3 DEF CallerSet
<1>6. /\ q.left = caller[c].left /\ q.listed = caller[c].listed /\ q.master = caller[c].master
      /\ q.pc = "trend" /\ q.errs = caller[c].errs /\ q.all = caller[c].all
      /\ q.steady = caller[c].steady /\ q.masterOffset = caller[c].masterOffset
      /\ q.replica = r /\ q.lag = caller[c].lag /\ q.no = no
  BY <1>1 DEF CallerSet
<1> HIDE DEF q, sample
<1>7. IsTyped(q)
  BY <1>1, <1>5, <1>6 DEF IsTyped, Course
<1>8. AppendTrimmed(samples[r], sample) \in Seq(Samples) /\ Len(AppendTrimmed(samples[r], sample)) <= RingSize
  <2>1. samples[r] \in Seq(Samples) /\ Len(samples[r]) <= RingSize /\ RingSize \in Nat
    BY <1>2, NumbersType DEF TypeInv, RingsType
  <2> DEFINE ring == samples[r]
  <2>2. ring \in Seq(Samples) /\ Len(ring) <= RingSize
    BY <2>1
  <2> HIDE DEF ring
  <2>3. /\ AppendTrimmed(ring, sample) \in Seq(Samples)
        /\ Len(AppendTrimmed(ring, sample)) \in 1..RingSize
    BY <1>3, <2>2, TrimmedRing
  <2> QED
    BY <2>1, <2>3 DEF ring
<1>9. RingsType'
  BY <1>2, <1>3, <1>4, <1>8 DEF TypeInv, RingsType
<1>10. TypeInv'
  BY <1>4, <1>7, <1>9, TypedGoes DEF TypeInv, ClusterType, cluster
<1>11. caller'[c] = q
  BY <1>4, OneGoes DEF TypeInv
<1> QED
  BY <1>2, <1>3, <1>6, <1>10, <1>11 DEF no, sample

LEMMA GetTrendType ==
  ASSUME TypeInv, NEW c \in Callers, GetTrend(c)
  PROVE  LET r == caller[c].replica
         IN  /\ TypeInv' /\ r \in Nodes
             /\ caller'[c].pc = "replicas" /\ caller'[c].masterOffset = caller[c].masterOffset
             /\ caller'[c].listed = caller[c].listed /\ caller'[c].steady = caller[c].steady
             /\ DOMAIN caller'[c].all = DOMAIN caller[c].all \cup {r}
             /\ caller'[c].all[r] = [lag |-> caller[c].lag, trend |-> samples[r], no |-> caller[c].no]
             /\ \A s \in DOMAIN caller[c].all \ {r} : caller'[c].all[s] = caller[c].all[s]
<1> DEFINE r == caller[c].replica
           own == [lag |-> caller[c].lag, trend |-> samples[r], no |-> caller[c].no]
           all == [s \in DOMAIN caller[c].all \cup {r} |-> IF s = r THEN own ELSE caller[c].all[s]]
           q == [caller[c] EXCEPT !.pc = "replicas", !.replica = NoNode, !.lag = 0, !.no = 0,
                                  !.all = all]
<1>1. caller[c] \in CallerSet /\ Course(caller[c]) /\ caller[c].pc = "trend"
  BY DEF TypeInv, IsTyped, GetTrend
<1>2. r \in Nodes /\ caller[c].lag \in Offsets /\ caller[c].no \in Nat /\ caller[c].all \in AllLags
  BY <1>1 DEF CallerSet, Course
<1>3. own \in Lags
  BY <1>2 DEF TypeInv, RingsType, Lags
<1>4. Goes(c, q)
  BY DEF GetTrend
<1> HIDE DEF own
<1>5. all \in AllLags
  <2>1. PICK rs \in SUBSET Nodes : caller[c].all \in [rs -> Lags]
    BY <1>2 DEF AllLags
  <2>2. all \in [rs \cup {r} -> Lags]
    BY <1>3, <2>1
  <2>3. rs \cup {r} \in SUBSET Nodes
    BY <1>2, <2>1
  <2> HIDE DEF all
  <2> QED
    BY <2>2, <2>3 DEF AllLags
<1>6. /\ DOMAIN all = DOMAIN caller[c].all \cup {r} /\ all[r] = own
      /\ \A s \in DOMAIN caller[c].all \ {r} : all[s] = caller[c].all[s]
  OBVIOUS
<1> HIDE DEF all
<1>7. q \in CallerSet
  BY <1>1, <1>5, NumbersType DEF CallerSet
<1>8. /\ q.left = caller[c].left /\ q.listed = caller[c].listed /\ q.master = caller[c].master
      /\ q.pc = "replicas" /\ q.errs = caller[c].errs /\ q.all = all
      /\ q.steady = caller[c].steady /\ q.masterOffset = caller[c].masterOffset
  BY <1>1 DEF CallerSet
<1> HIDE DEF q
<1>9. IsTyped(q)
  BY <1>1, <1>6, <1>7, <1>8 DEF IsTyped, Course
<1>10. TypeInv'
  BY <1>4, <1>9, TypedGoes DEF GetTrend, TypeInv, ClusterType, RingsType, cluster, rings
<1>11. caller'[c] = q
  BY <1>4, OneGoes DEF TypeInv
<1> QED
  BY <1>2, <1>6, <1>8, <1>10, <1>11 DEF own

\* The lags are taken only if no replica failed, and then there is one for each.
LEMMA TakeLagsType ==
  ASSUME TypeInv, TakeLags
  PROVE  /\ TypeInv'
         /\ \/ caller'[Exporter] = Idle
            \/ /\ caller'[Exporter].pc = "gauges"
               /\ caller'[Exporter].left = caller'[Exporter].listed
               /\ caller'[Exporter].listed = caller[Exporter].listed
               /\ caller'[Exporter].all = caller[Exporter].all
               /\ caller'[Exporter].steady = caller[Exporter].steady
<1> DEFINE c == caller[Exporter]
           q == [c EXCEPT !.pc = "gauges", !.left = DOMAIN c.all]
           next == IF c.errs THEN Ended(Exporter, "ok") ELSE q
<1>1. Exporter \in Callers /\ c \in CallerSet /\ Course(c) /\ c.pc = "replicas" /\ c.left = {}
  BY DEF Callers, TypeInv, IsTyped, TakeLags
<1>2. PICK rs \in SUBSET Nodes : c.all \in [rs -> Lags]
  BY <1>1 DEF CallerSet, AllLags
<1>3. q \in CallerSet
  BY <1>1, <1>2 DEF CallerSet
<1>4. /\ q.pc = "gauges" /\ q.left = DOMAIN c.all /\ q.listed = c.listed /\ q.all = c.all
      /\ q.errs = c.errs /\ q.steady = c.steady
  BY <1>1 DEF CallerSet
<1>5. Goes(Exporter, next) /\ UNCHANGED <<cluster, rings, polls, gauges>>
  BY DEF TakeLags
<1>6. next = IF c.errs THEN Idle ELSE q
  BY DEF Ended
<1>7. ~c.errs => DOMAIN c.all = c.listed
  BY <1>1 DEF Course
<1>8. c.errs \in BOOLEAN
  BY <1>1 DEF CallerSet
<1> HIDE DEF q, next, c
<1>9. ~c.errs => IsTyped(q)
  BY <1>3, <1>4, <1>7 DEF IsTyped, Course
<1>10. IsTyped(next)
  BY <1>6, <1>9, IdleIsTyped
<1>11. DOMAIN caller' = Callers /\ \A d \in Callers : IsTyped(caller'[d])
  BY <1>1, <1>5, <1>10, TypedGoes DEF TypeInv
<1>12. caller'[Exporter] = next
  BY <1>1, <1>5, OneGoes DEF TypeInv
<1>13. TypeInv'
  BY <1>5, <1>11 DEF TypeInv, ClusterType, RingsType, cluster, rings
<1> QED
  BY <1>4, <1>6, <1>7, <1>12, <1>13 DEF c

\* The gauge that is set shows what this poll found; the others stay.
LEMMA SetLagGaugeType ==
  ASSUME TypeInv, SetLagGauge
  PROVE  /\ TypeInv'
         /\ caller'[Exporter].pc = "gauges"
         /\ caller'[Exporter].listed = caller[Exporter].listed
         /\ caller'[Exporter].all = caller[Exporter].all
         /\ caller'[Exporter].steady = caller[Exporter].steady
         /\ gauges'.listed = gauges.listed
         /\ \E n \in caller[Exporter].left :
              /\ caller'[Exporter].left = caller[Exporter].left \ {n}
              /\ DOMAIN gauges'.lag = DOMAIN gauges.lag \cup {n}
              /\ gauges'.lag[n] = [lag |-> caller[Exporter].all[n].lag, poll |-> polls]
              /\ \A m \in DOMAIN gauges.lag \ {n} : gauges'.lag[m] = gauges.lag[m]
<1> DEFINE c == caller[Exporter]
<1>1. Exporter \in Callers /\ c \in CallerSet /\ Course(c) /\ c.pc = "gauges"
  BY DEF Callers, TypeInv, IsTyped, SetLagGauge
<1>2. PICK n \in c.left : /\ gauges' = [gauges EXCEPT !.lag = WithGauge(c, n)]
                          /\ Goes(Exporter, [c EXCEPT !.left = c.left \ {n}])
  BY DEF SetLagGauge
<1> DEFINE q == [c EXCEPT !.left = c.left \ {n}]
           lag == WithGauge(c, n)
<1>3. polls \in Nat /\ gauges \in [lag : LagGauges, listed : SUBSET Nodes]
  BY NumbersType DEF TypeInv
<1>4. PICK rs \in SUBSET Nodes : gauges.lag \in [rs -> [lag : Offsets, poll : Nat]]
  BY <1>3 DEF LagGauges
<1>5. n \in Nodes /\ n \in DOMAIN c.all /\ c.all[n].lag \in Offsets
  <2>1. PICK ss \in SUBSET Nodes : c.all \in [ss -> Lags]
    BY <1>1 DEF CallerSet, AllLags
  <2>2. n \in ss
    BY <1>1, <2>1 DEF Course
  <2> QED
    BY <2>1, <2>2 DEF Lags
<1>6. /\ DOMAIN lag = rs \cup {n}
      /\ lag[n] = [lag |-> c.all[n].lag, poll |-> polls]
      /\ \A m \in rs \ {n} : lag[m] = gauges.lag[m]
      /\ lag = [m \in rs \cup {n} |-> lag[m]]
  BY <1>4 DEF WithGauge
<1>7. q \in CallerSet
  BY <1>1 DEF CallerSet
<1>8. /\ q.pc = c.pc /\ q.left = c.left \ {n} /\ q.listed = c.listed /\ q.all = c.all
      /\ q.errs = c.errs /\ q.steady = c.steady
  BY <1>1 DEF CallerSet
<1>9. Goes(Exporter, q) /\ gauges' = [gauges EXCEPT !.lag = lag]
  BY <1>2
<1> HIDE DEF q, lag, c
<1>10. IsTyped(q)
  BY <1>1, <1>7, <1>8 DEF IsTyped, Course
<1>11. lag \in LagGauges
  <2>1. \A m \in rs \cup {n} : lag[m] \in [lag : Offsets, poll : Nat]
    BY <1>3, <1>4, <1>5, <1>6
  <2>2. lag \in [rs \cup {n} -> [lag : Offsets, poll : Nat]]
    BY <1>6, <2>1
  <2> QED
    BY <1>5, <2>2 DEF LagGauges
<1>12. gauges' \in [lag : LagGauges, listed : SUBSET Nodes]
  BY <1>3, <1>9, <1>11
<1>13. gauges'.lag = lag /\ gauges'.listed = gauges.listed
  BY <1>3, <1>9
<1>14. DOMAIN caller' = Callers /\ \A d \in Callers : IsTyped(caller'[d])
  BY <1>1, <1>9, <1>10, TypedGoes DEF TypeInv
<1>15. caller'[Exporter] = q
  BY <1>1, <1>9, OneGoes DEF TypeInv
<1>16. UNCHANGED <<cluster, rings, polls>>
  BY DEF SetLagGauge
<1>17. TypeInv'
  BY <1>12, <1>14, <1>16 DEF TypeInv, ClusterType, RingsType, cluster, rings
<1>18. DOMAIN gauges.lag = rs
  BY <1>4
<1> QED
  BY <1>1, <1>2, <1>6, <1>8, <1>13, <1>15, <1>17, <1>18 DEF c

LEMMA GaugesSetType ==
  ASSUME TypeInv, GaugesSet
  PROVE  /\ TypeInv'
         /\ caller'[Exporter] = Idle
         /\ gauges'.lag = gauges.lag /\ gauges'.listed = caller[Exporter].listed
<1>1. Exporter \in Callers /\ caller[Exporter] \in CallerSet
  BY DEF Callers, TypeInv, IsTyped
<1>2. caller[Exporter].listed \in SUBSET Nodes
  BY <1>1 DEF CallerSet
<1>3. gauges \in [lag : LagGauges, listed : SUBSET Nodes]
  BY DEF TypeInv
<1>4. gauges' = [gauges EXCEPT !.listed = caller[Exporter].listed] /\ Goes(Exporter, Idle)
  BY DEF GaugesSet, Ended
<1>5. gauges' \in [lag : LagGauges, listed : SUBSET Nodes]
  BY <1>2, <1>3, <1>4
<1>6. gauges'.lag = gauges.lag /\ gauges'.listed = caller[Exporter].listed
  BY <1>3, <1>4
<1>7. DOMAIN caller' = Callers /\ \A d \in Callers : IsTyped(caller'[d])
  BY <1>1, <1>4, IdleIsTyped, TypedGoes DEF TypeInv
<1>8. caller'[Exporter] = Idle
  BY <1>1, <1>4, OneGoes DEF TypeInv
<1>9. UNCHANGED <<cluster, rings, polls>>
  BY DEF GaugesSet
<1>10. TypeInv'
  BY <1>5, <1>7, <1>9 DEF TypeInv, ClusterType, RingsType, cluster, rings
<1> QED
  BY <1>6, <1>8, <1>10

LEMMA ElectType ==
  ASSUME TypeInv, NEW n \in Nodes, Elect(n)
  PROVE  /\ TypeInv'
         /\ \A c \in Callers : /\ ~caller'[c].steady
                               /\ caller'[c].pc = caller[c].pc /\ caller'[c].all = caller[c].all
                               /\ caller'[c].replica = caller[c].replica
                               /\ caller'[c].lag = caller[c].lag /\ caller'[c].no = caller[c].no
<1>1. ASSUME NEW c \in Callers
      PROVE  /\ IsTyped(caller'[c]) /\ ~caller'[c].steady
             /\ caller'[c].pc = caller[c].pc /\ caller'[c].all = caller[c].all
             /\ caller'[c].replica = caller[c].replica
             /\ caller'[c].lag = caller[c].lag /\ caller'[c].no = caller[c].no
  <2> DEFINE q == [caller[c] EXCEPT !.steady = FALSE]
  <2>1. caller[c] \in CallerSet /\ Course(caller[c]) /\ caller'[c] = q
    BY DEF TypeInv, IsTyped, Elect
  <2>2. q \in CallerSet
    BY <2>1 DEF CallerSet
  <2>3. /\ q.left = caller[c].left /\ q.listed = caller[c].listed /\ q.master = caller[c].master
        /\ q.pc = caller[c].pc /\ q.errs = caller[c].errs /\ q.all = caller[c].all
        /\ q.steady = FALSE /\ q.replica = caller[c].replica
        /\ q.lag = caller[c].lag /\ q.no = caller[c].no
    BY <2>1 DEF CallerSet
  <2> HIDE DEF q
  <2> QED
    BY <2>1, <2>2, <2>3 DEF IsTyped, Course
<1>2. ClusterType'
  BY NumbersType DEF Elect, TypeInv, ClusterType
<1>3. DOMAIN caller' = Callers /\ UNCHANGED <<samples, taken, polls, gauges>>
  BY DEF Elect, rings
<1> QED
  BY <1>1, <1>2, <1>3 DEF TypeInv, RingsType

LEMMA OffsetsType ==
  ASSUME TypeInv, Write \/ \E n \in Nodes : Replicate(n)
  PROVE  TypeInv'
<1>1. CASE Write
  BY <1>1, NumbersType DEF Write, TypeInv, ClusterType, RingsType, rings, Offsets
<1>2. ASSUME NEW n \in Nodes, Replicate(n) PROVE TypeInv'
  BY <1>2, NumbersType DEF Replicate, TypeInv, ClusterType, RingsType, rings, Offsets
<1> QED
  BY <1>1, <1>2

LEMMA NextTypeInv == TypeInv /\ [Next]_vars => TypeInv'
<1> SUFFICES ASSUME TypeInv, [Next]_vars PROVE TypeInv'
  OBVIOUS
<1>1. ASSUME Poll PROVE TypeInv'
  <2>1. DOMAIN caller' = Callers /\ \A d \in Callers : IsTyped(caller'[d])
    BY <1>1, BeginType DEF Poll, Callers
  <2> QED
    BY <1>1, <2>1, NumbersType DEF Poll, TypeInv, ClusterType, RingsType, cluster, rings
<1>2. ASSUME NEW c \in Callers, Request(c) PROVE TypeInv'
  <2>1. DOMAIN caller' = Callers /\ \A d \in Callers : IsTyped(caller'[d])
    BY <1>2, BeginType DEF Request
  <2> QED
    BY <1>2, <2>1 DEF Request, TypeInv, ClusterType, RingsType, cluster, rings
<1>3. ASSUME NEW c \in Callers, NoLag(c) PROVE TypeInv'
  <2>1. DOMAIN caller' = Callers /\ \A d \in Callers : IsTyped(caller'[d])
    BY <1>3, EndType DEF NoLag
  <2> QED
    BY <1>3, <2>1 DEF NoLag, TypeInv, ClusterType, RingsType, cluster, rings
<1>4. ASSUME NEW c \in Callers, Answer(c) PROVE TypeInv'
  <2>1. DOMAIN caller' = Callers /\ \A d \in Callers : IsTyped(caller'[d])
    BY <1>4, EndType DEF Answer
  <2> QED
    BY <1>4, <2>1 DEF Answer, TypeInv, ClusterType, RingsType, cluster, rings
<1>5. CASE UNCHANGED vars
  BY <1>5 DEF vars, TypeInv, ClusterType, RingsType, cluster, rings
<1> QED
  BY <1>1, <1>2, <1>3, <1>4, <1>5, NextCases, OffsetsType, ElectType, TakeLagsType, SetLagGaugeType,
     GaugesSetType, ResolveType,
     ReadMasterOffsetType, MeasureType, MeasureFailsType, RecordSampleType, GetTrendType

LEMMA InitTypeInv == Init => TypeInv
<1> SUFFICES ASSUME Init PROVE TypeInv
  OBVIOUS
<1>1. ClusterType
  BY NumbersType DEF Init, ClusterType
<1>2. RingsType
  BY NumbersType DEF Init, RingsType
<1>3. gauges \in [lag : LagGauges, listed : SUBSET Nodes]
  BY EmptyIsTyped DEF Init
<1> QED
  BY <1>1, <1>2, <1>3, IdleIsTyped, NumbersType DEF Init, TypeInv

LEMMA TypeInvariance == Spec => []TypeInv
  BY InitTypeInv, NextTypeInv, PTL DEF Spec

\* The types of the offsets, the rings, the callers and the gauges, and that no ring is over
\* its size, for any nodes and requests.
THEOREM TypeCorrect == Spec => []TypeOK
<1>1. TypeInv => TypeOK
  <2> SUFFICES ASSUME TypeInv PROVE TypeOK
    OBVIOUS
  <2>1. ASSUME NEW c \in Callers PROVE IsCaller(caller[c])
    <3>1. caller[c] \in CallerSet /\ Course(caller[c])
      BY DEF TypeInv, IsTyped
    <3>2. PICK rs \in SUBSET Nodes : caller[c].all \in [rs -> Lags]
      BY <3>1 DEF CallerSet, AllLags
    <3> QED
      BY <3>1, <3>2 DEF IsCaller, CallerSet, Course
  <2>2. PICK rs \in SUBSET Nodes : gauges.lag \in [rs -> [lag : Offsets, poll : Nat]]
    BY DEF TypeInv, LagGauges
  <2>3. gauges.listed \subseteq Nodes
    BY DEF TypeInv
  <2> QED
    BY <2>1, <2>2, <2>3 DEF TypeInv, ClusterType, RingsType, TypeOK
<1> QED
  BY <1>1, TypeInvariance, PTL

-----------------------------------------------------------------------------
(* The lag.                                                                *)

\* No node is ahead of its master, and a caller whose addresses still are right measures
\* replicas only, against an offset the master has had.
IsMeasuring(q) ==
  q.steady => /\ master \notin q.listed
              /\ q.pc = "master" => q.master = master
              /\ q.pc \in {"replicas", "record", "trend"} => q.masterOffset <= offset[master]

OffsetsInv ==
  /\ \A n \in Nodes : offset[n] <= offset[master]
  /\ \A c \in Callers : IsMeasuring(caller[c])

LEMMA OneMeasures ==
  ASSUME TypeInv, OffsetsInv, UNCHANGED <<master, offset>>, NEW c \in Callers,
         \A d \in Callers \ {c} : caller'[d] = caller[d], IsMeasuring(caller[c])'
  PROVE  OffsetsInv'
BY DEF OffsetsInv, IsMeasuring

LEMMA NextOffsetsInv == TypeInv /\ OffsetsInv /\ [Next]_vars => OffsetsInv'
<1> SUFFICES ASSUME TypeInv, OffsetsInv, [Next]_vars PROVE OffsetsInv'
  OBVIOUS
<1>0. /\ DOMAIN caller = Callers /\ \A n \in Nodes : offset[n] \in Nat
      /\ master \in Nodes /\ offset \in [Nodes -> Offsets]
      /\ \A c \in Callers : caller[c] \in CallerSet /\ Course(caller[c])
  BY NumbersType DEF TypeInv, ClusterType, Offsets, IsTyped
<1>1. ASSUME Write PROVE OffsetsInv'
  <2>1. /\ UNCHANGED <<master, caller>> /\ offset'[master] = offset[master] + 1
        /\ \A n \in Nodes : offset'[n] <= offset[n] + 1 /\ (n # master => offset'[n] = offset[n])
    BY <1>0, <1>1 DEF Write
  <2>2. \A c \in Callers : caller[c].masterOffset \in Nat
    BY <1>0, NumbersType DEF CallerSet, Offsets
  <2> QED
    BY <1>0, <2>1, <2>2 DEF OffsetsInv, IsMeasuring
<1>2. ASSUME NEW r \in Nodes, Replicate(r) PROVE OffsetsInv'
  <2>1. /\ UNCHANGED <<master, caller>> /\ offset'[master] = offset[master]
        /\ \A n \in Nodes : offset'[n] <= offset[master]
    BY <1>0, <1>2 DEF Replicate, OffsetsInv
  <2> QED
    BY <2>1 DEF OffsetsInv, IsMeasuring
<1>3. ASSUME NEW n \in Nodes, Elect(n) PROVE OffsetsInv'
  <2>1. \A c \in Callers : ~caller'[c].steady
    BY <1>3, ElectType
  <2>2. master' = n /\ \A m \in Nodes : offset'[m] <= offset'[n]
    BY <1>0, <1>3 DEF Elect
  <2> QED
    BY <2>1, <2>2 DEF OffsetsInv, IsMeasuring
<1>4. ASSUME NEW c \in Callers,
             \/ (Poll \/ TakeLags \/ SetLagGauge \/ GaugesSet) /\ c = Exporter
             \/ Request(c) \/ Resolve(c) \/ ReadMasterOffset(c) \/ NoLag(c) \/ Measure(c)
             \/ MeasureFails(c) \/ RecordSample(c) \/ GetTrend(c) \/ Answer(c)
      PROVE  OffsetsInv'
  <2>1. UNCHANGED <<master, offset>> /\ \A d \in Callers \ {c} : caller'[d] = caller[d]
    <3>1. UNCHANGED cluster
      BY <1>4 DEF Poll, TakeLags, SetLagGauge, GaugesSet, Request, Resolve, ReadMasterOffset, NoLag,
                  Measure, MeasureFails, RecordSample, GetTrend, Answer
    <3>2. \E q : Goes(c, q)
      BY <1>4 DEF Poll, TakeLags, SetLagGauge, GaugesSet, Request, Resolve, ReadMasterOffset, NoLag,
                  Measure, MeasureFails, RecordSample, GetTrend, Answer
    <3> QED
      BY <3>1, <3>2 DEF cluster, Goes
  <2>2. IsMeasuring(caller[c])'
    <3>1. CASE (Poll /\ c = Exporter) \/ Request(c)
      <4>1. ~caller'[c].steady
        BY <1>4, <3>1, BeginType DEF Poll, Request
      <4> QED
        BY <4>1 DEF IsMeasuring
    <3>2. CASE (TakeLags \/ SetLagGauge \/ GaugesSet) /\ c = Exporter
      <4>1. \/ ~caller'[c].steady
            \/ /\ caller'[c].pc = "gauges" /\ caller'[c].listed = caller[c].listed
               /\ caller'[c].steady = caller[c].steady
        BY <3>2, TakeLagsType, SetLagGaugeType, GaugesSetType, IdleIsTyped
      <4>2. IsMeasuring(caller[c])
        BY DEF OffsetsInv
      <4> QED
        BY <2>1, <4>1, <4>2 DEF IsMeasuring
    <3>3. CASE Resolve(c)
      BY <2>1, <3>3, ResolveType DEF IsMeasuring
    <3>4. CASE ReadMasterOffset(c)
      <4>1. /\ caller'[c].pc = "replicas" /\ caller'[c].masterOffset = offset[caller[c].master]
            /\ caller'[c].listed = caller[c].listed /\ caller'[c].steady = caller[c].steady
        BY <3>4, ReadMasterOffsetType
      <4>2. IsMeasuring(caller[c]) /\ caller[c].pc = "master"
        BY <3>4 DEF OffsetsInv, ReadMasterOffset
      <4> QED
        BY <1>0, <2>1, <4>1, <4>2 DEF IsMeasuring
    <3>5. CASE NoLag(c) \/ Answer(c)
      <4>1. ~caller'[c].steady
        BY <3>5, EndType DEF NoLag, Answer
      <4> QED
        BY <4>1 DEF IsMeasuring
    <3>6. CASE Measure(c) \/ MeasureFails(c) \/ RecordSample(c) \/ GetTrend(c)
      <4>1. caller[c].pc \in {"replicas", "record", "trend"}
        BY <3>6 DEF Measure, MeasureFails, RecordSample, GetTrend
      <4>2. /\ caller'[c].pc \in {"replicas", "record", "trend"}
            /\ caller'[c].masterOffset = caller[c].masterOffset
            /\ caller'[c].listed = caller[c].listed /\ caller'[c].steady = caller[c].steady
        BY <3>6, MeasureType, MeasureFailsType, RecordSampleType, GetTrendType
      <4> QED
        BY <2>1, <4>1, <4>2 DEF OffsetsInv, IsMeasuring
    <3> QED
      BY <1>4, <3>1, <3>2, <3>3, <3>4, <3>5, <3>6
  <2> QED
    BY <2>1, <2>2, OneMeasures
<1>5. CASE UNCHANGED vars
  BY <1>5 DEF vars, cluster, OffsetsInv, IsMeasuring
<1>6. Exporter \in Callers
  BY DEF Callers
<1> QED
  BY <1>1, <1>2, <1>3, <1>4, <1>5, <1>6, NextCases

\* In whatever order the master writes, the replicas follow and requests and the exporter
\* measure: without an election in between, a lag is at most what the replica is behind,
\* and less only by what the master has written since.
THEOREM LagsAreNotExaggerated == Spec => LagIsNotExaggerated
<1>1. Init => OffsetsInv
  BY IdleIsTyped DEF Init, OffsetsInv, IsMeasuring
<1>2. TypeInv /\ OffsetsInv /\ [Next]_vars => [MeasuresNoMore]_vars
  <2> SUFFICES ASSUME TypeInv, OffsetsInv, [Next]_vars, ~UNCHANGED vars, NEW c \in Callers,
                      caller[c].pc = "replicas", caller'[c].pc = "record", caller[c].steady
               PROVE  LET behind == offset[master] - offset[caller'[c].replica]
                      IN  /\ caller'[c].lag <= behind
                          /\ behind - caller'[c].lag <= offset[master] - caller[c].masterOffset
    BY DEF MeasuresNoMore
  <2>1. Measure(c)
    <3>1. DOMAIN caller = Callers /\ Exporter \in Callers
      BY DEF TypeInv, Callers
    <3>2. ASSUME NEW d \in Callers, NEW q, Goes(d, q) PROVE d = c /\ q.pc = "record"
      BY <3>1, <3>2 DEF Goes
    <3>3. ~Write /\ ~Poll /\ ~TakeLags /\ ~SetLagGauge /\ ~GaugesSet /\ \A n \in Nodes : ~Replicate(n) /\ ~Elect(n)
      <4>1. ~Write /\ \A n \in Nodes : ~Replicate(n)
        BY DEF Write, Replicate
      <4>2. ASSUME NEW n \in Nodes, Elect(n) PROVE FALSE
        BY <4>2, ElectType
      <4>3. ASSUME Poll PROVE FALSE
        BY <3>1, <3>2, <4>3, BeginType DEF Poll
      <4>4. ASSUME TakeLags \/ SetLagGauge \/ GaugesSet PROVE FALSE
        <5>1. Exporter = c
          BY <3>1, <3>2, <4>4 DEF TakeLags, SetLagGauge, GaugesSet
        <5> QED
          BY <4>4, <5>1, TakeLagsType, SetLagGaugeType, GaugesSetType, IdleIsTyped
      <4> QED
        BY <4>1, <4>2, <4>3, <4>4
    <3>4. ASSUME NEW d \in Callers PROVE ~Request(d) /\ ~Resolve(d) /\ ~ReadMasterOffset(d) /\ ~NoLag(d)
      <4>1. Request(d) \/ Resolve(d) \/ ReadMasterOffset(d) \/ NoLag(d) => d = c
        BY <3>2 DEF Request, Resolve, ReadMasterOffset, NoLag
      <4> QED
        BY <4>1 DEF Request, Resolve, ReadMasterOffset, NoLag
    <3>5. ASSUME NEW d \in Callers PROVE ~RecordSample(d) /\ ~GetTrend(d) /\ ~MeasureFails(d) /\ ~Answer(d)
      <4>1. RecordSample(d) \/ GetTrend(d) \/ MeasureFails(d) \/ Answer(d) => d = c
        BY <3>2 DEF RecordSample, GetTrend, MeasureFails, Answer
      <4>2. ASSUME Answer(c) PROVE FALSE
        BY <4>2, EndType DEF Answer
      <4>3. ASSUME MeasureFails(c) PROVE FALSE
        BY <4>3, MeasureFailsType
      <4> QED
        BY <4>1, <4>2, <4>3 DEF RecordSample, GetTrend
    <3>6. ASSUME NEW d \in Callers, Measure(d) PROVE d = c
      BY <3>2, <3>6 DEF Measure
    <3> QED
      BY <3>3, <3>4, <3>5, <3>6, NextCases
  <2>2. /\ caller'[c].replica \in caller[c].listed
        /\ caller'[c].lag = LagBytes(caller[c].masterOffset, ReplicaOffset(caller'[c].replica))
    BY <2>1, MeasureType
  <2>3. /\ master \notin caller[c].listed /\ caller[c].masterOffset <= offset[master]
        /\ \A n \in Nodes : offset[n] <= offset[master]
    BY DEF OffsetsInv, IsMeasuring
  <2>4. /\ caller[c].listed \subseteq Nodes /\ caller[c].masterOffset \in Nat /\ master \in Nodes
        /\ \A n \in Nodes : offset[n] \in Nat
    BY NumbersType DEF TypeInv, ClusterType, IsTyped, CallerSet, Offsets
  <2>5. ReplicaOffset(caller'[c].replica) = offset[caller'[c].replica]
    BY <2>2, <2>3 DEF ReplicaOffset
  <2> QED
    BY <2>2, <2>3, <2>4, <2>5 DEF LagBytes
<1> QED
  BY <1>1, <1>2, NextOffsetsInv, TypeInvariance, PTL DEF Spec, LagIsNotExaggerated
-----------------------------------------------------------------------------
(* The gauges.                                                             *)

Fresh(q) == IF q.pc = "gauges" THEN q.listed \ q.left ELSE {}

\* LagGaugesOfOnePoll speaks of the polls of the gauges while the exporter sets them; that
\* the gauges not set yet are of an earlier poll from its beginning on makes it inductive.
GaugesInv ==
  /\ LagGaugesOfOnePoll
  /\ \A r \in gauges.listed \ Fresh(caller[Exporter]) :
       /\ gauges.lag[r].poll <= polls
       /\ caller[Exporter].pc # "idle" => gauges.lag[r].poll < polls

\* GaugesInv with the exporter's state and the gauges as parameters.
AreOfOnePoll(q, lag, listed, poll) ==
  /\ Fresh(q) \cup listed \subseteq DOMAIN lag
  /\ \A r \in Fresh(q) : lag[r] = [lag |-> q.all[r].lag, poll |-> poll]
  /\ \A r, s \in listed \ Fresh(q) : lag[r].poll = lag[s].poll
  /\ \A r \in listed \ Fresh(q) : /\ lag[r].poll <= poll
                                  /\ q.pc # "idle" => lag[r].poll < poll

LEMMA ToOnePoll ==
  ASSUME GaugesInv
  PROVE  AreOfOnePoll(caller[Exporter], gauges.lag, gauges.listed, polls)
BY DEF GaugesInv, LagGaugesOfOnePoll, Fresh, AreOfOnePoll

LEMMA FromOnePoll ==
  ASSUME AreOfOnePoll(caller'[Exporter], gauges'.lag, gauges'.listed, polls')
  PROVE  GaugesInv'
BY DEF GaugesInv, LagGaugesOfOnePoll, Fresh, AreOfOnePoll

\* A step with which the exporter neither begins a poll nor touches the gauges.
LEMMA GaugesStay ==
  ASSUME GaugesInv, UNCHANGED <<polls, gauges>>,
         \/ /\ caller'[Exporter].pc = caller[Exporter].pc
            /\ caller'[Exporter].listed = caller[Exporter].listed
            /\ caller'[Exporter].left = caller[Exporter].left
            /\ caller'[Exporter].all = caller[Exporter].all
         \/ /\ caller[Exporter].pc \notin {"idle", "gauges"}
            /\ caller'[Exporter].pc # "gauges"
  PROVE  GaugesInv'
<1>1. AreOfOnePoll(caller[Exporter], gauges.lag, gauges.listed, polls)
  BY ToOnePoll
<1>2. AreOfOnePoll(caller'[Exporter], gauges.lag, gauges.listed, polls)
  BY <1>1 DEF AreOfOnePoll, Fresh
<1> QED
  BY <1>2, FromOnePoll

LEMMA NextGauges == TypeInv /\ GaugesInv /\ [Next]_vars => GaugesInv'
<1> SUFFICES ASSUME TypeInv, GaugesInv, [Next]_vars PROVE GaugesInv'
  OBVIOUS
<1> DEFINE q == caller[Exporter]
<1>1. AreOfOnePoll(q, gauges.lag, gauges.listed, polls)
  BY ToOnePoll
<1>2. AreOfOnePoll(caller'[Exporter], gauges'.lag, gauges'.listed, polls') => GaugesInv'
  BY FromOnePoll
<1>3. Exporter \in Callers /\ DOMAIN caller = Callers /\ q \in CallerSet /\ Course(q)
  BY DEF TypeInv, Callers, IsTyped
<1>4. polls \in Nat /\ \A r \in DOMAIN gauges.lag : gauges.lag[r].poll \in Nat
  <2>1. PICK rs \in SUBSET Nodes : gauges.lag \in [rs -> [lag : Offsets, poll : Nat]]
    BY DEF TypeInv, LagGauges
  <2> QED
    BY <2>1, NumbersType DEF TypeInv
<1>5. CASE Poll
  <2>1. /\ q.pc = "idle" /\ polls' = polls + 1 /\ gauges' = gauges
        /\ caller'[Exporter].pc = "addresses"
    BY <1>3, <1>5, BeginType DEF Poll
  <2>2. Fresh(q) = {} /\ Fresh(caller'[Exporter]) = {}
    BY <2>1 DEF Fresh
  <2>3. AreOfOnePoll(caller'[Exporter], gauges.lag, gauges.listed, polls + 1)
    BY <1>1, <1>4, <2>2 DEF AreOfOnePoll
  <2> QED
    BY <1>2, <2>1, <2>3
<1>6. CASE TakeLags
  <2>1. q.pc = "replicas" /\ UNCHANGED <<polls, gauges>>
    BY <1>6 DEF TakeLags
  <2>2. \/ caller'[Exporter].pc = "idle"
        \/ /\ caller'[Exporter].pc = "gauges"
           /\ caller'[Exporter].left = caller'[Exporter].listed
    BY <1>6, TakeLagsType, IdleIsTyped
  <2>3. Fresh(q) = {} /\ Fresh(caller'[Exporter]) = {}
    BY <2>1, <2>2 DEF Fresh
  <2>4. AreOfOnePoll(caller'[Exporter], gauges.lag, gauges.listed, polls)
    BY <1>1, <2>1, <2>3 DEF AreOfOnePoll
  <2> QED
    BY <1>2, <2>1, <2>4
<1>7. CASE SetLagGauge
  <2> DEFINE s == caller'[Exporter]
  <2>1. PICK n \in q.left :
          /\ s.left = q.left \ {n}
          /\ DOMAIN gauges'.lag = DOMAIN gauges.lag \cup {n}
          /\ gauges'.lag[n] = [lag |-> q.all[n].lag, poll |-> polls]
          /\ \A m \in DOMAIN gauges.lag \ {n} : gauges'.lag[m] = gauges.lag[m]
    BY <1>7, SetLagGaugeType
  <2>2. /\ q.pc = "gauges" /\ s.pc = "gauges" /\ s.listed = q.listed /\ s.all = q.all
        /\ polls' = polls /\ gauges'.listed = gauges.listed
    BY <1>7, SetLagGaugeType DEF SetLagGauge
  <2>3. n \in q.listed
    BY <1>3 DEF Course
  <2>4. Fresh(s) = Fresh(q) \cup {n} /\ n \notin Fresh(q)
    BY <2>1, <2>2, <2>3 DEF Fresh
  <2>5. AreOfOnePoll(s, gauges'.lag, gauges'.listed, polls)
    BY <1>1, <2>1, <2>2, <2>4 DEF AreOfOnePoll
  <2> QED
    BY <1>2, <2>2, <2>5
<1>8. CASE GaugesSet
  <2>1. /\ q.pc = "gauges" /\ q.left = {} /\ polls' = polls /\ caller'[Exporter].pc = "idle"
        /\ gauges'.lag = gauges.lag /\ gauges'.listed = q.listed
    BY <1>8, GaugesSetType, IdleIsTyped DEF GaugesSet
  <2>2. Fresh(q) = q.listed /\ Fresh(caller'[Exporter]) = {}
    BY <2>1 DEF Fresh
  <2>3. \A r \in q.listed : r \in DOMAIN gauges.lag /\ gauges.lag[r].poll = polls
    <3> SUFFICES ASSUME NEW r \in q.listed PROVE r \in DOMAIN gauges.lag /\ gauges.lag[r].poll = polls
      OBVIOUS
    <3>1. r \in DOMAIN gauges.lag /\ gauges.lag[r] = [lag |-> q.all[r].lag, poll |-> polls]
      BY <1>1, <2>2 DEF AreOfOnePoll
    <3> QED
      BY <3>1
  <2>4. AreOfOnePoll(caller'[Exporter], gauges.lag, q.listed, polls)
    BY <1>4, <2>1, <2>2, <2>3 DEF AreOfOnePoll
  <2> QED
    BY <1>2, <2>1, <2>4
<1>9. ASSUME NEW c \in Callers, \/ Request(c) \/ Resolve(c) \/ ReadMasterOffset(c) \/ NoLag(c)
                                \/ Measure(c) \/ MeasureFails(c) \/ RecordSample(c) \/ GetTrend(c)
                                \/ Answer(c)
      PROVE  GaugesInv'
  <2>1. UNCHANGED <<polls, gauges>> /\ \E s : Goes(c, s)
    BY <1>9 DEF Request, Resolve, ReadMasterOffset, NoLag, Measure, MeasureFails, RecordSample,
                GetTrend, Answer
  <2>2. CASE c # Exporter
    <3>1. caller'[Exporter] = caller[Exporter]
      BY <1>3, <2>1, <2>2, OneGoes
    <3> QED
      BY <2>1, <3>1, GaugesStay
  <2>3. CASE c = Exporter
    <3>1. Exporter \notin Requests
      BY ExporterAssumption
    <3>2. q.pc \notin {"idle", "gauges"}
      BY <1>9, <2>3, <3>1 DEF Request, Resolve, ReadMasterOffset, NoLag, Measure, MeasureFails,
                              RecordSample, GetTrend, Answer
    <3>3. caller'[Exporter].pc # "gauges"
      <4>1. CASE Resolve(c) \/ ReadMasterOffset(c) \/ Measure(c) \/ MeasureFails(c) \/ RecordSample(c)
                 \/ GetTrend(c)
        BY <2>3, <4>1, ResolveType, ReadMasterOffsetType, MeasureType, MeasureFailsType,
           RecordSampleType, GetTrendType
      <4>2. CASE NoLag(c)
        BY <2>3, <4>2, EndType DEF NoLag
      <4> QED
        BY <1>9, <2>3, <3>1, <4>1, <4>2 DEF Request, Answer
    <3> QED
      BY <2>1, <3>2, <3>3, GaugesStay
  <2> QED
    BY <2>2, <2>3
<1>10. ASSUME NEW n \in Nodes, Elect(n) PROVE GaugesInv'
  <2>1. UNCHANGED <<polls, gauges>>
    BY <1>10 DEF Elect
  <2>2. /\ caller'[Exporter].pc = q.pc /\ caller'[Exporter].all = q.all
        /\ caller'[Exporter].listed = q.listed /\ caller'[Exporter].left = q.left
    <3>1. caller'[Exporter] = [q EXCEPT !.steady = FALSE]
      BY <1>3, <1>10 DEF Elect
    <3> QED
      BY <1>3, <3>1 DEF CallerSet
  <2> QED
    BY <2>1, <2>2, GaugesStay
<1>11. CASE Write \/ (\E n \in Nodes : Replicate(n)) \/ UNCHANGED vars
  <2>1. UNCHANGED <<polls, gauges, caller>>
    BY <1>11 DEF Write, Replicate, vars
  <2> QED
    BY <2>1, GaugesStay
<1> QED
  BY <1>5, <1>6, <1>7, <1>8, <1>9, <1>10, <1>11, NextCases

\* Whichever replicas fail in whichever polls, and at whichever moment between two of the
\* exporter's Sets: the gauges of the replicas listed last are all there and of one poll,
\* but for those the poll under way has set, which are all and only what it found.
THEOREM GaugesAreOfOnePoll == Spec => []LagGaugesOfOnePoll
<1>1. Init => GaugesInv
  BY IdleIsTyped DEF Init, Callers, Fresh, GaugesInv, LagGaugesOfOnePoll
<1>2. GaugesInv => LagGaugesOfOnePoll
  BY DEF GaugesInv
<1> QED
  BY <1>1, <1>2, NextGauges, TypeInvariance, PTL DEF Spec
-----------------------------------------------------------------------------
(* The trend.                                                              *)

\* The newest samples up to the last one, as many as a ring holds.
IsLatest(trend, last) ==
  /\ Len(trend) = IF last < RingSize THEN last ELSE RingSize
  /\ \A k \in 1..Len(trend) : trend[k].no = last - (Len(trend) - k)

\* A sample is among them, or as many newer ones are.
Shows(trend, last, no, lag) ==
  /\ no <= last
  /\ (\E k \in 1..Len(trend) : trend[k].no = no /\ trend[k].lag = lag) \/ last >= no + RingSize

IsInRings(q) ==
  /\ q.pc = "trend" => /\ 1 <= q.no
                       /\ Shows(samples[q.replica], taken[q.replica], q.no, q.lag)
  /\ \A r \in DOMAIN q.all : \E last \in Nat \ {0} :
       /\ IsLatest(q.all[r].trend, last)
       /\ Shows(q.all[r].trend, last, q.all[r].no, q.all[r].lag)

\* TrendIsTheLatest speaks of what is returned; that the rings hold the latest samples, and
\* what a caller has recorded and not read back yet, makes it inductive.
TrendInv ==
  /\ \A n \in Nodes : IsLatest(samples[n], taken[n])
  /\ \A c \in Callers : IsInRings(caller[c])

\* A sample more: the ring still holds the latest, the new one among them, and what it
\* showed it shows, or holds as many newer ones.
LEMMA RingOfOneMore ==
  ASSUME NEW ring \in Seq(Samples), NEW last \in Nat, IsLatest(ring, last),
         NEW lag, [lag |-> lag, no |-> last + 1] \in Samples
  PROVE  LET new == AppendTrimmed(ring, [lag |-> lag, no |-> last + 1])
         IN  /\ IsLatest(new, last + 1)
             /\ Shows(new, last + 1, last + 1, lag)
             /\ \A no \in Nat : \A l : Shows(ring, last, no, l) => Shows(new, last + 1, no, l)
<1> DEFINE sample == [lag |-> lag, no |-> last + 1]
           new == AppendTrimmed(ring, sample)
           dropped == Len(ring) + 1 - Len(new)
<1>1. RingSize \in Nat /\ RingSize >= 1 /\ Len(ring) \in Nat /\ Len(ring) <= RingSize
  BY NumbersType DEF IsLatest
<1>2. sample.no = last + 1 /\ sample.lag = lag /\ sample \in Samples
  OBVIOUS
<1> HIDE DEF sample
<1> DEFINE m == Len(new)
           n == Len(ring)
<1>3. /\ m \in 1..RingSize /\ n \in Nat
      /\ m = IF n < RingSize THEN n + 1 ELSE RingSize
      /\ n = IF last < RingSize THEN last ELSE RingSize
      /\ dropped = n + 1 - m
      /\ new[m] = sample
      /\ \A k \in 1..(m - 1) : k + dropped \in 1..n /\ new[k] = ring[k + dropped]
  BY <1>1, <1>2, TrimmedRing DEF IsLatest
<1>4. \A k \in 1..n : ring[k].no = last - (n - k)
  BY DEF IsLatest
<1> HIDE DEF new, dropped
<1>5. /\ (/\ m = IF last + 1 < RingSize THEN last + 1 ELSE RingSize
          /\ \A k \in 1..m : new[k].no = (last + 1) - (m - k))
         => IsLatest(new, last + 1)
      /\ \A no, l : no <= last + 1 /\ last + 1 >= no + RingSize => Shows(new, last + 1, no, l)
      /\ \A no, l : \A k \in 1..m :
           no <= last + 1 /\ new[k].no = no /\ new[k].lag = l => Shows(new, last + 1, no, l)
  <2>1. (/\ m = IF last + 1 < RingSize THEN last + 1 ELSE RingSize
         /\ \A k \in 1..m : new[k].no = (last + 1) - (m - k)) => IsLatest(new, last + 1)
    BY Zenon DEF IsLatest
  <2>2. \A no, l : no <= last + 1 /\ last + 1 >= no + RingSize => Shows(new, last + 1, no, l)
    BY Zenon DEF Shows
  <2>3. \A no, l : \A k \in 1..m :
          no <= last + 1 /\ new[k].no = no /\ new[k].lag = l => Shows(new, last + 1, no, l)
    BY Zenon DEF Shows
  <2> QED
    BY <2>1, <2>2, <2>3, Zenon
<1> HIDE DEF m, n
<1>6. IsLatest(new, last + 1)
  <2>1. m = IF last + 1 < RingSize THEN last + 1 ELSE RingSize
    BY <1>1, <1>3
  <2>2. ASSUME NEW k \in 1..m PROVE new[k].no = (last + 1) - (m - k)
    <3>1. CASE k = m
      <4>1. new[k] = sample
        BY <1>3, <3>1
      <4>2. m \in Nat
        BY <1>1, <1>3
      <4>3. m - k = 0
        BY <3>1, <4>2
      <4> QED
        BY <1>2, <4>1, <4>3
    <3>2. CASE k # m
      <4>1. k \in 1..(m - 1)
        BY <1>3, <3>2
      <4>2. k + dropped \in 1..n /\ new[k] = ring[k + dropped]
        BY <1>3, <4>1
      <4>3. ring[k + dropped].no = last - (n - (k + dropped))
        BY <1>4, <4>2
      <4>4. m \in Nat /\ n \in Nat /\ k \in Nat /\ dropped = n + 1 - m
        BY <1>1, <1>3
      <4>5. last - (n - (k + dropped)) = (last + 1) - (m - k)
        BY <4>4
      <4> QED
        BY <4>2, <4>3, <4>5
    <3> QED
      BY <3>1, <3>2
  <2> QED
    BY <1>5, <2>1, <2>2
<1>7. Shows(new, last + 1, last + 1, lag)
  <2>1. m \in 1..m /\ new[m].no = last + 1 /\ new[m].lag = lag
    BY <1>2, <1>3
  <2> QED
    BY <1>5, <2>1
<1>8. ASSUME NEW no \in Nat, NEW l, Shows(ring, last, no, l)
      PROVE  Shows(new, last + 1, no, l)
  <2>1. /\ no <= last
        /\ (\E k \in 1..n : ring[k].no = no /\ ring[k].lag = l) \/ last >= no + RingSize
    BY <1>8 DEF Shows, n
  <2>2. CASE last >= no + RingSize
    BY <1>1, <1>5, <2>1, <2>2
  <2>3. CASE \E k \in 1..n : ring[k].no = no /\ ring[k].lag = l
    <3>1. PICK k \in 1..n : ring[k].no = no /\ ring[k].lag = l
      BY <2>3
    <3>2. no = last - (n - k)
      BY <1>4, <3>1
    <3>3. CASE k - dropped >= 1
      <4> DEFINE j == k - dropped
      <4>1. j \in 1..(m - 1) /\ j + dropped = k
        <5>1. k \in Nat /\ n \in Nat /\ dropped \in Nat /\ k <= n /\ n + 1 - dropped = m
          BY <1>1, <1>3, <3>1
        <5> QED
          BY <5>1, <3>3
      <4>2. new[j] = ring[k]
        BY <1>3, <4>1
      <4>3. j \in 1..m
        BY <1>3, <4>1
      <4> QED
        BY <1>5, <2>1, <3>1, <4>2, <4>3
    <3>4. CASE ~(k - dropped >= 1)
      <4>1. k = 1 /\ n = RingSize
        BY <1>1, <1>3, <3>4
      <4>2. last + 1 >= no + RingSize
        BY <1>1, <3>2, <4>1
      <4> QED
        BY <1>5, <2>1, <4>2
    <3> QED
      BY <3>3, <3>4
  <2> QED
    BY <2>1, <2>2, <2>3
<1> QED
  BY <1>6, <1>7, <1>8 DEF new, sample

\* What the rings show of every sample they show after a step too.
RingsGo ==
  \A n \in Nodes : \A no \in Nat : \A lag :
    Shows(samples[n], taken[n], no, lag) => Shows(samples'[n], taken'[n], no, lag)

LEMMA StillInRings ==
  ASSUME TypeInv, TrendInv, RingsGo, NEW c \in Callers,
         caller'[c].pc = caller[c].pc, caller'[c].all = caller[c].all,
         caller'[c].replica = caller[c].replica, caller'[c].lag = caller[c].lag,
         caller'[c].no = caller[c].no
  PROVE  IsInRings(caller[c])'
<1>1. IsInRings(caller[c]) /\ caller[c] \in CallerSet /\ Course(caller[c])
  BY DEF TrendInv, TypeInv, IsTyped
<1>2. caller[c].no \in Nat /\ (caller[c].pc = "trend" => caller[c].replica \in Nodes)
  BY <1>1 DEF CallerSet, Course
<1> QED
  BY <1>1, <1>2 DEF IsInRings, RingsGo

LEMMA OneMoves ==
  ASSUME TypeInv, TrendInv, RingsGo, \A n \in Nodes : IsLatest(samples'[n], taken'[n]),
         NEW c \in Callers, \A d \in Callers \ {c} : caller'[d] = caller[d], IsInRings(caller[c])'
  PROVE  TrendInv'
<1>1. \A d \in Callers \ {c} : IsInRings(caller[d])'
  BY StillInRings
<1>2. \A d \in Callers : IsInRings(caller[d])'
  BY <1>1
<1> QED
  BY <1>2 DEF TrendInv

LEMMA RingsStay ==
  ASSUME TrendInv, UNCHANGED rings
  PROVE  RingsGo /\ \A n \in Nodes : IsLatest(samples'[n], taken'[n])
BY DEF TrendInv, RingsGo, rings

LEMMA RecordSampleInRings ==
  ASSUME TypeInv, TrendInv, NEW c \in Callers, RecordSample(c)
  PROVE  TrendInv'
<1> DEFINE r == caller[c].replica
           no == taken[r] + 1
           lag == caller[c].lag
<1>1. /\ r \in Nodes /\ [lag |-> lag, no |-> no] \in Samples
      /\ caller'[c].pc = "trend" /\ caller'[c].no = no
      /\ caller'[c].replica = r /\ caller'[c].lag = lag /\ caller'[c].all = caller[c].all
  BY RecordSampleType
<1>2. /\ samples' = [samples EXCEPT ![r] = AppendTrimmed(samples[r], [lag |-> lag, no |-> no])]
      /\ taken' = [taken EXCEPT ![r] = no]
      /\ \A d \in Callers \ {c} : caller'[d] = caller[d]
  BY OneGoes DEF RecordSample, TypeInv
<1>3. /\ \A n \in Nodes : samples[n] \in Seq(Samples) /\ taken[n] \in Nat /\ IsLatest(samples[n], taken[n])
      /\ DOMAIN samples = Nodes /\ DOMAIN taken = Nodes
  BY DEF TypeInv, RingsType, TrendInv
<1> HIDE DEF lag
<1>4. /\ IsLatest(samples'[r], no)
      /\ Shows(samples'[r], no, no, lag)
      /\ \A k \in Nat : \A l : Shows(samples[r], taken[r], k, l) => Shows(samples'[r], no, k, l)
  <2> DEFINE ring == samples[r]
             last == taken[r]
  <2>1. ring \in Seq(Samples) /\ last \in Nat /\ IsLatest(ring, last)
    BY <1>1, <1>3
  <2>2. [lag |-> lag, no |-> last + 1] \in Samples
    BY <1>1
  <2>3. samples'[r] = AppendTrimmed(ring, [lag |-> lag, no |-> last + 1])
    BY <1>1, <1>2, <1>3
  <2> HIDE DEF ring, last, r
  <2>4. /\ IsLatest(samples'[r], last + 1)
        /\ Shows(samples'[r], last + 1, last + 1, lag)
        /\ \A k \in Nat : \A l : Shows(ring, last, k, l) => Shows(samples'[r], last + 1, k, l)
    BY <2>1, <2>2, <2>3, RingOfOneMore
  <2> QED
    BY <2>4 DEF ring, last
<1>5. /\ taken'[r] = no /\ \A n \in Nodes \ {r} : samples'[n] = samples[n] /\ taken'[n] = taken[n]
  BY <1>1, <1>2, <1>3
<1>6. RingsGo /\ \A n \in Nodes : IsLatest(samples'[n], taken'[n])
  BY <1>3, <1>4, <1>5 DEF RingsGo
<1>7. IsInRings(caller[c])'
  <2>1. IsInRings(caller[c])
    BY DEF TrendInv
  <2>2. 1 <= no
    BY <1>1, <1>3
  <2> HIDE DEF no, r
  <2> QED
    BY <1>1, <1>4, <1>5, <2>1, <2>2 DEF IsInRings
<1> QED
  BY <1>2, <1>6, <1>7, OneMoves

LEMMA GetTrendInRings ==
  ASSUME TypeInv, TrendInv, NEW c \in Callers, GetTrend(c)
  PROVE  TrendInv'
<1> DEFINE r == caller[c].replica
<1>1. /\ r \in Nodes /\ caller'[c].pc = "replicas"
      /\ DOMAIN caller'[c].all = DOMAIN caller[c].all \cup {r}
      /\ caller'[c].all[r] = [lag |-> caller[c].lag, trend |-> samples[r], no |-> caller[c].no]
      /\ \A s \in DOMAIN caller[c].all \ {r} : caller'[c].all[s] = caller[c].all[s]
  BY GetTrendType
<1>2. UNCHANGED rings /\ caller[c].pc = "trend" /\ \A d \in Callers \ {c} : caller'[d] = caller[d]
  BY OneGoes DEF GetTrend, TypeInv
<1>3. /\ IsInRings(caller[c]) /\ IsLatest(samples[r], taken[r]) /\ taken[r] \in Nat
      /\ caller[c].no \in Nat
  BY <1>1 DEF TrendInv, TypeInv, RingsType, IsTyped, CallerSet
<1>4. taken[r] \in Nat \ {0} /\ Shows(samples[r], taken[r], caller[c].no, caller[c].lag)
  <2>1. Shows(samples[r], taken[r], caller[c].no, caller[c].lag) /\ 1 <= caller[c].no
    BY <1>2, <1>3 DEF IsInRings
  <2>2. caller[c].no <= taken[r]
    BY <2>1 DEF Shows
  <2>3. taken[r] # 0
    BY <1>3, <2>1, <2>2
  <2> QED
    BY <1>3, <2>1, <2>3
<1>5. /\ caller'[c].all[r].trend = samples[r] /\ caller'[c].all[r].no = caller[c].no
      /\ caller'[c].all[r].lag = caller[c].lag
  BY <1>1
<1>6. ASSUME NEW s \in DOMAIN caller'[c].all
      PROVE  \E last \in Nat \ {0} :
               /\ IsLatest(caller'[c].all[s].trend, last)
               /\ Shows(caller'[c].all[s].trend, last, caller'[c].all[s].no, caller'[c].all[s].lag)
  <2>1. CASE s = r
    BY <1>3, <1>4, <1>5, <2>1
  <2>2. CASE s # r
    <3>1. s \in DOMAIN caller[c].all /\ caller'[c].all[s] = caller[c].all[s]
      BY <1>1, <2>2
    <3> QED
      BY <1>3, <3>1 DEF IsInRings
  <2> QED
    BY <2>1, <2>2
<1>7. IsInRings(caller[c])'
  BY <1>1, <1>6 DEF IsInRings
<1> QED
  BY <1>2, <1>7, OneMoves, RingsStay

LEMMA NextTrendInv == TypeInv /\ TrendInv /\ [Next]_vars => TrendInv'
<1> SUFFICES ASSUME TypeInv, TrendInv, [Next]_vars PROVE TrendInv'
  OBVIOUS
<1>1. ASSUME NEW c \in Callers, UNCHANGED rings, \E q : Goes(c, q), caller'[c].pc # "trend",
             DOMAIN caller'[c].all = {} \/ caller'[c].all = caller[c].all
      PROVE  TrendInv'
  <2>1. \A d \in Callers \ {c} : caller'[d] = caller[d]
    BY <1>1, OneGoes DEF TypeInv
  <2>2. IsInRings(caller[c])'
    BY <1>1 DEF TrendInv, IsInRings
  <2> QED
    BY <1>1, <2>1, <2>2, OneMoves, RingsStay
<1>2. CASE Poll
  <2>1. Exporter \in Callers /\ UNCHANGED rings /\ \E q : Goes(Exporter, q)
    BY <1>2 DEF Poll, Callers
  <2>2. caller'[Exporter].pc = "addresses" /\ DOMAIN caller'[Exporter].all = {}
    BY <1>2, <2>1, BeginType DEF Poll
  <2> QED
    BY <1>1, <2>1, <2>2
<1>3. CASE TakeLags \/ SetLagGauge \/ GaugesSet
  <2>1. Exporter \in Callers /\ UNCHANGED rings /\ \E q : Goes(Exporter, q)
    BY <1>3 DEF TakeLags, SetLagGauge, GaugesSet, Callers
  <2>2. /\ caller'[Exporter].pc # "trend"
        /\ DOMAIN caller'[Exporter].all = {} \/ caller'[Exporter].all = caller[Exporter].all
    BY <1>3, TakeLagsType, SetLagGaugeType, GaugesSetType, IdleIsTyped
  <2> QED
    BY <1>1, <2>1, <2>2
<1>4. ASSUME NEW c \in Callers, Request(c) \/ NoLag(c) \/ Answer(c) PROVE TrendInv'
  <2>1. UNCHANGED rings /\ \E q : Goes(c, q)
    BY <1>4 DEF Request, NoLag, Answer
  <2>2. caller'[c].pc # "trend" /\ DOMAIN caller'[c].all = {}
    <3>1. CASE Request(c)
      BY <3>1, BeginType DEF Request
    <3>2. CASE NoLag(c) \/ Answer(c)
      BY <3>2, EndType DEF NoLag, Answer
    <3> QED
      BY <1>4, <3>1, <3>2
  <2> QED
    BY <1>1, <2>1, <2>2
<1>5. ASSUME NEW c \in Callers, Resolve(c) \/ ReadMasterOffset(c) \/ Measure(c) \/ MeasureFails(c)
      PROVE  TrendInv'
  <2>1. UNCHANGED rings /\ \E q : Goes(c, q)
    BY <1>5 DEF Resolve, ReadMasterOffset, Measure, MeasureFails
  <2>2. caller'[c].pc # "trend" /\ (DOMAIN caller'[c].all = {} \/ caller'[c].all = caller[c].all)
    BY <1>5, ResolveType, ReadMasterOffsetType, MeasureType, MeasureFailsType
  <2> QED
    BY <1>1, <2>1, <2>2
<1>6. ASSUME UNCHANGED rings,
             \A c \in Callers : /\ caller'[c].pc = caller[c].pc /\ caller'[c].all = caller[c].all
                                /\ caller'[c].replica = caller[c].replica
                                /\ caller'[c].lag = caller[c].lag /\ caller'[c].no = caller[c].no
      PROVE  TrendInv'
  <2>1. RingsGo /\ \A n \in Nodes : IsLatest(samples'[n], taken'[n])
    BY <1>6, RingsStay
  <2>2. \A c \in Callers : IsInRings(caller[c])'
    BY <1>6, <2>1, StillInRings
  <2> QED
    BY <2>1, <2>2 DEF TrendInv
<1>7. ASSUME NEW n \in Nodes, Elect(n) PROVE TrendInv'
  BY <1>6, <1>7, ElectType DEF Elect
<1>8. CASE Write \/ (\E n \in Nodes : Replicate(n)) \/ UNCHANGED vars
  <2>1. UNCHANGED rings /\ caller' = caller
    BY <1>8 DEF Write, Replicate, vars
  <2> QED
    BY <1>6, <2>1
<1> QED
  BY <1>2, <1>3, <1>4, <1>5, <1>7, <1>8, NextCases, RecordSampleInRings, GetTrendInRings

\* However many callers record samples of one replica: a trend that is shown is its latest
\* samples without a gap, the shown one among them or as many newer ones.
THEOREM TrendsAreTheLatest == Spec => []TrendIsTheLatest
<1>1. Init => TrendInv
  <2> SUFFICES ASSUME Init PROVE TrendInv
    OBVIOUS
  <2>1. \A n \in Nodes : samples[n] = << >> /\ taken[n] = 0
    BY DEF Init
  <2>2. \A n \in Nodes : IsLatest(samples[n], taken[n])
    BY <2>1, NumbersType DEF IsLatest
  <2>3. \A c \in Callers : caller[c] = Idle
    BY DEF Init
  <2>4. \A c \in Callers : IsInRings(caller[c])
    BY <2>3, IdleIsTyped DEF IsInRings
  <2> QED
    BY <2>2, <2>4 DEF TrendInv
<1>2. TypeInv /\ TrendInv => TrendIsTheLatest
  <2> SUFFICES ASSUME TypeInv, TrendInv, NEW c \in Callers, NEW r \in DOMAIN caller[c].all
               PROVE  LET trend == caller[c].all[r].trend
                          last == trend[Len(trend)].no
                          own == caller[c].all[r].no
                      IN  /\ Len(trend) = IF last < RingSize THEN last ELSE RingSize
                          /\ \A k \in 1..Len(trend) : trend[k].no = last - (Len(trend) - k)
                          /\ own <= last
                          /\ (\E k \in 1..Len(trend) : /\ trend[k].no = own
                                                       /\ trend[k].lag = caller[c].all[r].lag)
                               \/ last >= own + RingSize
    BY DEF TrendIsTheLatest
  <2> DEFINE trend == caller[c].all[r].trend
             own == caller[c].all[r].no
             lag == caller[c].all[r].lag
  <2>1. PICK last \in Nat \ {0} : IsLatest(trend, last) /\ Shows(trend, last, own, lag)
    BY DEF TrendInv, IsInRings
  <2> HIDE DEF trend, own, lag
  <2>2. Len(trend) >= 1 /\ Len(trend) \in Nat
    BY <2>1, NumbersType DEF IsLatest
  <2>3. trend[Len(trend)].no = last
    BY <2>1, <2>2 DEF IsLatest
  <2> QED
    BY <2>1, <2>3 DEF IsLatest, Shows, trend, own, lag
<1> QED
  BY <1>1, <1>2, NextTrendInv, TypeInvariance, PTL DEF Spec
-----------------------------------------------------------------------------
(* LifeCycle, for any requests, any sentinels and any deadline.            *)

Polls ==
  [pc : {"select", "topology", "quorum", "rest", "stopped", "killed"},
   unasked : SUBSET Sentinels, quorumOK : BOOLEAN, hadQuorum : BOOLEAN]

\* LifeCycle's variables have their types.
THEOREM LifeTypesHold == LifeSpec => []LifeTypeOK
<1>1. LifeInit => LifeTypeOK
  <2> SUFFICES ASSUME LifeInit PROVE LifeTypeOK
    OBVIOUS
  <2>1. drained \in 0..Deadline
    BY DeadlineAssumption DEF LifeInit
  <2>2. exporter \in Polls
    BY DEF LifeInit, Polls
  <2>3. signalled \in BOOLEAN /\ failed \in BOOLEAN /\ gauge \in BOOLEAN /\ seen \in BOOLEAN
    BY DEF LifeInit
  <2> QED
    BY <2>1, <2>2, <2>3 DEF LifeInit, LifeTypeOK, Polls
<1>2. LifeTypeOK /\ [LifeNext]_lifeVars => LifeTypeOK'
  <2> SUFFICES ASSUME LifeTypeOK, [LifeNext]_lifeVars PROVE LifeTypeOK'
    OBVIOUS
  <2> USE DEF LifeTypeOK
  <2>1. CASE Exit
    BY <2>1 DEF Exit
  <2>2. CASE Second
    <3>1. drained' \in 0..Deadline
      BY <2>2, DeadlineAssumption DEF Second
    <3> QED
      BY <2>2, <3>1 DEF Second, metrics
  <2>3. ASSUME NEW r \in HttpRequests, Connect(r) \/ Begin(r) \/ CloseUnused(r) \/ End(r)
        PROVE  LifeTypeOK'
    BY <2>3 DEF Connect, Begin, CloseUnused, End, Comes, process, metrics
  <2>4. CASE BeginPoll \/ Stop \/ TopologyFails \/ TopologyRead \/ SetQuorumGauge \/ Rest
    <3>1. CASE BeginPoll \/ Stop
      <4>1. exporter \in Polls /\ SomeQuorum \in BOOLEAN
        BY DEF Polls, SomeQuorum
      <4>2. exporter' \in Polls
        BY <3>1, <4>1 DEF BeginPoll, Stop, Exports, Polls
      <4> QED
        BY <3>1, <4>2 DEF BeginPoll, Stop, Exports, process, Polls
    <3>2. CASE TopologyFails \/ TopologyRead
      <4>1. exporter' \in Polls
        BY <3>2 DEF TopologyFails, TopologyRead, Exports, Polls
      <4> QED
        BY <3>2, <4>1 DEF TopologyFails, TopologyRead, Exports, process, Polls
    <3>3. CASE SetQuorumGauge \/ Rest
      <4>1. exporter' \in Polls /\ exporter.quorumOK \in BOOLEAN /\ exporter.hadQuorum \in BOOLEAN
        BY <3>3 DEF SetQuorumGauge, Rest, Exports, Polls
      <4> QED
        BY <3>3, <4>1 DEF SetQuorumGauge, Rest, Exports, process, Polls
    <3> QED
      BY <2>4, <3>1, <3>2, <3>3
  <2>5. ASSUME NEW s \in Sentinels, AskQuorum(s) PROVE LifeTypeOK'
    <3>1. PICK answers \in BOOLEAN :
            exporter' = [exporter EXCEPT !.unasked = @ \ {s}, !.quorumOK = answers /\ quorum[s]]
      BY <2>5 DEF AskQuorum, Exports
    <3>2. (answers /\ quorum[s]) \in BOOLEAN
      BY <3>1
    <3>3. exporter \in Polls /\ exporter.unasked \ {s} \in SUBSET Sentinels
      BY DEF Polls
    <3>4. exporter' \in Polls
      BY <3>1, <3>2, <3>3, Zenon DEF Polls
    <3> QED
      BY <2>5, <3>4 DEF AskQuorum, Exports, process, Polls
  <2>6. ASSUME NEW s \in Sentinels, QuorumChanges(s) PROVE LifeTypeOK'
    BY <2>6 DEF QuorumChanges, process
  <2> QED
    BY <2>1, <2>2, <2>3, <2>4, <2>5, <2>6
    DEF LifeNext, lifeVars, process, metrics, Signal, ServerStarts, ServerFails, Shutdown, Exited
<1> QED
  BY <1>1, <1>2, PTL DEF LifeSpec

\* A quorum there is during a poll is noted, and so is one a sentinel has told of.
QuorumInv ==
  /\ exporter \in Polls /\ quorum \in [Sentinels -> BOOLEAN]
  /\ exporter.pc \in {"topology", "quorum"} /\ SomeQuorum => exporter.hadQuorum
  /\ exporter.pc = "quorum" /\ exporter.quorumOK => exporter.hadQuorum
  /\ QuorumGaugeWasTrue

LEMMA NextQuorumInv == QuorumInv /\ [LifeNext]_lifeVars => QuorumInv'
<1> SUFFICES ASSUME QuorumInv, [LifeNext]_lifeVars PROVE QuorumInv'
  OBVIOUS
<1> USE DEF QuorumInv, Polls, SomeQuorum, QuorumGaugeWasTrue
<1>1. CASE UNCHANGED <<exporter, quorum, gauge, seen>>
  BY <1>1
<1>2. CASE Exit
  BY <1>2 DEF Exit
<1>3. CASE BeginPoll
  BY <1>3 DEF BeginPoll, Exports
<1>4. CASE Stop
  BY <1>4 DEF Stop, Exports
<1>5. CASE TopologyFails
  BY <1>5 DEF TopologyFails, Exports
<1>6. CASE TopologyRead
  BY <1>6 DEF TopologyRead, Exports
<1>7. CASE SetQuorumGauge
  BY <1>7 DEF SetQuorumGauge, Exports
<1>8. CASE Rest
  BY <1>8 DEF Rest, Exports
<1>9. ASSUME NEW s \in Sentinels, AskQuorum(s) PROVE QuorumInv'
  BY <1>9 DEF AskQuorum, Exports
<1>10. ASSUME NEW s \in Sentinels, QuorumChanges(s) PROVE QuorumInv'
  BY <1>10 DEF QuorumChanges
<1> QED
  BY <1>1, <1>2, <1>3, <1>4, <1>5, <1>6, <1>7, <1>8, <1>9, <1>10
  DEF LifeNext, lifeVars, process, metrics, Signal, ServerStarts, ServerFails,
      Shutdown, Second, Connect, Begin, CloseUnused, End, Comes, Exited

\* For any sentinels, requests and shutdown, and polls cut off anywhere: the gauge shows a
\* quorum only if a sentinel had it during the last poll that read a topology.
THEOREM QuorumGaugesWereTrue == LifeSpec => []QuorumGaugeWasTrue
<1>1. LifeInit => QuorumInv
  BY DEF LifeInit, QuorumInv, Polls, QuorumGaugeWasTrue
<1>2. QuorumInv => QuorumGaugeWasTrue
  BY DEF QuorumInv
<1> QED
  BY <1>1, <1>2, NextQuorumInv, PTL DEF LifeSpec
=============================================================================
