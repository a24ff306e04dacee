--------------------------- MODULE PubSubProofs -----------------------------
(***************************************************************************)
(* Proofs about the two halves of internal/sentinel/pubsub.go, which share *)
(* no state.  EventBus, for any sets of publishers and streams, any buffer *)
(* capacity and any number of events: the inductive invariant that the     *)
(* locking establishes, that no publisher sends to a closed channel, and   *)
(* that every step of the bus is a step of the lossy fan-out.  Then        *)
(* PubSubListener: that an event is marked flapping exactly when it should.*)
(***************************************************************************)
EXTENDS EventBus, PubSubListener, FiniteSetTheorems, SequenceTheorems, WellFoundedInduction, TLAPS

\* Exactly the stream inside Subscribe or Unsubscribe holds the write side.
WriterIsInside ==
  \A s \in Streams : spc[s] \in {"adding", "removing"} <=> writer = s

\* A stream's channel is in the map from the end of Subscribe to the delete of
\* Unsubscribe, and is closed when its handler is done.
MapFollowsHandlers ==
  /\ subs = {s \in Streams : spc[s] \in {"select", "writing", "leaving", "removing"}}
  /\ closed = {s \in Streams : spc[s] = "done"}

\* A publisher has channels left to visit only inside its range, and they are
\* all still in the map.
RangeSeesTheMap ==
  \A p \in Publishers : /\ todo[p] \subseteq subs
                        /\ todo[p] # {} => ppc[p] = "sending"

\* What a channel still to be visited was not offered has been published.
PublishedBeforeSent ==
  \A p \in Publishers : todo[p] # {} => published[p] > 0

IInv ==
  /\ TypeOK
  /\ WriterIsInside
  /\ MapFollowsHandlers
  /\ RangeSeesTheMap
  /\ PublishedBeforeSent

-----------------------------------------------------------------------------
\* Each disjunct of Next, one name for each action.
LEMMA NextCases ==
  ASSUME Next
  PROVE  \/ \E p \in Publishers : PublishCall(p)
         \/ \E p \in Publishers : PublishRange(p)
         \/ \E p \in Publishers, s \in Streams : Send(p, s)
         \/ \E p \in Publishers : PublishReturn(p)
         \/ \E s \in Streams : Connect(s)
         \/ \E s \in Streams : Lock(s)
         \/ \E s \in Streams : Subscribe(s)
         \/ \E s \in Streams : Receive(s)
         \/ \E s \in Streams : Written(s)
         \/ \E s \in Streams : ClientGone(s)
         \/ \E s \in Streams : Return(s)
         \/ \E s \in Streams : Unsubscribe(s)
         \/ \E s \in Streams : Close(s)
         \/ UNCHANGED vars
BY DEF Next, PublisherStep, LockedStep, Quiescent

\* While a stream holds the write lock no publisher has a channel left to visit.
LEMMA NoRangeUnderWriteLock ==
  ASSUME IInv, NEW s \in Streams, HoldsWriteLock(s)
  PROVE  \A p \in Publishers : todo[p] = {}
BY DEF IInv, RangeSeesTheMap, HoldsWriteLock, Readers

LEMMA InitIInv == Init => IInv
BY NoStreamAssumption, CapAssumption
   DEF Init, IInv, TypeOK, WriterIsInside, MapFollowsHandlers, RangeSeesTheMap,
       PublishedBeforeSent, NoEvents, PublisherStates, StreamStates, Events

LEMMA NextTypeOK == TypeOK /\ [Next]_vars => TypeOK'
<1> SUFFICES ASSUME TypeOK, [Next]_vars
             PROVE  TypeOK'
  OBVIOUS
<1> USE DEF TypeOK, PublisherStates, StreamStates
<1>1. ASSUME NEW p \in Publishers, PublishCall(p)
      PROVE  TypeOK'
  BY <1>1 DEF PublishCall, RLock, lockVars, channelVars, streamVars
<1>2. ASSUME NEW p \in Publishers, PublishRange(p)
      PROVE  TypeOK'
  BY <1>2 DEF PublishRange, lockVars, channelVars, streamVars
<1>3. ASSUME NEW p \in Publishers, NEW s \in Streams, Send(p, s)
      PROVE  TypeOK'
  <2>1. <<p, published[p]>> \in Events
    BY DEF Events
  <2>2. Append(buf[s], <<p, published[p]>>) \in Seq(Events)
    BY <2>1
  <2>3. buf' \in [Streams -> Seq(Events)]
    BY <1>3, <2>2 DEF Send
  <2>4. \A t \in Streams : Len(buf'[t]) <= Cap
    <3>1. Len(Append(buf[s], <<p, published[p]>>)) = Len(buf[s]) + 1
      BY <2>1
    <3>2. Len(buf[s]) \in Nat
      OBVIOUS
    <3>3. Len(buf[s]) < Cap => Len(buf[s]) + 1 <= Cap
      BY <3>2, CapAssumption
    <3> QED
      BY <1>3, <3>1, <3>3 DEF Send
  <2> QED
    BY <1>3, <2>3, <2>4 DEF Send, lockVars, streamVars
<1>4. ASSUME NEW p \in Publishers, PublishReturn(p)
      PROVE  TypeOK'
  BY <1>4 DEF PublishReturn, lockVars, channelVars, streamVars
<1>5. ASSUME NEW s \in Streams, Connect(s)
      PROVE  TypeOK'
  BY <1>5 DEF Connect, lockVars, channelVars, pubVars
<1>6. ASSUME NEW s \in Streams, Lock(s)
      PROVE  TypeOK'
  BY <1>6 DEF Lock, channelVars, pubVars
<1>7. ASSUME NEW s \in Streams, Subscribe(s)
      PROVE  TypeOK'
  BY <1>7 DEF Subscribe, Unlock
<1>8. ASSUME NEW s \in Streams, Receive(s)
      PROVE  TypeOK'
  <2>1. Tail(buf[s]) \in Seq(Events)
    BY <1>8 DEF Receive
  <2>2. Len(Tail(buf[s])) <= Cap
    <3>1. Len(Tail(buf[s])) = Len(buf[s]) - 1 /\ Len(buf[s]) \in Nat
      BY <1>8 DEF Receive
    <3> QED
      BY <3>1, CapAssumption
  <2> QED
    BY <1>8, <2>1, <2>2 DEF Receive, lockVars, pubVars
<1>9. ASSUME NEW s \in Streams, Written(s) \/ ClientGone(s) \/ Return(s)
      PROVE  TypeOK'
  BY <1>9 DEF Written, ClientGone, Return, lockVars, channelVars, pubVars
<1>10. ASSUME NEW s \in Streams, Unsubscribe(s)
       PROVE  TypeOK'
  BY <1>10 DEF Unsubscribe, Unlock
<1>11. ASSUME NEW s \in Streams, Close(s)
       PROVE  TypeOK'
  BY <1>11 DEF Close, lockVars, pubVars
<1>12. CASE UNCHANGED vars
  BY <1>12 DEF vars, lockVars, channelVars, pubVars, streamVars
<1> QED
  BY <1>1, <1>2, <1>3, <1>4, <1>5, <1>6, <1>7, <1>8, <1>9, <1>10, <1>11, <1>12,
     NextCases

\* Every value a run of the bus gives its state has its type.
THEOREM TypeCorrect == Spec => []TypeOK
<1>1. Init => TypeOK
  BY InitIInv DEF IInv
<1> QED
  BY <1>1, NextTypeOK, PTL DEF Spec

-----------------------------------------------------------------------------
LEMMA NextIInv == IInv /\ [Next]_vars => IInv'
<1> SUFFICES ASSUME IInv, [Next]_vars
             PROVE  IInv'
  OBVIOUS
<1>0. TypeOK'
  BY NextTypeOK DEF IInv
<1> USE NoStreamAssumption
    DEF IInv, WriterIsInside, MapFollowsHandlers, RangeSeesTheMap, PublishedBeforeSent
<1>1. ASSUME NEW p \in Publishers, PublishCall(p)
      PROVE  IInv'
  BY <1>0, <1>1 DEF TypeOK, PublishCall, RLock, lockVars, channelVars, streamVars
<1>2. ASSUME NEW p \in Publishers, PublishRange(p)
      PROVE  IInv'
  BY <1>0, <1>2 DEF TypeOK, PublishRange, lockVars, channelVars, streamVars
<1>3. ASSUME NEW p \in Publishers, NEW s \in Streams, Send(p, s)
      PROVE  IInv'
  BY <1>0, <1>3 DEF TypeOK, Send, lockVars, streamVars
<1>4. ASSUME NEW p \in Publishers, PublishReturn(p)
      PROVE  IInv'
  BY <1>0, <1>4 DEF TypeOK, PublishReturn, lockVars, channelVars, streamVars
<1>5. ASSUME NEW s \in Streams, Connect(s)
      PROVE  IInv'
  BY <1>0, <1>5 DEF TypeOK, Connect, lockVars, channelVars, pubVars
<1>6. ASSUME NEW s \in Streams, Lock(s)
      PROVE  IInv'
  BY <1>0, <1>6 DEF TypeOK, Lock, channelVars, pubVars
<1>7. ASSUME NEW s \in Streams, Subscribe(s)
      PROVE  IInv'
  <2>1. \A p \in Publishers : todo[p] = {}
    BY <1>7, NoRangeUnderWriteLock DEF Subscribe
  <2> QED
    BY <1>0, <1>7, <2>1 DEF TypeOK, Subscribe, Unlock, HoldsWriteLock
<1>8. ASSUME NEW s \in Streams, Receive(s)
      PROVE  IInv'
  BY <1>0, <1>8 DEF TypeOK, Receive, lockVars, pubVars
<1>9. ASSUME NEW s \in Streams, Written(s) \/ ClientGone(s) \/ Return(s)
      PROVE  IInv'
  BY <1>0, <1>9 DEF TypeOK, Written, ClientGone, Return, lockVars, channelVars, pubVars
<1>10. ASSUME NEW s \in Streams, Unsubscribe(s)
       PROVE  IInv'
  <2>1. \A p \in Publishers : todo[p] = {}
    BY <1>10, NoRangeUnderWriteLock DEF Unsubscribe
  <2> QED
    BY <1>0, <1>10, <2>1 DEF TypeOK, Unsubscribe, Unlock, HoldsWriteLock
<1>11. ASSUME NEW s \in Streams, Close(s)
       PROVE  IInv'
  BY <1>0, <1>11 DEF TypeOK, Close, lockVars, pubVars
<1>12. CASE UNCHANGED vars
  BY <1>0, <1>12 DEF vars, lockVars, channelVars, pubVars, streamVars
<1> QED
  BY <1>1, <1>2, <1>3, <1>4, <1>5, <1>6, <1>7, <1>8, <1>9, <1>10, <1>11, <1>12,
     NextCases

LEMMA Invariance == Spec => []IInv
BY InitIInv, NextIInv, PTL DEF Spec

\* publish never sends to a closed channel, although Unsubscribe closes the
\* channel after it released the lock.
THEOREM NoSendOnClosed == Spec => []NeverSendOnClosed
<1>1. IInv => NeverSendOnClosed
  BY DEF IInv, MapFollowsHandlers, RangeSeesTheMap, NeverSendOnClosed
<1> QED
  BY <1>1, Invariance, PTL

-----------------------------------------------------------------------------
(* The bus implements the lossy fan-out.                                   *)

LEMMA InitFanout == Init => Fanout!Init
BY DEF Init, Fanout!Init, Fanout!NoOffers, NoEvents

\* A step that does not touch what the mapping reads is a stutter of the fan-out.
LEMMA FanoutStutter ==
  ASSUME UNCHANGED <<subs, published, todo, buf>>,
         {s \in Streams : spc[s] \in {"closing", "done"}}' =
         {s \in Streams : spc[s] \in {"closing", "done"}}
  PROVE  UNCHANGED Fanout!vars
BY DEF Fanout!vars, Offered

LEMMA StepFanout == IInv /\ IInv' /\ [Next]_vars => [Fanout!Next]_(Fanout!vars)
<1> SUFFICES ASSUME IInv, IInv', [Next]_vars
             PROVE  [Fanout!Next]_(Fanout!vars)
  OBVIOUS
<1> DEFINE Left == {s \in Streams : spc[s] \in {"closing", "done"}}
           Off  == [s \in Streams |-> IF s \in subs
                                        THEN [p \in Publishers |-> Offered(s, p)]
                                        ELSE NoEvents]
<1>1. ASSUME NEW p \in Publishers, PublishCall(p) \/ PublishReturn(p)
      PROVE  UNCHANGED Fanout!vars
  BY <1>1, FanoutStutter DEF PublishCall, PublishReturn, channelVars, streamVars
<1>2. ASSUME NEW p \in Publishers, PublishRange(p)
      PROVE  Fanout!Publish(p)
  <2>1. todo[p] = {}
    BY <1>2 DEF IInv, RangeSeesTheMap, PublishRange
  <2>2. subs' = subs /\ buf' = buf /\ Left' = Left
    BY <1>2 DEF PublishRange, channelVars, streamVars
  <2>3. \A s \in subs : Off[s][p] = published[p]
    BY <2>1 DEF IInv, TypeOK, Offered
  <2>4. \A s \in subs : \A q \in Publishers : Offered(s, q)' = Offered(s, q)
    BY <1>2, <2>1 DEF IInv, TypeOK, PublishRange, Offered
  <2>5. Off' = Off
    BY <2>2, <2>4
  <2> QED
    BY <1>2, <2>2, <2>3, <2>5 DEF Fanout!Publish, PublishRange
<1>3. ASSUME NEW p \in Publishers, NEW s \in Streams, Send(p, s)
      PROVE  Fanout!Offer(s, p)
  <2>1. s \in subs /\ s \in todo[p] /\ published[p] \in Nat /\ published[p] > 0
    BY <1>3 DEF Send, IInv, TypeOK, RangeSeesTheMap, PublishedBeforeSent
  <2>2. subs' = subs /\ published' = published /\ Left' = Left
    BY <1>3 DEF Send, streamVars
  <2>3. Off[s][p] = published[p] - 1
    BY <2>1 DEF Offered
  <2>4. Off' = [Off EXCEPT ![s][p] = Off[s][p] + 1]
    <3>1. Offered(s, p)' = published[p]
      BY <1>3, <2>2 DEF Send, Offered, IInv, TypeOK
    <3>2. \A t \in Streams, q \in Publishers :
            (t # s \/ q # p) => Offered(t, q)' = Offered(t, q)
      BY <1>3, <2>2 DEF Send, Offered, IInv, TypeOK
    <3>3. Off[s] = [q \in Publishers |-> Offered(s, q)]
      BY <2>1 DEF Offered, IInv, TypeOK
    <3>4. Off'[s] = [Off[s] EXCEPT ![p] = Off[s][p] + 1]
      <4>1. Off'[s] = [q \in Publishers |-> Offered(s, q)']
        BY <2>1, <2>2
      <4>2. \A q \in Publishers : Off[s][q] = Offered(s, q)
        BY <3>3
      <4>3. \A q \in Publishers :
              Offered(s, q)' = IF q = p THEN Off[s][p] + 1 ELSE Off[s][q]
        <5>1. published[p] = Off[s][p] + 1
          BY <2>1, <2>3
        <5> HIDE DEF Off
        <5> QED
          BY <3>1, <3>2, <4>2, <5>1
      <4>4. DOMAIN Off[s] = Publishers
        BY <3>3
      <4> HIDE DEF Off
      <4> QED
        BY <4>1, <4>3, <4>4, <3>3
    <3>5. \A t \in Streams : t # s => Off'[t] = Off[t]
      BY <2>2, <3>2
    <3> HIDE DEF Off
    <3>6. Off' = [t \in Streams |-> Off'[t]] /\ Off = [t \in Streams |-> Off[t]]
      BY DEF Off
    <3> QED
      BY <3>4, <3>5, <3>6
  <2>5. buf' = [buf EXCEPT ![s] = IF Len(buf[s]) < Cap
                                    THEN Append(buf[s], <<p, Off[s][p] + 1>>)
                                    ELSE buf[s]]
    <3>1. <<p, Off[s][p] + 1>> = <<p, published[p]>>
      BY <2>1, <2>3
    <3> HIDE DEF Off
    <3> QED
      BY <1>3, <3>1 DEF Send
  <2> QED
    BY <2>1, <2>2, <2>3, <2>4, <2>5 DEF Fanout!Offer
<1>4. ASSUME NEW s \in Streams, Connect(s) \/ Lock(s) \/ Written(s) \/ Return(s)
                                  \/ ClientGone(s) \/ Close(s)
      PROVE  UNCHANGED Fanout!vars
  <2>1. UNCHANGED <<subs, published, todo, buf>>
    BY <1>4 DEF Connect, Lock, Written, Return, ClientGone, Close, channelVars, pubVars
  <2>2. Left' = Left
    BY <1>4 DEF Connect, Lock, Written, Return, ClientGone, Close, IInv, TypeOK
  <2> QED
    BY <2>1, <2>2, FanoutStutter
<1>5. ASSUME NEW s \in Streams, Subscribe(s)
      PROVE  Fanout!Join(s)
  <2>1. \A p \in Publishers : todo[p] = {}
    BY <1>5, NoRangeUnderWriteLock DEF Subscribe
  <2>2. /\ subs' = subs \cup {s} /\ published' = published /\ todo' = todo
        /\ buf' = buf /\ Left' = Left
    BY <1>5 DEF Subscribe, IInv, TypeOK
  <2>3. s \notin subs \cup Left
    BY <1>5 DEF Subscribe, IInv, MapFollowsHandlers
  <2>4. \A t \in Streams, p \in Publishers : Offered(t, p)' = Offered(t, p)
    BY <2>2 DEF Offered
  <2>5. [p \in Publishers |-> Offered(s, p)] = published
    BY <2>1 DEF Offered, IInv, TypeOK
  <2>6. Off' = [Off EXCEPT ![s] = published]
    BY <2>2, <2>4, <2>5
  <2> QED
    BY <2>2, <2>3, <2>6 DEF Fanout!Join
<1>6. ASSUME NEW s \in Streams, Receive(s)
      PROVE  Fanout!Read(s)
  <2>1. /\ subs' = subs /\ published' = published /\ todo' = todo /\ Left' = Left
        /\ buf' = [buf EXCEPT ![s] = Tail(@)] /\ buf[s] # << >>
    BY <1>6 DEF Receive, pubVars, IInv, TypeOK
  <2>2. Off' = Off
    BY <2>1 DEF Offered
  <2> QED
    BY <2>1, <2>2 DEF Fanout!Read
<1>7. ASSUME NEW s \in Streams, Unsubscribe(s)
      PROVE  Fanout!Leave(s)
  <2>1. \A p \in Publishers : todo[p] = {}
    BY <1>7, NoRangeUnderWriteLock DEF Unsubscribe
  <2>2. /\ subs' = subs \ {s} /\ published' = published /\ todo' = todo
        /\ buf' = buf
    BY <1>7 DEF Unsubscribe
  <2>3. s \in subs /\ Left' = Left \cup {s}
    BY <1>7 DEF Unsubscribe, IInv, TypeOK, MapFollowsHandlers
  <2>4. Off[s] = published
    BY <2>1, <2>3 DEF Offered, IInv, TypeOK
  <2>5. Off' = [Off EXCEPT ![s] = NoEvents]
    BY <2>2, <2>3 DEF Offered
  <2> QED
    BY <2>2, <2>3, <2>4, <2>5 DEF Fanout!Leave, Fanout!NoOffers, NoEvents
<1>8. CASE UNCHANGED vars
  BY <1>8, FanoutStutter DEF vars, channelVars, pubVars, streamVars
<1> QED
  BY <1>1, <1>2, <1>3, <1>4, <1>5, <1>6, <1>7, <1>8, NextCases DEF Fanout!Next

\* The detailed bus, with its mutex and its iteration, implements the lossy
\* fan-out: a subscriber is offered every event of every publisher, in order,
\* from the moment it subscribed, and loses one only at a full buffer.
THEOREM BusImplementsFanout == Spec => ImplementsFanout
<1>1. Spec => Init /\ [][Next]_vars /\ []IInv
  BY Invariance DEF Spec
<1> QED
  BY <1>1, InitFanout, StepFanout, PTL DEF ImplementsFanout, Fanout!Spec

-----------------------------------------------------------------------------
(* The listener, for any nodes, window, threshold, backoff, clock and      *)
(* number of messages.                                                     *)

\* Every set of numbers has a least one: the induction of the proofs below.
LEMMA LeastNumber ==
  ASSUME NEW set \in SUBSET Nat, set # {}
  PROVE  \E i \in set : \A j \in set : i <= j
<1> DEFINE R == OpToRel(<, Nat)
<1>1. IsWellFoundedOn(R, Nat)
  BY NatLessThanWellFounded
<1>2. \A i, j \in Nat : <<j, i>> \in R <=> j < i
  BY DEF OpToRel
<1> HIDE DEF R
<1>3. PICK i \in set : \A j \in set : ~(<<j, i>> \in R)
  BY <1>1, WFMin
<1>4. ASSUME NEW j \in set PROVE i <= j
  <2>1. i \in Nat /\ j \in Nat /\ ~(<<j, i>> \in R)
    BY <1>3
  <2>2. ~(j < i)
    BY <1>2, <2>1
  <2> QED
    BY <2>1, <2>2
<1> QED
  BY <1>4

\* The first k of these times are at the cutoff or before it, the others after it.
IsCut(times, k, cutoff) ==
  /\ \A i \in 1..k : times[i] <= cutoff
  /\ \A i \in (k + 1)..Len(times) : times[i] > cutoff

Ascending(times) == \A i, j \in DOMAIN times : i <= j => times[i] <= times[j]

\* Ascending times can be cut anywhere.
LEMMA CutExists ==
  ASSUME NEW times \in Seq(Int), Ascending(times), NEW cutoff \in Int
  PROVE  \E k \in 0..Len(times) : IsCut(times, k, cutoff)
<1> DEFINE late == {i \in 1..Len(times) : times[i] > cutoff}
<1>1. Len(times) \in Nat /\ \A i \in 1..Len(times) : times[i] \in Int
  OBVIOUS
<1>2. CASE late = {}
  <2>1. \A i \in 1..Len(times) : times[i] <= cutoff
    BY <1>1, <1>2
  <2> QED
    BY <1>1, <2>1 DEF IsCut
<1>3. CASE late # {}
  <2>1. PICK first \in late : \A j \in late : first <= j
    <3>1. late \in SUBSET Nat
      BY <1>1
    <3> HIDE DEF late
    <3> QED
      BY <1>3, <3>1, LeastNumber
  <2>2. first \in 1..Len(times) /\ times[first] > cutoff
    BY <2>1
  <2>3. ASSUME NEW i \in 1..(first - 1) PROVE times[i] <= cutoff
    <3>1. i \in 1..Len(times) /\ i \notin late
      BY <1>1, <2>1, <2>2
    <3> QED
      BY <1>1, <3>1
  <2>4. ASSUME NEW i \in first..Len(times) PROVE times[i] > cutoff
    <3>1. times[first] <= times[i]
      BY <1>1, <2>2 DEF Ascending
    <3>2. times[first] \in Int /\ times[i] \in Int
      BY <1>1, <2>2
    <3> QED
      BY <2>2, <3>1, <3>2
  <2>5. first - 1 \in 0..Len(times) /\ (first - 1) + 1 = first
    BY <1>1, <2>2
  <2> QED
    BY <2>3, <2>4, <2>5 DEF IsCut
<1> QED
  BY <1>2, <1>3

\* Filtering times that can be cut leaves what is behind the cut.
LEMMA RecentIsSuffix ==
  ASSUME NEW times \in Seq(Int), NEW t \in Int, NEW k \in 0..Len(times),
         IsCut(times, k, t - Window)
  PROVE  Recent(times, t) = SubSeq(times, k + 1, Len(times))
<1> DEFINE n == Len(times)
           Filtered(f, i) == IF i = 0 THEN << >>
                             ELSE IF times[i] > t - Window THEN Append(f[i - 1], times[i])
                             ELSE f[i - 1]
           behind == [i \in 0..n |-> SubSeq(times, k + 1, i)]
           kept == CHOOSE f : f = [i \in 0..n |-> Filtered(f, i)]
<1>1. n \in Nat /\ k \in Nat /\ k <= n /\ Window \in Nat /\ \A i \in 1..n : times[i] \in Int
  BY TimeAssumption
<1>2. \A i \in 1..n : times[i] > t - Window <=> i > k
  BY <1>1 DEF IsCut
<1>3. ASSUME NEW i \in 0..n PROVE behind[i] = Filtered(behind, i)
  <2>1. behind[i] = SubSeq(times, k + 1, i) /\ (i # 0 => behind[i - 1] = SubSeq(times, k + 1, i - 1))
    <3>1. i # 0 => i - 1 \in 0..n
      BY <1>1
    <3> QED
      BY <3>1, Zenon
  <2>2. CASE i <= k
    <3>1. SubSeq(times, k + 1, i) = << >> /\ SubSeq(times, k + 1, i - 1) = << >>
      BY <1>1, <2>2, SubSeqEmpty
    <3>2. i # 0 => ~(times[i] > t - Window)
      BY <1>1, <1>2, <2>2
    <3> HIDE DEF behind
    <3> QED
      BY <2>1, <3>1, <3>2
  <2>3. CASE i > k
    <3>1. SubSeq(times, k + 1, i) = Append(SubSeq(times, k + 1, i - 1), times[i])
      BY <1>1, <2>3
    <3>2. i # 0 /\ times[i] > t - Window
      BY <1>1, <1>2, <2>3
    <3> HIDE DEF behind
    <3> QED
      BY <2>1, <3>1, <3>2
  <2>4. i <= k \/ i > k
    BY <1>1
  <2> QED
    BY <2>2, <2>3, <2>4, Zenon
<1>4. behind[0] = << >> /\ behind[n] = SubSeq(times, k + 1, n)
  BY <1>1, SubSeqEmpty
<1>5. \E f : f = [i \in 0..n |-> Filtered(f, i)]
  <2>1. behind = [i \in 0..n |-> behind[i]]
    OBVIOUS
  <2> HIDE DEF behind, Filtered
  <2>2. behind = [i \in 0..n |-> Filtered(behind, i)]
    BY <1>3, <2>1
  <2> QED
    BY <2>2
<1>6. kept = [i \in 0..n |-> Filtered(kept, i)]
  <2> HIDE DEF Filtered
  <2> QED
    BY <1>5
<1> HIDE DEF kept, behind
<1>7. \A i \in 0..n : kept[i] = behind[i]
  <2>1. \A i \in 0..n : kept[i] = Filtered(kept, i)
    <3> HIDE DEF Filtered
    <3> QED
      BY <1>6
  <2> DEFINE differ == {i \in 0..n : kept[i] # behind[i]}
  <2>2. CASE differ # {}
    <3>1. PICK i \in differ : \A j \in differ : i <= j
      <4>1. differ \in SUBSET Nat
        BY <1>1
      <4> HIDE DEF differ
      <4> QED
        BY <2>2, <4>1, LeastNumber
    <3>2. i \in 0..n /\ kept[i] # behind[i]
      BY <3>1
    <3>3. i # 0
      BY <1>4, <2>1, <3>2
    <3>4. i - 1 \in 0..n /\ i - 1 < i
      BY <1>1, <3>2, <3>3
    <3>5. kept[i - 1] = behind[i - 1]
      BY <1>1, <3>1, <3>4
    <3>6. Filtered(kept, i) = Filtered(behind, i)
      BY <3>3, <3>5
    <3> HIDE DEF Filtered
    <3> QED
      BY <1>3, <2>1, <3>2, <3>6
  <2> QED
    BY <2>2
<1>8. kept[n] = SubSeq(times, k + 1, n)
  <2>1. n \in 0..n
    BY <1>1
  <2> HIDE DEF n
  <2> QED
    BY <1>4, <1>7, <2>1, Zenon
<1> QED
  BY <1>8 DEF Recent, kept

\* What a tracker holds of the times received: all but some that had left the window.
IsTracked(kept, times) ==
  \E k \in 0..Len(times) : /\ kept = SubSeq(times, k + 1, Len(times))
                           /\ \A i \in 1..k : times[i] <= now - Window

\* Times that are recent once more were tracked, and those tracked with the new one are
\* as many as were received in the window.
LEMMA WindowOfTracked ==
  ASSUME now \in Nat, NEW times \in Seq(Times), Ascending(times), NEW kept, IsTracked(kept, times)
  PROVE  LET new == Append(times, now)
             window == Append(Recent(kept, now), now)
             counted == {i \in DOMAIN new : now - Window < new[i] /\ new[i] <= now}
         IN  (\A i \in DOMAIN times : times[i] <= now) =>
               IsTracked(window, new) /\ Cardinality(counted) = Len(window)
<1> DEFINE n == Len(times)
           cutoff == now - Window
           new == Append(times, now)
           window == Append(Recent(kept, now), now)
           counted == {i \in DOMAIN new : now - Window < new[i] /\ new[i] <= now}
<1> SUFFICES ASSUME \A i \in DOMAIN times : times[i] <= now
             PROVE  IsTracked(window, new) /\ Cardinality(counted) = Len(window)
  OBVIOUS
<1>1. /\ n \in Nat /\ cutoff \in Int /\ cutoff < now /\ times \in Seq(Int)
      /\ \A i \in 1..n : times[i] \in Int /\ times[i] <= now
  BY TimeAssumption DEF Times
<1>2. PICK k \in 0..n : kept = SubSeq(times, k + 1, n) /\ \A i \in 1..k : times[i] <= cutoff
  BY DEF IsTracked
<1>3. PICK l \in 0..n : IsCut(times, l, cutoff)
  BY <1>1, CutExists
<1> HIDE DEF n, cutoff
<1>4. k <= l /\ k \in Nat /\ l \in Nat /\ l <= n
  <2>1. \A i \in (l + 1)..n : times[i] > cutoff
    BY <1>3 DEF IsCut, n
  <2>2. CASE l < k
    <3>1. k \in 1..k /\ k \in (l + 1)..n /\ k \in 1..n
      BY <1>1, <2>2
    <3>2. times[k] <= cutoff
      BY <1>2, <3>1
    <3>3. times[k] > cutoff
      BY <2>1, <3>1
    <3> QED
      BY <1>1, <3>1, <3>2, <3>3
  <2> QED
    BY <1>1, <2>2
<1>5. /\ kept \in Seq(Int) /\ Len(kept) = n - k
      /\ \A i \in 1..(n - k) : kept[i] = times[k + i]
  <2>1. \A i \in (k + 1)..n : times[i] \in Int
    BY <1>1, <1>4
  <2> QED
    BY <1>1, <1>2, <1>4, <2>1, SubSeqProperties
<1>6. IsCut(kept, l - k, cutoff)
  <2>1. ASSUME NEW i \in 1..(l - k) PROVE kept[i] <= cutoff
    <3>1. k + i \in 1..l /\ i \in 1..(n - k)
      BY <1>1, <1>4
    <3> QED
      BY <1>3, <1>5, <3>1 DEF IsCut
  <2>2. ASSUME NEW i \in ((l - k) + 1)..(n - k) PROVE kept[i] > cutoff
    <3>1. k + i \in (l + 1)..n /\ i \in 1..(n - k)
      BY <1>1, <1>4
    <3> QED
      BY <1>3, <1>5, <3>1 DEF IsCut, n
  <2> QED
    BY <1>5, <2>1, <2>2 DEF IsCut
<1>7. Recent(kept, now) = SubSeq(kept, (l - k) + 1, n - k)
  <2>1. l - k \in 0..Len(kept)
    BY <1>1, <1>4, <1>5
  <2> QED
    BY <1>5, <1>6, <2>1, RecentIsSuffix DEF cutoff
<1>8. /\ Recent(kept, now) \in Seq(Int) /\ Len(Recent(kept, now)) = n - l
      /\ \A i \in 1..(n - l) : Recent(kept, now)[i] = times[l + i]
  <2>1. \A i \in ((l - k) + 1)..(n - k) : kept[i] \in Int
    BY <1>1, <1>4, <1>5
  <2>2. l - k \in Int /\ n - k \in Int /\ (n - k) - ((l - k) + 1) + 1 = n - l
    BY <1>1, <1>4
  <2>3. /\ SubSeq(kept, (l - k) + 1, n - k) \in Seq(Int)
        /\ Len(SubSeq(kept, (l - k) + 1, n - k)) = n - l
        /\ \A i \in 1..(n - l) : SubSeq(kept, (l - k) + 1, n - k)[i] = kept[(l - k) + i]
    BY <1>1, <1>4, <2>1, <2>2, SubSeqProperties
  <2>4. ASSUME NEW i \in 1..(n - l) PROVE kept[(l - k) + i] = times[l + i]
    <3>1. (l - k) + i \in 1..(n - k) /\ k + ((l - k) + i) = l + i
      BY <1>1, <1>4
    <3> QED
      BY <1>5, <3>1
  <2> QED
    BY <1>7, <2>3, <2>4
<1>9. /\ new \in Seq(Int) /\ Len(new) = n + 1 /\ new[n + 1] = now
      /\ \A i \in 1..n : new[i] = times[i]
  BY <1>1 DEF n
<1>10. /\ window \in Seq(Int) /\ Len(window) = (n - l) + 1 /\ window[(n - l) + 1] = now
       /\ \A i \in 1..(n - l) : window[i] = times[l + i]
  <2> DEFINE recent == Recent(kept, now)
  <2>0. recent \in Seq(Int) /\ Len(recent) = n - l /\ \A i \in 1..(n - l) : recent[i] = times[l + i]
    BY <1>8
  <2> HIDE DEF recent
  <2>1. /\ Append(recent, now) \in Seq(Int) /\ Len(Append(recent, now)) = (n - l) + 1
        /\ Append(recent, now)[(n - l) + 1] = now
        /\ \A i \in 1..(n - l) : Append(recent, now)[i] = times[l + i]
    BY <1>1, <1>4, <2>0, now \in Int, AppendProperties
  <2> QED
    BY <2>1 DEF recent
<1> HIDE DEF window, new
<1>11. IsTracked(window, new)
  <2>1. window = SubSeq(new, l + 1, n + 1)
    <3>1. \A i \in (l + 1)..(n + 1) : new[i] \in Int
      BY <1>1, <1>4, <1>9
    <3>2. /\ SubSeq(new, l + 1, n + 1) \in Seq(Int) /\ Len(SubSeq(new, l + 1, n + 1)) = (n - l) + 1
          /\ \A i \in 1..((n - l) + 1) : SubSeq(new, l + 1, n + 1)[i] = new[l + i]
      BY <1>1, <1>4, <3>1, SubSeqProperties
    <3>3. ASSUME NEW i \in 1..((n - l) + 1) PROVE window[i] = new[l + i]
      <4>1. CASE i = (n - l) + 1
        BY <1>1, <1>4, <1>9, <1>10, <4>1
      <4>2. CASE i # (n - l) + 1
        <5>1. i \in 1..(n - l) /\ l + i \in 1..n
          BY <1>1, <1>4, <4>2
        <5> QED
          BY <1>9, <1>10, <5>1
      <4> QED
        BY <4>1, <4>2
    <3> QED
      BY <1>1, <1>4, <1>10, <3>2, <3>3, SeqEqual
  <2>2. \A i \in 1..l : new[i] <= now - Window
    <3>1. ASSUME NEW i \in 1..l PROVE new[i] <= cutoff
      <4>1. i \in 1..n /\ times[i] <= cutoff
        BY <1>1, <1>3, <1>4 DEF IsCut
      <4> QED
        BY <1>9, <4>1
    <3> QED
      BY <3>1 DEF cutoff
  <2>3. l \in 0..Len(new)
    BY <1>1, <1>4, <1>9
  <2> QED
    BY <1>9, <2>1, <2>2, <2>3 DEF IsTracked
<1>12. counted = (l + 1)..(n + 1)
  <2>1. DOMAIN new = 1..(n + 1)
    BY <1>9
  <2>2. ASSUME NEW i \in 1..l PROVE new[i] <= cutoff
    <3>1. i \in 1..n
      BY <1>1, <1>4
    <3>2. times[i] <= cutoff
      BY <1>3 DEF IsCut
    <3> QED
      BY <1>9, <3>1, <3>2
  <2>3. ASSUME NEW i \in (l + 1)..(n + 1) PROVE cutoff < new[i] /\ new[i] <= now
    <3>1. CASE i = n + 1
      BY <1>1, <1>9, <3>1
    <3>2. CASE i # n + 1
      <4>1. i \in 1..n /\ i \in (l + 1)..n
        BY <1>1, <1>4, <3>2
      <4>2. times[i] > cutoff
        BY <1>3, <4>1 DEF IsCut, n
      <4> QED
        BY <1>1, <1>9, <4>1, <4>2
    <3> QED
      BY <3>1, <3>2
  <2>4. \A i \in 1..(n + 1) : new[i] \in Int
    BY <1>9
  <2>5. ASSUME NEW i \in 1..(n + 1)
        PROVE  cutoff < new[i] /\ new[i] <= now <=> i \in (l + 1)..(n + 1)
    <3>1. CASE i \in 1..l
      <4>1. new[i] <= cutoff /\ new[i] \in Int /\ i \notin (l + 1)..(n + 1)
        BY <1>4, <2>2, <2>4, <3>1
      <4> QED
        BY <1>1, <4>1
    <3>2. CASE i \notin 1..l
      <4>1. i \in (l + 1)..(n + 1)
        BY <1>1, <1>4, <3>2
      <4> QED
        BY <2>3, <4>1
    <3> QED
      BY <3>1, <3>2
  <2>6. counted = {i \in 1..(n + 1) : i \in (l + 1)..(n + 1)}
    BY <2>1, <2>5 DEF cutoff
  <2> QED
    BY <1>1, <1>4, <2>6
<1>13. Cardinality(counted) = (n - l) + 1
  <2>1. l + 1 \in Int /\ n + 1 \in Int /\ ~(l + 1 > n + 1) /\ ((n + 1) - (l + 1)) + 1 = (n - l) + 1
    BY <1>1, <1>4
  <2>2. Cardinality((l + 1)..(n + 1)) = ((n + 1) - (l + 1)) + 1
    BY <2>1, FS_Interval
  <2> QED
    BY <1>12, <2>1, <2>2
<1> QED
  BY <1>10, <1>11, <1>13

\* Only a message about a node going down is counted, and for that node.
LEMMA CountedMessages ==
  ASSUME NEW m \in Messages
  PROVE  /\ m.channel # "none"
         /\ IsCounted(m) <=> m.channel = "+sdown"
         /\ IsCounted(m) => NodeAddr(m.payload) \in Nodes
<1>1. CASE m \in InstanceMessages
  <2>1. PICK c \in {"+sdown", "-sdown"}, n \in Nodes : m = Message(c, InstancePayload(n))
    BY <1>1 DEF InstanceMessages
  <2>2. m.channel = c /\ m.payload = InstancePayload(n)
    BY <2>1 DEF Message
  <2>3. NodeAddr(InstancePayload(n)) = <<n[1], n[2]>>
    BY DEF NodeAddr, InstancePayload
  <2>4. NodeAddr(m.payload) = n
    BY <2>2, <2>3, NodesAssumption
  <2> QED
    BY <2>1, <2>2, <2>4, NodesAssumption DEF IsCounted
<1>2. CASE m \in SwitchMessages \cup TiltMessages
  BY <1>2 DEF SwitchMessages, TiltMessages, Message, IsCounted
<1> QED
  BY <1>1, <1>2 DEF Messages

\* FlappingExactly with what it takes to keep it: the receipts are in order, and each
\* tracker has all of them but some that have left the window.
ListenerInv ==
  /\ ListenerTypeOK
  /\ \A n \in Nodes : /\ Ascending(receipts[n])
                      /\ \A i \in DOMAIN receipts[n] : receipts[n][i] <= now
                      /\ IsTracked(tracker[n], receipts[n])
  /\ FlappingExactly

LEMMA BackoffStays == backoff \in Backoffs /\ Doubled => backoff' \in Backoffs
  BY BackoffAssumption DEF Backoffs, Doubled

\* A message is received: the only step that changes windows and receipts.
LEMMA ReceiveInv == ListenerInv /\ ReceiveMessage => ListenerInv'
<1> SUFFICES ASSUME ListenerInv, ReceiveMessage PROVE ListenerInv'
  OBVIOUS
<1> DEFINE m == Head(inbox)
           addr == NodeAddr(m.payload)
<1>1. /\ now \in Times /\ now \in Nat /\ inbox \in Seq(Messages) /\ inbox # << >>
      /\ tracker \in [Nodes -> Seq(Times)] /\ receipts \in [Nodes -> Seq(Times)]
      /\ now' = now
  BY TimeAssumption DEF ListenerInv, ListenerTypeOK, ReceiveMessage, Times
<1>2. m \in Messages /\ Tail(inbox) \in Seq(Messages)
  BY <1>1, HeadTailProperties
<1>3. /\ IsCounted(m) <=> m.channel = "+sdown"
      /\ IsCounted(m) => addr \in Nodes
      /\ m.channel # "none"
  BY <1>2, CountedMessages
<1>4. /\ event' = [channel |-> m.channel, addr |-> addr, at |-> now,
                   isFlapping |-> IsCounted(m) /\ Len(WindowAfter(m, now)) >= Threshold]
      /\ IF IsCounted(m)
           THEN /\ tracker' = [tracker EXCEPT ![addr] = WindowAfter(m, now)]
                /\ receipts' = [receipts EXCEPT ![addr] = Append(receipts[addr], now)]
           ELSE UNCHANGED <<tracker, receipts>>
      /\ inbox' = Tail(inbox)
      /\ UNCHANGED <<sentinelVars, open, cancelled, pc, backoff>>
  BY DEF ReceiveMessage
<1> HIDE DEF m, addr
<1>5. /\ event'.channel = m.channel /\ event'.addr = addr /\ event'.at = now
      /\ event'.isFlapping = (IsCounted(m) /\ Len(WindowAfter(m, now)) >= Threshold)
  BY <1>4
<1>6. event'.isFlapping \in BOOLEAN
  BY <1>5, Zenon
<1>7. CASE ~IsCounted(m)
  <2>1. UNCHANGED <<tracker, receipts>>
    BY <1>4, <1>7
  <2>2. ListenerTypeOK'
    BY <1>1, <1>2, <1>4, <1>5, <1>6, <2>1 DEF ListenerInv, ListenerTypeOK, sentinelVars
  <2>3. FlappingExactly'
    <3>1. ~event'.isFlapping /\ event'.channel # "+sdown"
      BY <1>3, <1>5, <1>7, Zenon
    <3> QED
      BY <3>1, Zenon DEF FlappingExactly
  <2>4. ASSUME NEW n \in Nodes
        PROVE  /\ Ascending(receipts[n])'
               /\ (\A i \in DOMAIN receipts[n] : receipts[n][i] <= now)'
               /\ IsTracked(tracker[n], receipts[n])'
    BY <1>1, <2>1 DEF ListenerInv, Ascending, IsTracked
  <2> QED
    BY <2>2, <2>3, <2>4 DEF ListenerInv
<1>8. CASE IsCounted(m)
  <2> DEFINE times == receipts[addr]
             new == Append(times, now)
             window == Append(Recent(tracker[addr], now), now)
             counted == {i \in DOMAIN new : now - Window < new[i] /\ new[i] <= now}
  <2>1. addr \in Nodes
    BY <1>3, <1>8
  <2>2. /\ times \in Seq(Times) /\ Ascending(times) /\ IsTracked(tracker[addr], times)
        /\ \A i \in DOMAIN times : times[i] <= now
    BY <1>1, <2>1 DEF ListenerInv
  <2>3. IsTracked(window, new) /\ Cardinality(counted) = Len(window)
    <3> HIDE DEF times
    <3> QED
      BY <1>1, <2>2, WindowOfTracked
  <2>4. WindowAfter(m, now) = window
    BY DEF WindowAfter, addr
  <2>5. /\ tracker' = [tracker EXCEPT ![addr] = window]
        /\ receipts' = [receipts EXCEPT ![addr] = new]
    BY <1>4, <1>8, <2>4
  <2>6. new \in Seq(Times) /\ Ascending(new) /\ \A i \in DOMAIN new : new[i] <= now
    <3> HIDE DEF times
    <3>1. /\ new \in Seq(Times) /\ Len(new) = Len(times) + 1 /\ new[Len(times) + 1] = now
          /\ \A i \in 1..Len(times) : new[i] = times[i]
          /\ DOMAIN new = 1..(Len(times) + 1) /\ DOMAIN times = 1..Len(times) /\ Len(times) \in Nat
      BY <1>1, <2>2
    <3> HIDE DEF new
    <3>2. ASSUME NEW i \in DOMAIN new PROVE new[i] <= now /\ (i = Len(times) + 1 \/ i \in DOMAIN times)
      BY <1>1, <2>2, <3>1
    <3>3. ASSUME NEW i \in DOMAIN new, NEW j \in DOMAIN new, i <= j PROVE new[i] <= new[j]
      <4>1. CASE j = Len(times) + 1
        BY <3>1, <3>2, <4>1
      <4>2. CASE j # Len(times) + 1
        <5>1. i \in DOMAIN times /\ j \in DOMAIN times
          BY <3>1, <3>3, <4>2
        <5> QED
          BY <2>2, <3>1, <3>3, <5>1 DEF Ascending
      <4> QED
        BY <4>1, <4>2
    <3> QED
      BY <3>1, <3>2, <3>3 DEF Ascending
  <2>7. window \in Seq(Times)
    <3>1. PICK k \in 0..Len(new) : window = SubSeq(new, k + 1, Len(new))
      BY <2>3 DEF IsTracked
    <3> HIDE DEF new, window
    <3>2. \A i \in (k + 1)..Len(new) : new[i] \in Times
      BY <2>6, <3>1
    <3> QED
      BY <2>6, <3>1, <3>2, SubSeqProperties
  <2> HIDE DEF window, new
  <2>8. tracker' \in [Nodes -> Seq(Times)] /\ receipts' \in [Nodes -> Seq(Times)]
    BY <1>1, <2>1, <2>5, <2>6, <2>7
  <2>9. tracker'[addr] = window /\ receipts'[addr] = new
    BY <1>1, <2>1, <2>5
  <2>10. ListenerTypeOK'
    BY <1>1, <1>2, <1>4, <1>5, <1>6, <2>8 DEF ListenerInv, ListenerTypeOK, sentinelVars
  <2>11. FlappingExactly'
    <3>1. event'.isFlapping <=> Len(window) >= Threshold
      BY <1>5, <1>8, <2>4
    <3>2. event'.channel = "+sdown"
      BY <1>3, <1>5, <1>8
    <3>3. ReceivedInWindow(event.addr, event.at)' = Len(window)
      BY <1>5, <2>3, <2>9 DEF ReceivedInWindow
    <3> QED
      BY <3>1, <3>2, <3>3, Zenon DEF FlappingExactly
  <2>12. ASSUME NEW n \in Nodes
         PROVE  /\ Ascending(receipts[n])'
                /\ (\A i \in DOMAIN receipts[n] : receipts[n][i] <= now)'
                /\ IsTracked(tracker[n], receipts[n])'
    <3>1. CASE n = addr
      BY <1>1, <2>3, <2>6, <2>9, <3>1 DEF IsTracked, Ascending
    <3>2. CASE n # addr
      <4>1. tracker'[n] = tracker[n] /\ receipts'[n] = receipts[n]
        BY <1>1, <2>5, <3>2
      <4> QED
        BY <1>1, <4>1 DEF ListenerInv, Ascending, IsTracked
    <3> QED
      BY <3>1, <3>2
  <2> QED
    BY <2>10, <2>11, <2>12 DEF ListenerInv
<1> QED
  BY <1>7, <1>8

LEMMA NextListenerInv == ListenerInv /\ [ListenerNext]_listenerVars => ListenerInv'
<1> SUFFICES ASSUME ListenerInv, [ListenerNext]_listenerVars PROVE ListenerInv'
  OBVIOUS
<1>1. ASSUME UNCHANGED <<now, tracker, event, receipts>>, ListenerTypeOK' PROVE ListenerInv'
  BY <1>1 DEF ListenerInv, FlappingExactly, ReceivedInWindow, NoEvent, Ascending, IsTracked
<1>2. ASSUME NEW m \in Messages, Deliver(m), down' \in SUBSET Nodes PROVE ListenerInv'
  <2>1. inbox' \in Seq(Messages) /\ sent' \in 0..MaxMessages
    <3>1. inbox \in Seq(Messages) /\ Append(inbox, m) \in Seq(Messages)
      BY <1>2 DEF ListenerInv, ListenerTypeOK
    <3>2. inbox' \in {inbox, Append(inbox, m)} /\ sent < MaxMessages /\ sent' = sent + 1
      BY <1>2 DEF Deliver
    <3>3. sent \in 0..MaxMessages /\ MaxMessages \in Nat
      BY MessagesAssumption DEF ListenerInv, ListenerTypeOK
    <3>4. sent' \in 0..MaxMessages
      BY <3>2, <3>3
    <3> QED
      BY <3>1, <3>2, <3>4
  <2>2. ListenerTypeOK'
    BY <1>2, <2>1 DEF ListenerInv, ListenerTypeOK, Deliver
  <2> QED
    BY <1>1, <1>2, <2>2 DEF Deliver
<1>3. ASSUME NEW n \in Nodes, NodeGoesDown(n) \/ NodeComesUp(n) PROVE ListenerInv'
  <2>1. /\ Message("+sdown", InstancePayload(n)) \in Messages
        /\ Message("-sdown", InstancePayload(n)) \in Messages
    BY DEF Messages, InstanceMessages
  <2>2. down' \in SUBSET Nodes
    BY <1>3 DEF NodeGoesDown, NodeComesUp, ListenerInv, ListenerTypeOK
  <2> QED
    BY <1>2, <1>3, <2>1, <2>2 DEF NodeGoesDown, NodeComesUp
<1>4. CASE OtherMessage
  <2>1. down' \in SUBSET Nodes
    BY <1>4 DEF OtherMessage, ListenerInv, ListenerTypeOK
  <2> QED
    BY <1>2, <1>4, <2>1 DEF OtherMessage, Messages
<1>5. CASE Tick
  <2>1. now \in Nat /\ now' = now + 1 /\ now' \in Times /\ Window \in Nat
    BY <1>5, TimeAssumption DEF Tick, ListenerInv, ListenerTypeOK, Times
  <2>2. ListenerTypeOK'
    BY <1>5, <2>1 DEF ListenerInv, ListenerTypeOK, Tick, sentinelVars, linkVars
  <2>3. FlappingExactly'
    BY <1>5 DEF ListenerInv, FlappingExactly, ReceivedInWindow, NoEvent, Tick
  <2>4. ASSUME NEW n \in Nodes
        PROVE  /\ Ascending(receipts[n])'
               /\ (\A i \in DOMAIN receipts[n] : receipts[n][i] <= now)'
               /\ IsTracked(tracker[n], receipts[n])'
    <3>1. UNCHANGED <<tracker, receipts>>
      BY <1>5 DEF Tick
    <3>2. \A i \in 1..Len(receipts[n]) : receipts[n][i] \in Nat
      <4>1. receipts[n] \in Seq(Times)
        BY DEF ListenerInv, ListenerTypeOK
      <4> QED
        BY <4>1, TimeAssumption DEF Times
    <3>3. /\ Ascending(receipts[n]) /\ IsTracked(tracker[n], receipts[n])
          /\ \A i \in 1..Len(receipts[n]) : receipts[n][i] <= now
          /\ DOMAIN receipts[n] = 1..Len(receipts[n]) /\ Len(receipts[n]) \in Nat
      BY DEF ListenerInv, ListenerTypeOK
    <3>4. IsTracked(tracker[n], receipts[n])'
      <4>1. PICK k \in 0..Len(receipts[n]) :
              /\ tracker[n] = SubSeq(receipts[n], k + 1, Len(receipts[n]))
              /\ \A i \in 1..k : receipts[n][i] <= now - Window
        BY <3>3 DEF IsTracked
      <4>2. ASSUME NEW i \in 1..k PROVE receipts[n][i] <= now' - Window
        <5>1. i \in 1..Len(receipts[n])
          BY <3>3
        <5> QED
          BY <2>1, <3>2, <4>1, <5>1
      <4> QED
        BY <3>1, <4>1, <4>2 DEF IsTracked
    <3>5. (\A i \in DOMAIN receipts[n] : receipts[n][i] <= now)'
      BY <2>1, <3>1, <3>2, <3>3
    <3> QED
      BY <3>1, <3>3, <3>4, <3>5 DEF Ascending
  <2> QED
    BY <2>2, <2>3, <2>4 DEF ListenerInv
<1>6. CASE ChannelCloses \/ Cancel \/ Top \/ SubscribeReturns \/ WaitCancelled
  <2>1. ListenerTypeOK'
    <3> USE DEF ListenerInv, ListenerTypeOK, sentinelVars, linkVars
    <3>1. CASE ChannelCloses \/ Cancel \/ WaitCancelled
      BY <3>1 DEF ChannelCloses, Cancel, WaitCancelled
    <3>2. << >> \in Seq(Messages)
      BY EmptySeq
    <3>3. CASE Top
      <4>1. inbox' \in Seq(Messages) /\ open' \in BOOLEAN
        BY <3>2, <3>3 DEF Top
      <4> QED
        BY <3>3, <4>1 DEF Top
    <3>4. CASE SubscribeReturns
      BY <3>2, <3>4 DEF SubscribeReturns
    <3> QED
      BY <1>6, <3>1, <3>3, <3>4
  <2> QED
    BY <1>1, <1>6, <2>1 DEF ChannelCloses, Cancel, Top, SubscribeReturns, WaitCancelled
<1>7. CASE WaitEnds
  <2>1. ListenerTypeOK'
    BY <1>7, BackoffStays DEF ListenerInv, ListenerTypeOK, WaitEnds, sentinelVars, linkVars
  <2> QED
    BY <1>1, <1>7, <2>1 DEF WaitEnds
<1>8. CASE ReceiveMessage
  BY <1>8, ReceiveInv
<1>9. CASE UNCHANGED listenerVars
  <2>1. ListenerTypeOK'
    BY <1>9 DEF ListenerInv, ListenerTypeOK, listenerVars, sentinelVars, linkVars
  <2> QED
    BY <1>1, <1>9, <2>1 DEF listenerVars
<1> QED
  BY <1>3, <1>4, <1>5, <1>6, <1>7, <1>8, <1>9 DEF ListenerNext, GoroutineStep, Environment, ListenerEnded

LEMMA InitListenerInv == ListenerInit => ListenerInv
<1> SUFFICES ASSUME ListenerInit PROVE ListenerInv
  OBVIOUS
<1>1. /\ 0 \in Times /\ 0 \in 0..MaxMessages /\ FirstBackoff \in Backoffs
      /\ << >> \in Seq(Times) /\ << >> \in Seq(Messages) /\ Len(<< >>) = 0
  BY TimeAssumption, MessagesAssumption, BackoffAssumption DEF Times, Backoffs
<1>2. ListenerTypeOK
  BY <1>1 DEF ListenerInit, ListenerTypeOK, NoEvent
<1>3. ASSUME NEW n \in Nodes
      PROVE  /\ Ascending(receipts[n])
             /\ \A i \in DOMAIN receipts[n] : receipts[n][i] <= now
             /\ IsTracked(tracker[n], receipts[n])
  <2>1. receipts[n] = << >> /\ tracker[n] = << >>
    BY DEF ListenerInit
  <2>2. SubSeq(<< >>, 0 + 1, 0) = << >>
    BY SubSeqEmpty
  <2>3. IsTracked(<< >>, << >>)
    BY <1>1, <2>2 DEF IsTracked
  <2> QED
    BY <2>1, <2>3 DEF Ascending
<1> QED
  BY <1>2, <1>3 DEF ListenerInv, FlappingExactly, ListenerInit

\* The listener's variables have their types: above all the wait before it subscribes
\* again stays below twice its limit, however often the connection is lost.
THEOREM ListenerTypesHold == ListenerSpec => []ListenerTypeOK
<1>1. ListenerInv => ListenerTypeOK
  BY DEF ListenerInv
<1> QED
  BY <1>1, InitListenerInv, NextListenerInv, PTL DEF ListenerSpec

\* For every window and threshold: an event is marked flapping exactly if as many +sdown
\* messages of its node as the threshold were received in the window up to it, over
\* pruning, lost messages and new subscriptions.
THEOREM FlappingIsExact == ListenerSpec => []FlappingExactly
<1>1. ListenerInv => FlappingExactly
  BY DEF ListenerInv
<1> QED
  BY <1>1, InitListenerInv, NextListenerInv, PTL DEF ListenerSpec
=============================================================================
