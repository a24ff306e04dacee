--------------------------- MODULE FailoverProofs ---------------------------
(***************************************************************************)
(* Proofs about Failover, for any nodes, sentinels, requests and lags, any *)
(* number of elections and any limits on the sends and the wait.           *)
(***************************************************************************)
EXTENDS Failover, FiniteSetTheorems, TLAPS

\* A request that has come to a step has what the step needs, and what a sent
\* command needed stays with the request.
Justified(h) ==
  /\ h.started <= h.sends
  /\ h.pc \in {"start", "master", "replicas", "quorum", "lag", "ping"} => h.sends = 0
  /\ h.pc \in {"lag", "ping", "command", "poll"} => h.quorum
  /\ h.pc \in {"ping", "command", "poll"} => ~h.dryRun /\ h.selected \in h.replicas
  /\ h.pc = "command" => h.sends < MaxSends /\ h.target \in Sentinels
  /\ h.pc = "poll" => h.started > 0
  /\ h.started > 0 => ~h.dryRun /\ h.quorum /\ h.selected \in h.replicas

\* The old master was read at the sentinel named, which has heard of at least
\* that election since; a switch that is reported is one.
Grounded(h) ==
  /\ h.pc \notin {"start", "master", "end"} => h.oldFrom.by \in Sentinels
  /\ h.oldFrom.by \in Sentinels =>
       /\ h.oldFrom.election \in 1..heard[h.oldFrom.by]
       /\ h.old = masters[h.oldFrom.election]
  /\ h.status # "none" => h.pc = "end"
  /\ h.status = "switched" =>
       /\ h.started > 0
       /\ h.old # h.new
       /\ h.oldFrom.by \in Sentinels
       /\ h.newFrom.election \in 1..Len(masters)
       /\ h.new = masters[h.newFrom.election]
       /\ h.oldFrom.by = h.newFrom.by => h.oldFrom.election < h.newFrom.election

Fine(h) == h \in Handlers /\ Justified(h) /\ Grounded(h)

\* The sentinels that run a failover.
Running == {s \in Sentinels : leading[s] # "nobody"}

\* The failovers that run can still elect a master each.
WithinBound == Len(masters) + Cardinality(Running) <= MaxElections + 1

ClusterOK ==
  /\ masters \in Seq(Nodes)
  /\ Len(masters) \in Elections
  /\ heard \in [Sentinels -> Elections]
  /\ \A s \in Sentinels : heard[s] <= Len(masters)
  /\ leading \in [Sentinels -> Causes]
  /\ WithinBound

RequestsOK ==
  /\ DOMAIN req = Requests
  /\ req = [r \in Requests |-> req[r]]
  /\ \A r \in Requests : Fine(req[r])

IInv == ClusterOK /\ RequestsOK

LEMMA IInvImplies == IInv => TypeOK /\ CommandIsJustified /\ SwitchIsReal
<1> SUFFICES ASSUME IInv PROVE TypeOK /\ CommandIsJustified /\ SwitchIsReal
  OBVIOUS
<1>1. TypeOK
  BY DEF IInv, ClusterOK, RequestsOK, Fine, TypeOK
<1>2. CommandIsJustified
  BY DEF IInv, RequestsOK, Fine, Justified, CommandIsJustified, Handlers
<1>3. SwitchIsReal
  BY DEF IInv, RequestsOK, Fine, Grounded, SwitchIsReal
<1> QED
  BY <1>1, <1>2, <1>3

-----------------------------------------------------------------------------
\* Each disjunct of Next, one name for each action.
LEMMA NextCases ==
  ASSUME Next
  PROVE  \/ \E r \in Requests : Handle(r) \/ RequestStep(r)
         \/ \E r \in Requests : PostWebhook(r) \/ Cancel(r)
         \/ \E s \in Sentinels : SpontaneousFailover(s) \/ ChaosFailover(s)
         \/ \E s \in Sentinels : Elect(s)
         \/ \E s \in Sentinels : Abort(s)
         \/ \E s \in Sentinels : Hear(s)
         \/ UNCHANGED vars
BY DEF Next, SentinelStep, Quiescent

\* Handler r becomes one that is fine.
Moves(r) == \E h : Fine(h) /\ req' = [req EXCEPT ![r] = h]

LEMMA HandlerType ==
  ASSUME IInv, NEW r \in Requests
  PROVE  /\ Fine(req[r])
         /\ req[r] \in Handlers
         /\ DOMAIN req = Requests
         /\ req = [q \in Requests |-> req[q]]
BY DEF IInv, RequestsOK, Fine

\* A handler whose field is set to a value of its type is a handler.
LEMMA HandlerFields ==
  ASSUME NEW h \in Handlers
  PROVE  /\ \A v \in {"start", "master", "replicas", "quorum", "lag", "ping", "command", "poll", "end"} : [h EXCEPT !.pc = v] \in Handlers
         /\ \A v \in {"none", "bad_request", "unresolved", "failed", "preview", "switched"} : [h EXCEPT !.status = v] \in Handlers
         /\ \A v \in BOOLEAN : [h EXCEPT !.quorum = v] \in Handlers
         /\ \A v \in Nodes : [h EXCEPT !.selected = v] \in Handlers
         /\ \A v \in Sentinels : [h EXCEPT !.target = v] \in Handlers
         /\ \A v \in 0..MaxSends : [h EXCEPT !.sends = v] \in Handlers
         /\ \A v \in 0..MaxSends : [h EXCEPT !.started = v] \in Handlers
         /\ \A v \in 0..WaitTicks : [h EXCEPT !.left = v] \in Handlers
         /\ \A v \in Nodes : [h EXCEPT !.new = v] \in Handlers
         /\ \A v \in Answers : [h EXCEPT !.newFrom = v] \in Handlers
         /\ \A v \in {"none", "posting", "finished"} : [h EXCEPT !.webhook = v] \in Handlers
         /\ \A v \in BOOLEAN : [h EXCEPT !.cancelled = v] \in Handlers
         /\ \A v \in BOOLEAN : [h EXCEPT !.dryRun = v] \in Handlers
         /\ \A v \in Nodes : [h EXCEPT !.old = v] \in Handlers
         /\ \A v \in Answers : [h EXCEPT !.oldFrom = v] \in Handlers
         /\ \A v \in SUBSET Nodes : [h EXCEPT !.replicas = v] \in Handlers
<1>1. \A v \in {"start", "master", "replicas", "quorum", "lag", "ping", "command", "poll", "end"} : [h EXCEPT !.pc = v] \in Handlers
  BY DEF Handlers
<1>2. \A v \in {"none", "bad_request", "unresolved", "failed", "preview", "switched"} : [h EXCEPT !.status = v] \in Handlers
  BY DEF Handlers
<1>3. \A v \in BOOLEAN : [h EXCEPT !.quorum = v] \in Handlers
  BY DEF Handlers
<1>4. \A v \in Nodes : [h EXCEPT !.selected = v] \in Handlers
  BY DEF Handlers
<1>5. \A v \in Sentinels : [h EXCEPT !.target = v] \in Handlers
  BY DEF Handlers
<1>6. \A v \in 0..MaxSends : [h EXCEPT !.sends = v] \in Handlers
  BY DEF Handlers
<1>7. \A v \in 0..MaxSends : [h EXCEPT !.started = v] \in Handlers
  BY DEF Handlers
<1>8. \A v \in 0..WaitTicks : [h EXCEPT !.left = v] \in Handlers
  BY DEF Handlers
<1>9. \A v \in Nodes : [h EXCEPT !.new = v] \in Handlers
  BY DEF Handlers
<1>10. \A v \in Answers : [h EXCEPT !.newFrom = v] \in Handlers
  BY DEF Handlers
<1>11. \A v \in {"none", "posting", "finished"} : [h EXCEPT !.webhook = v] \in Handlers
  BY DEF Handlers
<1>12. \A v \in BOOLEAN : [h EXCEPT !.cancelled = v] \in Handlers
  BY DEF Handlers
<1>13. \A v \in BOOLEAN : [h EXCEPT !.dryRun = v] \in Handlers
  BY DEF Handlers
<1>14. \A v \in Nodes : [h EXCEPT !.old = v] \in Handlers
  BY DEF Handlers
<1>15. \A v \in Answers : [h EXCEPT !.oldFrom = v] \in Handlers
  BY DEF Handlers
<1>16. \A v \in SUBSET Nodes : [h EXCEPT !.replicas = v] \in Handlers
  BY DEF Handlers
<1> QED
  BY <1>1, <1>2, <1>3, <1>4, <1>5, <1>6, <1>7, <1>8, <1>9, <1>10, <1>11, <1>12,
     <1>13, <1>14, <1>15, <1>16, Zenon

\* A handler that returns an error, or ends a dry run, is fine.
LEMMA ReturnIsFine ==
  ASSUME NEW h \in Handlers, Fine(h), h.status = "none",
         NEW answer \in {"bad_request", "unresolved", "failed", "preview"}
  PROVE  Fine([h EXCEPT !.pc = "end", !.status = answer])
<1> DEFINE g == [h EXCEPT !.pc = "end", !.status = answer]
<1>1. g \in Handlers
  <2>1. [h EXCEPT !.pc = "end"] \in Handlers
    BY HandlerFields, Zenon
  <2> QED
    BY <2>1, HandlerFields
<1>2. Justified(g)
  BY DEF Fine, Justified, Handlers
<1>3. Grounded(g)
  BY DEF Fine, Grounded, Handlers
<1> QED
  BY <1>1, <1>2, <1>3 DEF Fine

LEMMA ReturnMoves ==
  ASSUME IInv, NEW r \in Requests, req[r].pc # "end",
         NEW answer \in {"bad_request", "unresolved", "failed", "preview"},
         Return(r, answer)
  PROVE  Moves(r)
<1> DEFINE h == [req[r] EXCEPT !.pc = "end", !.status = answer]
<1>1. req' = [req EXCEPT ![r] = h]
  BY HandlerType DEF Return
<1>2. req[r].status = "none"
  BY HandlerType DEF Fine, Grounded
<1>3. Fine(h)
  BY <1>2, HandlerType, ReturnIsFine
<1> QED
  BY <1>1, <1>3 DEF Moves

LEMMA HandleMoves ==
  ASSUME IInv, NEW r \in Requests, Handle(r)
  PROVE  Moves(r)
<1>1. req[r].pc = "start"
  BY DEF Handle, At
<1>2. CASE Return(r, "bad_request")
  BY <1>1, <1>2, ReturnMoves
<1>3. ASSUME NEW dryRun \in BOOLEAN,
             req' = [req EXCEPT ![r].pc = "master", ![r].dryRun = dryRun]
      PROVE  Moves(r)
  <2> DEFINE h == [req[r] EXCEPT !.pc = "master", !.dryRun = dryRun]
  <2>1. req' = [req EXCEPT ![r] = h]
    BY <1>3, HandlerType
  <2>2. h \in Handlers
    <3>1. [req[r] EXCEPT !.pc = "master"] \in Handlers
      BY HandlerType, HandlerFields, Zenon
    <3> QED
      BY <3>1, HandlerFields
  <2>3. Justified(h)
    BY <1>1, HandlerType DEF Fine, Justified, Handlers
  <2>4. Grounded(h)
    BY <1>1, HandlerType DEF Fine, Grounded, Handlers
  <2> HIDE DEF h
  <2> QED
    BY <2>1, <2>2, <2>3, <2>4 DEF Moves, Fine
<1> QED
  BY <1>2, <1>3 DEF Handle

LEMMA ResolveMasterMoves ==
  ASSUME IInv, NEW r \in Requests, ResolveMaster(r)
  PROVE  Moves(r)
<1>1. req[r].pc = "master" /\ req[r].status = "none"
  BY HandlerType DEF ResolveMaster, At, Fine, Grounded
<1>2. PICK s \in Sentinels :
        req' = [req EXCEPT ![r].pc = "replicas", ![r].old = masters[heard[s]],
                           ![r].oldFrom = AnswerOf(s)]
  BY DEF ResolveMaster
<1>3. heard[s] \in 1..Len(masters) /\ heard[s] \in Elections /\ masters[heard[s]] \in Nodes
  BY MaxElectionsAssumption DEF IInv, ClusterOK, Elections
<1>4. PICK a \in Answers : a = AnswerOf(s) /\ a.by = s /\ a.election = heard[s]
  <2>1. AnswerOf(s) \in Answers
    BY <1>3 DEF AnswerOf, Answers
  <2>2. AnswerOf(s).by = s /\ AnswerOf(s).election = heard[s]
    BY DEF AnswerOf
  <2> QED
    BY <2>1, <2>2, Zenon
<1>5. PICK n \in Nodes : n = masters[heard[s]]
  BY <1>3
<1> DEFINE h == [req[r] EXCEPT !.pc = "replicas", !.old = n, !.oldFrom = a]
<1>6. req' = [req EXCEPT ![r] = h]
  BY <1>2, <1>4, <1>5, HandlerType
<1>7. h \in Handlers
  <2>1. [req[r] EXCEPT !.pc = "replicas"] \in Handlers
    BY HandlerType, HandlerFields, Zenon
  <2>2. [[req[r] EXCEPT !.pc = "replicas"] EXCEPT !.old = n] \in Handlers
    BY <2>1, HandlerFields, Zenon
  <2> QED
    BY <2>2, HandlerFields
<1>8. Justified(h)
  BY <1>1, HandlerType DEF Fine, Justified, Handlers
<1>9. Grounded(h)
  BY <1>1, <1>3, <1>4, <1>5, HandlerType DEF Fine, Grounded, Handlers
<1> HIDE DEF h
<1> QED
  BY <1>6, <1>7, <1>8, <1>9 DEF Moves, Fine

LEMMA ResolveReplicasMoves ==
  ASSUME IInv, NEW r \in Requests, ResolveReplicas(r)
  PROVE  Moves(r)
<1>1. req[r].pc = "replicas"
  BY DEF ResolveReplicas, At
<1>2. PICK replicas \in SUBSET Nodes :
        req' = [req EXCEPT ![r] = [req[r] EXCEPT !.pc = "quorum", !.replicas = replicas]]
  <2>1. CASE req' = [req EXCEPT ![r].pc = "quorum",
                       ![r].replicas = Nodes \ {masters[heard[req[r].oldFrom.by]]}]
    BY <2>1, HandlerType
  <2>2. CASE GoTo(r, "quorum")
    <3>1. req' = [req EXCEPT ![r] = [req[r] EXCEPT !.pc = "quorum"]]
      BY <2>2, HandlerType DEF GoTo
    <3>2. [req[r] EXCEPT !.pc = "quorum"] =
          [req[r] EXCEPT !.pc = "quorum", !.replicas = req[r].replicas]
      BY HandlerType DEF Handlers
    <3>3. req[r].replicas \in SUBSET Nodes
      BY HandlerType DEF Handlers
    <3> QED
      BY <3>1, <3>2, <3>3
  <2> QED
    BY <2>1, <2>2 DEF ResolveReplicas
<1> DEFINE h == [req[r] EXCEPT !.pc = "quorum", !.replicas = replicas]
<1>3. h \in Handlers
  <2>1. [req[r] EXCEPT !.pc = "quorum"] \in Handlers
    BY HandlerType, HandlerFields, Zenon
  <2> QED
    BY <2>1, HandlerFields
<1>4. Justified(h)
  BY <1>1, HandlerType DEF Fine, Justified, Handlers
<1>5. Grounded(h)
  BY <1>1, HandlerType DEF Fine, Grounded, Handlers
<1> HIDE DEF h
<1> QED
  BY <1>2, <1>3, <1>4, <1>5 DEF Moves, Fine, h

LEMMA CheckQuorumMoves ==
  ASSUME IInv, NEW r \in Requests, CheckQuorum(r)
  PROVE  Moves(r)
<1>1. req[r].pc = "quorum"
  BY DEF CheckQuorum, At
<1>2. CASE req' = [req EXCEPT ![r].pc = "lag", ![r].quorum = TRUE]
  <2> DEFINE h == [req[r] EXCEPT !.pc = "lag", !.quorum = TRUE]
  <2>1. req' = [req EXCEPT ![r] = h]
    BY <1>2, HandlerType
  <2>2. h \in Handlers
    <3>1. [req[r] EXCEPT !.pc = "lag"] \in Handlers
      BY HandlerType, HandlerFields, Zenon
    <3> QED
      BY <3>1, HandlerFields
  <2>3. Justified(h)
    BY <1>1, HandlerType DEF Fine, Justified, Handlers
  <2>4. Grounded(h)
    BY <1>1, HandlerType DEF Fine, Grounded, Handlers
  <2> HIDE DEF h
  <2> QED
    BY <2>1, <2>2, <2>3, <2>4 DEF Moves, Fine
<1>3. CASE Return(r, "failed")
  BY <1>1, <1>3, ReturnMoves
<1> QED
  BY <1>2, <1>3 DEF CheckQuorum

\* Whichever replica is selected is one of those that were listed.
LEMMA BestIsAReplica ==
  ASSUME NEW replicas, NEW lag \in Measurements(replicas), NEW best \in Best(lag)
  PROVE  best \in replicas
BY DEF Measurements, Best

LEMMA SelectReplicaMoves ==
  ASSUME IInv, NEW r \in Requests, SelectReplica(r)
  PROVE  Moves(r)
<1>1. req[r].pc = "lag" /\ req[r].status = "none"
  BY HandlerType DEF SelectReplica, At, Fine, Grounded
<1>2. CASE Return(r, "failed")
  BY <1>1, <1>2, ReturnMoves
<1>3. CASE ~Return(r, "failed")
  <2> DEFINE Selects(best) ==
        req' = [req EXCEPT ![r].selected = best,
                  ![r].pc = IF req[r].dryRun THEN "end" ELSE "ping",
                  ![r].status = IF req[r].dryRun THEN "preview" ELSE @]
  <2>0. PICK lag \in Measurements(req[r].replicas) : \E best \in Best(lag) : Selects(best)
    BY <1>3 DEF SelectReplica
  <2>1. PICK best \in Best(lag) : Selects(best)
    BY <2>0
  <2>2. best \in req[r].replicas /\ best \in Nodes
    BY BestIsAReplica, HandlerType DEF Handlers
  <2>3. PICK step \in {"end", "ping"}, answer \in {"preview", "none"} :
          /\ step = IF req[r].dryRun THEN "end" ELSE "ping"
          /\ answer = IF req[r].dryRun THEN "preview" ELSE "none"
    OBVIOUS
  <2> DEFINE h == [req[r] EXCEPT !.selected = best, !.pc = step, !.status = answer]
  <2>4. req' = [req EXCEPT ![r] = h]
    BY <1>1, <2>1, <2>3, HandlerType
  <2>5. h \in Handlers
    <3>1. [req[r] EXCEPT !.selected = best] \in Handlers
      BY HandlerType, <2>2, <2>3, HandlerFields, Zenon
    <3>2. [[req[r] EXCEPT !.selected = best] EXCEPT !.pc = step] \in Handlers
      BY <3>1, <2>2, <2>3, HandlerFields, Zenon
    <3> QED
      BY <3>2, <2>2, <2>3, HandlerFields
  <2>6. Justified(h)
    BY <1>1, <2>2, <2>3, HandlerType DEF Fine, Justified, Handlers
  <2>7. Grounded(h)
    BY <1>1, <2>3, HandlerType DEF Fine, Grounded, Handlers
  <2> HIDE DEF h
  <2> QED
    BY <2>4, <2>5, <2>6, <2>7 DEF Moves, Fine
<1> QED
  BY <1>2, <1>3

LEMMA PickSentinelMoves ==
  ASSUME IInv, NEW r \in Requests, PickSentinel(r)
  PROVE  Moves(r)
<1>1. req[r].pc = "ping"
  BY DEF PickSentinel, At
<1>2. CASE Return(r, "failed")
  BY <1>1, <1>2, ReturnMoves
<1>3. ASSUME NEW s \in Sentinels, req' = [req EXCEPT ![r].pc = "command", ![r].target = s]
      PROVE  Moves(r)
  <2> DEFINE h == [req[r] EXCEPT !.pc = "command", !.target = s]
  <2>1. req' = [req EXCEPT ![r] = h]
    BY <1>3, HandlerType
  <2>2. h \in Handlers
    <3>1. [req[r] EXCEPT !.pc = "command"] \in Handlers
      BY HandlerType, HandlerFields, Zenon
    <3> QED
      BY <3>1, HandlerFields
  <2>3. Justified(h)
    BY <1>1, HandlerType, SendsAssumption DEF Fine, Justified, Handlers
  <2>4. Grounded(h)
    BY <1>1, HandlerType DEF Fine, Grounded, Handlers
  <2> HIDE DEF h
  <2> QED
    BY <2>1, <2>2, <2>3, <2>4 DEF Moves, Fine
<1> QED
  BY <1>2, <1>3 DEF PickSentinel

LEMMA CommandAcceptedMoves ==
  ASSUME IInv, NEW r \in Requests, CommandAccepted(r)
  PROVE  Moves(r)
<1>1. req[r].pc = "command" /\ req[r].started <= req[r].sends /\ req[r].sends < MaxSends
  BY HandlerType DEF CommandAccepted, Sending, At, Fine, Justified
<1>2. PICK sends \in 0..MaxSends, started \in 0..MaxSends :
        sends = req[r].sends + 1 /\ started = req[r].started + 1 /\ started <= sends
  BY <1>1, HandlerType, SendsAssumption DEF Handlers
<1>3. WaitTicks \in 0..WaitTicks
  BY WaitAssumption
<1> DEFINE h == [req[r] EXCEPT !.pc = "poll", !.left = WaitTicks,
                               !.sends = sends, !.started = started]
<1>4. req' = [req EXCEPT ![r] = h]
  BY <1>2, HandlerType DEF CommandAccepted
<1>5. h \in Handlers
  <2>1. [req[r] EXCEPT !.pc = "poll"] \in Handlers
    BY HandlerType, <1>2, <1>3, HandlerFields, Zenon
  <2>2. [[req[r] EXCEPT !.pc = "poll"] EXCEPT !.left = WaitTicks] \in Handlers
    BY <2>1, <1>2, <1>3, HandlerFields, Zenon
  <2>3. [[[req[r] EXCEPT !.pc = "poll"] EXCEPT !.left = WaitTicks] EXCEPT !.sends = sends] \in Handlers
    BY <2>2, <1>2, <1>3, HandlerFields, Zenon
  <2> QED
    BY <2>3, <1>2, <1>3, HandlerFields
<1>6. Justified(h)
  BY <1>1, <1>2, HandlerType DEF Fine, Justified, Handlers
<1>7. Grounded(h)
  BY <1>1, HandlerType DEF Fine, Grounded, Handlers
<1> HIDE DEF h
<1> QED
  BY <1>4, <1>5, <1>6, <1>7 DEF Moves, Fine

LEMMA CommandUnansweredMoves ==
  ASSUME IInv, NEW r \in Requests, CommandUnanswered(r)
  PROVE  Moves(r)
<1>1. /\ req[r].pc = "command" /\ req[r].status = "none"
      /\ req[r].started <= req[r].sends /\ req[r].sends < MaxSends
  BY HandlerType DEF CommandUnanswered, Sending, At, Fine, Justified, Grounded
<1>2. PICK again \in BOOLEAN, taken \in BOOLEAN :
        /\ again => req[r].sends + 1 < MaxSends
        /\ req' = [req EXCEPT
                     ![r].pc = IF again THEN "command" ELSE "end",
                     ![r].status = IF again THEN @ ELSE "failed",
                     ![r].sends = @ + 1,
                     ![r].started = IF taken THEN @ + 1 ELSE @]
  BY DEF CommandUnanswered
<1>3. PICK step \in {"command", "end"}, answer \in {"none", "failed"},
           sends \in 0..MaxSends, started \in 0..MaxSends :
        /\ step = IF again THEN "command" ELSE "end"
        /\ answer = IF again THEN "none" ELSE "failed"
        /\ sends = req[r].sends + 1
        /\ started = IF taken THEN req[r].started + 1 ELSE req[r].started
        /\ started <= sends
  BY <1>1, HandlerType, SendsAssumption DEF Handlers
<1> DEFINE h == [req[r] EXCEPT !.pc = step, !.status = answer,
                               !.sends = sends, !.started = started]
<1>4. req' = [req EXCEPT ![r] = h]
  BY <1>1, <1>2, <1>3, HandlerType
<1>5. h \in Handlers
  <2>1. [req[r] EXCEPT !.pc = step] \in Handlers
    BY HandlerType, <1>2, <1>3, HandlerFields, Zenon
  <2>2. [[req[r] EXCEPT !.pc = step] EXCEPT !.status = answer] \in Handlers
    BY <2>1, <1>2, <1>3, HandlerFields, Zenon
  <2>3. [[[req[r] EXCEPT !.pc = step] EXCEPT !.status = answer] EXCEPT !.sends = sends] \in Handlers
    BY <2>2, <1>2, <1>3, HandlerFields, Zenon
  <2> QED
    BY <2>3, <1>2, <1>3, HandlerFields, ZenonT(30)
<1>6. Justified(h)
  BY <1>1, <1>2, <1>3, HandlerType DEF Fine, Justified, Handlers
<1>7. Grounded(h)
  BY <1>1, <1>3, HandlerType DEF Fine, Grounded, Handlers
<1> HIDE DEF h
<1> QED
  BY <1>4, <1>5, <1>6, <1>7 DEF Moves, Fine

LEMMA PollFindsMoves ==
  ASSUME IInv, NEW r \in Requests, PollFinds(r)
  PROVE  Moves(r)
<1>1. /\ req[r].pc = "poll" /\ req[r].started > 0
      /\ req[r].oldFrom.by \in Sentinels
      /\ req[r].oldFrom.election \in 1..heard[req[r].oldFrom.by]
      /\ req[r].old = masters[req[r].oldFrom.election]
  BY HandlerType DEF PollFinds, Polling, At, Fine, Justified, Grounded
<1>2. PICK s \in Sentinels :
        /\ masters[heard[s]] # req[r].old
        /\ req' = [req EXCEPT ![r].pc = "end", ![r].status = "switched",
                     ![r].new = masters[heard[s]], ![r].newFrom = AnswerOf(s),
                     ![r].webhook = "posting"]
  BY DEF PollFinds
<1>3. heard[s] \in 1..Len(masters) /\ heard[s] \in Elections /\ masters[heard[s]] \in Nodes
  BY MaxElectionsAssumption DEF IInv, ClusterOK, Elections
<1>4. PICK a \in Answers : a = AnswerOf(s) /\ a.by = s /\ a.election = heard[s]
  <2>1. AnswerOf(s) \in Answers
    BY <1>3 DEF AnswerOf, Answers
  <2>2. AnswerOf(s).by = s /\ AnswerOf(s).election = heard[s]
    BY DEF AnswerOf
  <2> QED
    BY <2>1, <2>2, Zenon
<1>5. PICK n \in Nodes : n = masters[heard[s]]
  BY <1>3
<1> DEFINE h == [req[r] EXCEPT !.pc = "end", !.status = "switched",
                               !.new = n, !.newFrom = a, !.webhook = "posting"]
<1>6. req' = [req EXCEPT ![r] = h]
  BY <1>2, <1>4, <1>5, HandlerType
<1>7. h \in Handlers
  <2>1. [req[r] EXCEPT !.pc = "end"] \in Handlers
    BY HandlerType, HandlerFields, Zenon
  <2>2. [[req[r] EXCEPT !.pc = "end"] EXCEPT !.status = "switched"] \in Handlers
    BY <2>1, HandlerFields, Zenon
  <2>3. [[[req[r] EXCEPT !.pc = "end"] EXCEPT !.status = "switched"] EXCEPT !.new = n]
          \in Handlers
    BY <2>2, HandlerFields, Zenon
  <2>4. [[[[req[r] EXCEPT !.pc = "end"] EXCEPT !.status = "switched"] EXCEPT !.new = n]
          EXCEPT !.newFrom = a] \in Handlers
    BY <2>3, HandlerFields, Zenon
  <2> QED
    BY <2>4, HandlerFields
<1>8. Justified(h)
  BY <1>1, HandlerType DEF Fine, Justified, Handlers
<1>9. Grounded(h)
  <2>1. /\ h.started > 0 /\ h.old # h.new /\ h.oldFrom.by \in Sentinels
        /\ h.oldFrom.election \in 1..heard[h.oldFrom.by]
        /\ h.old = masters[h.oldFrom.election]
        /\ h.newFrom.election \in 1..Len(masters) /\ h.new = masters[h.newFrom.election]
        /\ h.pc = "end" /\ h.newFrom.by = s /\ h.newFrom.election = heard[s]
    BY <1>1, <1>2, <1>3, <1>4, <1>5, HandlerType DEF Handlers
  <2>2. h.oldFrom.by = s => h.oldFrom.election <= heard[s] /\ h.oldFrom.election # heard[s]
    BY <1>3, <2>1
  <2>3. h.oldFrom.by = h.newFrom.by => h.oldFrom.election < h.newFrom.election
    <3>1. SUFFICES ASSUME h.oldFrom.by = s PROVE h.oldFrom.election < heard[s]
      BY <2>1
    <3>2. h.oldFrom.election \in Nat /\ heard[s] \in Nat
      BY <1>3, <2>1, <3>1
    <3> HIDE DEF h
    <3> QED
      BY <2>2, <3>1, <3>2
  <2> HIDE DEF h
  <2> QED
    BY <2>1, <2>3 DEF Grounded
<1> HIDE DEF h
<1> QED
  BY <1>6, <1>7, <1>8, <1>9 DEF Moves, Fine

LEMMA PollAgainMoves ==
  ASSUME IInv, NEW r \in Requests, PollAgain(r)
  PROVE  Moves(r)
<1>1. PICK left \in 0..(req[r].left - 1) : req' = [req EXCEPT ![r].left = left]
  BY DEF PollAgain
<1>2. left \in 0..WaitTicks
  BY WaitAssumption, HandlerType DEF Handlers
<1> DEFINE h == [req[r] EXCEPT !.left = left]
<1>3. req' = [req EXCEPT ![r] = h]
  BY <1>1, HandlerType
<1>4. h \in Handlers
  BY <1>2, HandlerType, HandlerFields
<1>5. Justified(h)
  BY HandlerType DEF Fine, Justified, Handlers
<1>6. Grounded(h)
  BY HandlerType DEF Fine, Grounded, Handlers
<1> HIDE DEF h
<1> QED
  BY <1>3, <1>4, <1>5, <1>6 DEF Moves, Fine

LEMMA PostWebhookMoves ==
  ASSUME IInv, NEW r \in Requests, PostWebhook(r)
  PROVE  Moves(r)
<1> DEFINE h == [req[r] EXCEPT !.webhook = "finished"]
<1>1. req' = [req EXCEPT ![r] = h]
  BY HandlerType DEF PostWebhook
<1>2. h \in Handlers
  BY HandlerType, HandlerFields
<1>3. Justified(h)
  BY HandlerType DEF Fine, Justified, Handlers
<1>4. Grounded(h)
  BY HandlerType DEF Fine, Grounded, Handlers
<1> HIDE DEF h
<1> QED
  BY <1>1, <1>2, <1>3, <1>4 DEF Moves, Fine

LEMMA CancelMoves ==
  ASSUME IInv, NEW r \in Requests, Cancel(r)
  PROVE  Moves(r)
<1> DEFINE h == [req[r] EXCEPT !.cancelled = TRUE]
<1>1. req' = [req EXCEPT ![r] = h]
  BY HandlerType DEF Cancel
<1>2. h \in Handlers
  BY HandlerType, HandlerFields
<1>3. Justified(h)
  BY HandlerType DEF Fine, Justified, Handlers
<1>4. Grounded(h)
  BY HandlerType DEF Fine, Grounded, Handlers
<1> HIDE DEF h
<1> QED
  BY <1>1, <1>2, <1>3, <1>4 DEF Moves, Fine

\* Every step of a request makes its handler another fine one.
LEMMA RequestMoves ==
  ASSUME IInv, NEW r \in Requests,
         Handle(r) \/ RequestStep(r) \/ PostWebhook(r) \/ Cancel(r)
  PROVE  Moves(r)
<1>1. CASE ResolveFails(r)
  BY <1>1, ReturnMoves DEF ResolveFails, At
<1>2. CASE CommandRefused(r)
  BY <1>2, ReturnMoves DEF CommandRefused, At
<1>3. CASE PollGivesUp(r)
  BY <1>3, ReturnMoves DEF PollGivesUp, At
<1> QED
  BY <1>1, <1>2, <1>3, HandleMoves, ResolveMasterMoves, ResolveReplicasMoves,
     CheckQuorumMoves, SelectReplicaMoves, PickSentinelMoves, CommandAcceptedMoves,
     CommandUnansweredMoves, PollFindsMoves, PollAgainMoves, PostWebhookMoves, CancelMoves
     DEF RequestStep

-----------------------------------------------------------------------------
\* What a handler has read stays true while masters are only added and
\* sentinels only hear of more.
LEMMA FineStaysFine ==
  ASSUME IInv, NEW h, Fine(h),
         masters' \in Seq(Nodes), Len(masters') >= Len(masters),
         \A i \in 1..Len(masters) : masters'[i] = masters[i],
         heard' \in [Sentinels -> Elections], \A s \in Sentinels : heard'[s] >= heard[s]
  PROVE  Fine(h)'
<1>1. h \in Handlers /\ Justified(h) /\ Grounded(h)
  BY DEF Fine
<1>2. ASSUME h.oldFrom.by \in Sentinels
      PROVE  /\ h.oldFrom.election \in 1..heard'[h.oldFrom.by]
             /\ h.old = masters'[h.oldFrom.election]
  BY <1>1, <1>2, MaxElectionsAssumption DEF Grounded, IInv, ClusterOK, Elections
<1>3. ASSUME h.status = "switched"
      PROVE  /\ h.newFrom.election \in 1..Len(masters')
             /\ h.new = masters'[h.newFrom.election]
  BY <1>1, <1>3 DEF Grounded, IInv, ClusterOK, Elections
<1>4. Grounded(h)'
  BY <1>1, <1>2, <1>3 DEF Grounded
<1> QED
  BY <1>1, <1>4 DEF Fine, Justified, Handlers, Answers, Elections

LEMMA RunningIsFinite ==
  /\ IsFiniteSet(Running) /\ Cardinality(Running) \in Nat
  /\ \A s \in Sentinels :
       /\ IsFiniteSet(Running \cup {s})
       /\ Cardinality(Running \cup {s}) <= Cardinality(Running) + 1
  /\ \A s \in Running : Cardinality(Running \ {s}) = Cardinality(Running) - 1
  /\ \A S \in SUBSET Sentinels : IsFiniteSet(S)
<1>1. \A S \in SUBSET Sentinels : IsFiniteSet(S)
  BY SentinelsAssumption, FS_Subset
<1>2. IsFiniteSet(Running) /\ Cardinality(Running) \in Nat
  BY <1>1, FS_CardinalityType DEF Running
<1>3. ASSUME NEW s \in Sentinels
      PROVE  /\ IsFiniteSet(Running \cup {s})
             /\ Cardinality(Running \cup {s}) <= Cardinality(Running) + 1
  BY <1>2, FS_AddElement
<1>4. ASSUME NEW s \in Running PROVE Cardinality(Running \ {s}) = Cardinality(Running) - 1
  BY <1>2, FS_RemoveElement
<1> QED
  BY <1>1, <1>2, <1>3, <1>4

\* A failover that is taken up stays within the bound.
LEMMA TakeUpOK ==
  ASSUME IInv, NEW s \in Sentinels, NEW cause \in Causes, TakeUp(s, cause),
         UNCHANGED <<masters, heard>>
  PROVE  ClusterOK'
<1>1. leading' \in [Sentinels -> Causes]
  BY DEF TakeUp, IInv, ClusterOK
<1>2. Running' \in SUBSET (Running \cup {s})
  BY DEF TakeUp, Running, IInv, ClusterOK
<1>3. Cardinality(Running') <= Cardinality(Running) + 1 /\ Cardinality(Running') \in Nat
  <2>1. /\ IsFiniteSet(Running \cup {s})
        /\ Cardinality(Running \cup {s}) <= Cardinality(Running) + 1
        /\ Cardinality(Running) \in Nat
    BY RunningIsFinite
  <2>2. /\ IsFiniteSet(Running')
        /\ Cardinality(Running') <= Cardinality(Running \cup {s})
    BY <1>2, <2>1, FS_Subset
  <2> QED
    BY <2>1, <2>2, FS_CardinalityType
<1>4. Len(masters) + Cardinality(Running) <= MaxElections
  BY DEF TakeUp, RoomForElection, Running
<1>5. WithinBound'
  BY <1>3, <1>4, RunningIsFinite, MaxElectionsAssumption DEF WithinBound, IInv, ClusterOK, Elections
<1> QED
  BY <1>1, <1>5 DEF IInv, ClusterOK

\* A failover that ends makes room for an election.
LEMMA EndedOK ==
  ASSUME IInv, NEW s \in Sentinels, leading[s] # "nobody",
         leading' = [leading EXCEPT ![s] = "nobody"]
  PROVE  /\ leading' \in [Sentinels -> Causes]
         /\ Cardinality(Running') = Cardinality(Running) - 1
         /\ Cardinality(Running') \in Nat
<1>1. leading' \in [Sentinels -> Causes]
  BY DEF IInv, ClusterOK, Causes
<1>2. s \in Running /\ Running' = Running \ {s}
  BY DEF Running, IInv, ClusterOK
<1>3. Cardinality(Running') = Cardinality(Running) - 1
  BY <1>2, RunningIsFinite
<1>4. Running' \in SUBSET Sentinels /\ IsFiniteSet(Running')
  BY <1>2, RunningIsFinite DEF Running
<1> QED
  BY <1>1, <1>3, <1>4, FS_CardinalityType

LEMMA AbortOK ==
  ASSUME IInv, NEW s \in Sentinels, Abort(s)
  PROVE  ClusterOK'
<1>1. /\ leading' \in [Sentinels -> Causes]
      /\ Cardinality(Running') = Cardinality(Running) - 1
      /\ Cardinality(Running') \in Nat
  BY EndedOK DEF Abort
<1>2. WithinBound'
  BY <1>1, RunningIsFinite, MaxElectionsAssumption DEF Abort, WithinBound, IInv, ClusterOK, Elections
<1> QED
  BY <1>1, <1>2 DEF Abort, IInv, ClusterOK

LEMMA ElectOK ==
  ASSUME IInv, NEW s \in Sentinels, Elect(s)
  PROVE  ClusterOK' /\ RequestsOK'
<1>1. PICK n \in Nodes : masters' = Append(masters, n)
  BY DEF Elect
<1>2. /\ masters' \in Seq(Nodes) /\ Len(masters') = Len(masters) + 1
      /\ Len(masters) \in Nat
      /\ \A i \in 1..Len(masters) : masters'[i] = masters[i]
  BY <1>1 DEF IInv, ClusterOK
<1>3. /\ leading' \in [Sentinels -> Causes]
      /\ Cardinality(Running') = Cardinality(Running) - 1
      /\ Cardinality(Running') \in Nat
  BY EndedOK DEF Elect
<1>4. WithinBound' /\ Len(masters') \in Elections
  BY <1>2, <1>3, RunningIsFinite, MaxElectionsAssumption DEF WithinBound, IInv, ClusterOK, Elections
<1>5. heard' = [heard EXCEPT ![s] = Len(masters')]
  BY <1>2 DEF Elect
<1>6. /\ heard' \in [Sentinels -> Elections]
      /\ \A q \in Sentinels : heard'[q] <= Len(masters') /\ heard'[q] >= heard[q]
  BY <1>2, <1>4, <1>5, MaxElectionsAssumption DEF IInv, ClusterOK, Elections
<1>7. ClusterOK'
  BY <1>2, <1>3, <1>4, <1>6 DEF ClusterOK
<1>8. RequestsOK'
  <2>1. \A r \in Requests : Fine(req[r])'
    <3>1. ASSUME NEW r \in Requests PROVE Fine(req[r])'
      <4>1. PICK h : h = req[r] /\ h = req'[r]
        BY DEF Elect
      <4>2. Fine(h)
        BY <4>1, HandlerType
      <4>3. Fine(h)'
        BY <1>2, <1>6, <4>2, FineStaysFine
      <4> QED
        BY <4>1, <4>3
    <3> QED
      BY <3>1
  <2> QED
    BY <2>1 DEF RequestsOK, IInv, Elect
<1> QED
  BY <1>7, <1>8

LEMMA HearOK ==
  ASSUME IInv, NEW s \in Sentinels, Hear(s)
  PROVE  ClusterOK' /\ RequestsOK'
<1>1. /\ heard' \in [Sentinels -> Elections]
      /\ \A q \in Sentinels : heard'[q] <= Len(masters) /\ heard'[q] >= heard[q]
      /\ Len(masters) \in Nat
  BY MaxElectionsAssumption DEF Hear, IInv, ClusterOK, Elections
<1>2. Running' = Running /\ UNCHANGED <<masters, leading, req>>
  BY DEF Hear, Running
<1>3. ClusterOK'
  BY <1>1, <1>2 DEF ClusterOK, WithinBound, IInv
<1>4. ASSUME NEW r \in Requests PROVE Fine(req[r])'
  <2>1. PICK h : h = req[r] /\ h = req'[r]
    BY <1>2
  <2>2. Fine(h)
    BY <2>1, HandlerType
  <2>3. masters' \in Seq(Nodes) /\ masters' = masters /\ Len(masters') >= Len(masters)
    BY <1>1, <1>2 DEF IInv, ClusterOK
  <2>4. Fine(h)'
    BY <1>1, <2>2, <2>3, FineStaysFine
  <2> QED
    BY <2>1, <2>4
<1>5. DOMAIN req' = Requests /\ req' = [r \in Requests |-> req'[r]]
  BY <1>2 DEF IInv, RequestsOK
<1>6. RequestsOK'
  BY <1>4, <1>5 DEF RequestsOK
<1> QED
  BY <1>3, <1>6

\* One handler moves while the elections stay as they are.
LEMMA MoveOK ==
  ASSUME IInv, NEW r \in Requests, Moves(r), UNCHANGED <<masters, heard>>
  PROVE  RequestsOK'
<1>1. PICK h : Fine(h) /\ req' = [req EXCEPT ![r] = h]
  BY DEF Moves
<1>2. ASSUME NEW q \in Requests PROVE Fine(req[q])'
  <2>1. PICK g : g = req'[q] /\ (g = h \/ g = req[q])
    BY <1>1, HandlerType
  <2>2. Fine(g)
    BY <1>1, <2>1, HandlerType
  <2>3. Fine(g)'
    BY <2>2 DEF Fine, Justified, Grounded
  <2> QED
    BY <2>1, <2>3
<1>3. DOMAIN req' = Requests /\ req' = [q \in Requests |-> req'[q]]
  BY <1>1, HandlerType
<1> QED
  BY <1>2, <1>3 DEF RequestsOK

\* The steps of a request leave the cluster alone, but that a command may make
\* its sentinel take up a failover.
LEMMA RequestStepCluster ==
  ASSUME IInv, NEW r \in Requests,
         Handle(r) \/ RequestStep(r) \/ PostWebhook(r) \/ Cancel(r)
  PROVE  ClusterOK' /\ UNCHANGED <<masters, heard>>
<1>1. CASE UNCHANGED clusterVars
  BY <1>1 DEF clusterVars, IInv, ClusterOK, WithinBound, Running
<1>2. ASSUME Sending(r), Started(r)
      PROVE  ClusterOK' /\ UNCHANGED <<masters, heard>>
  <2>1. req[r].target \in Sentinels
    BY <1>2, HandlerType DEF Sending, At, Fine, Justified
  <2>2. r \in Causes
    BY DEF Causes
  <2> QED
    BY <1>2, <2>1, <2>2, TakeUpOK DEF Started
<1>3. CASE CommandAccepted(r)
  BY <1>2, <1>3 DEF CommandAccepted
<1>4. CASE CommandUnanswered(r)
  BY <1>1, <1>2, <1>4 DEF CommandUnanswered
<1>5. CASE ~CommandAccepted(r) /\ ~CommandUnanswered(r)
  <2>1. UNCHANGED clusterVars
    BY <1>5 DEF Handle, RequestStep, PostWebhook, Cancel, ResolveMaster, ResolveFails,
                ResolveReplicas, CheckQuorum, SelectReplica, PickSentinel, CommandRefused,
                PollFinds, PollAgain, PollGivesUp
  <2> QED
    BY <1>1, <2>1
<1> QED
  BY <1>3, <1>4, <1>5

LEMMA OthersTakeUpOK ==
  ASSUME IInv, NEW s \in Sentinels, SpontaneousFailover(s) \/ ChaosFailover(s)
  PROVE  ClusterOK' /\ UNCHANGED <<masters, heard, req>>
<1>1. "others" \in Causes
  BY DEF Causes
<1> QED
  BY <1>1, TakeUpOK DEF SpontaneousFailover, ChaosFailover

LEMMA NextIInv == IInv /\ [Next]_vars => IInv'
<1> SUFFICES ASSUME IInv, [Next]_vars PROVE ClusterOK' /\ RequestsOK'
  BY DEF IInv
<1>1. ASSUME NEW r \in Requests,
             Handle(r) \/ RequestStep(r) \/ PostWebhook(r) \/ Cancel(r)
      PROVE  ClusterOK' /\ RequestsOK'
  BY <1>1, RequestMoves, RequestStepCluster, MoveOK
<1>2. ASSUME UNCHANGED <<masters, heard, req>> PROVE RequestsOK'
  <2>1. ASSUME NEW r \in Requests PROVE Fine(req[r])'
    <3>1. Fine(req[r])
      BY HandlerType
    <3> QED
      BY <1>2, <3>1 DEF Fine, Justified, Grounded
  <2>2. DOMAIN req' = Requests /\ req' = [r \in Requests |-> req'[r]]
    BY <1>2 DEF IInv, RequestsOK
  <2> QED
    BY <2>1, <2>2 DEF RequestsOK
<1>3. ASSUME NEW s \in Sentinels, SpontaneousFailover(s) \/ ChaosFailover(s)
      PROVE  ClusterOK' /\ RequestsOK'
  BY <1>2, <1>3, OthersTakeUpOK
<1>4. ASSUME NEW s \in Sentinels, Elect(s) PROVE ClusterOK' /\ RequestsOK'
  BY <1>4, ElectOK
<1>5. ASSUME NEW s \in Sentinels, Abort(s) PROVE ClusterOK' /\ RequestsOK'
  BY <1>2, <1>5, AbortOK DEF Abort
<1>6. ASSUME NEW s \in Sentinels, Hear(s) PROVE ClusterOK' /\ RequestsOK'
  BY <1>6, HearOK
<1>7. CASE UNCHANGED vars
  BY <1>2, <1>7 DEF vars, clusterVars, IInv, ClusterOK, WithinBound, Running
<1> QED
  BY <1>1, <1>3, <1>4, <1>5, <1>6, <1>7, NextCases

LEMMA InitIInv == Init => IInv
<1> SUFFICES ASSUME Init PROVE IInv
  OBVIOUS
<1>1. PICK n \in Nodes : masters = <<n>>
  BY DEF Init
<1>2. masters \in Seq(Nodes) /\ Len(masters) = 1
  BY <1>1
<1>3. Running = {} /\ Cardinality(Running) = 0
  BY FS_EmptySet DEF Init, Running
<1>4. ClusterOK
  BY <1>2, <1>3, MaxElectionsAssumption DEF Init, ClusterOK, WithinBound, Elections, Causes
<1>5. NewHandler \in Handlers
  BY SendsAssumption, WaitAssumption DEF NewHandler, Handlers, NoAnswer, Answers
<1>6. Justified(NewHandler)
  BY DEF Justified, NewHandler
<1>7. Grounded(NewHandler)
  BY SentinelsAssumption DEF Grounded, NewHandler, NoAnswer
<1>8. RequestsOK
  BY <1>5, <1>6, <1>7 DEF Init, RequestsOK, Fine
<1> QED
  BY <1>4, <1>8 DEF IInv

LEMMA InvariantHolds == Spec => []IInv
BY InitIInv, NextIInv, PTL DEF Spec

\* The elections, the sentinels' views and the handlers have their types, and
\* no more masters are elected than failovers were taken up.
THEOREM TypeCorrect == Spec => []TypeOK
BY InvariantHolds, IInvImplies, PTL

\* Whatever else goes on, no sentinel takes up a failover for a request that is a
\* dry run, that saw no quorum or that had no replica to select, nor more often
\* than the request sent the command.
THEOREM CommandsAreJustified == Spec => []CommandIsJustified
BY InvariantHolds, IInvImplies, PTL

\* Whatever the sentinels know and however late: a reported switch is between two
\* masters that were elected, and in their order as far as one sentinel can tell.
THEOREM SwitchesAreReal == Spec => []SwitchIsReal
BY InvariantHolds, IInvImplies, PTL
=============================================================================
