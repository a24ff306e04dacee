------------------------------ MODULE Failover ------------------------------
(***************************************************************************)
(* POST /ops/failover: the handler TriggerFailover, the operation Failover *)
(* of internal/operations/failover.go, the address lookup it makes through *)
(* internal/sentinel/topology.go, its webhook (notify.go), and beside them *)
(* POST /ops/chaos/failover in mode "sentinel".                            *)
(*                                                                         *)
(* Requests run concurrently and nothing orders them.  The sentinels       *)
(* (external) elect masters by themselves, at any time, and learn of each  *)
(* other's elections late: every query returns what the sentinel that      *)
(* answered it has heard.  Any call may fail, and a command may take effect *)
(* although its reply is lost.                                             *)
(***************************************************************************)
EXTENDS Naturals, Sequences, FiniteSets

CONSTANTS
  Nodes,         \* the Redis nodes
  Sentinels,     \* cfg.SentinelAddrs
  Requests,      \* requests to POST /ops/failover
  Unknown,       \* no node, no sentinel, no lag
  Lags,          \* bound: the lags a replica may be measured with
  MaxSends,      \* times the client sends a command it gets no answer to (4)
  WaitTicks,     \* failoverWaitTimeout in poll intervals (45 in the code)
  MaxElections   \* bound: elections after the first master

ASSUME NodesAssumption == Nodes # {} /\ Unknown \notin Nodes
ASSUME SentinelsAssumption == IsFiniteSet(Sentinels) /\ Unknown \notin Sentinels
ASSUME LagsAssumption == Lags \subseteq Nat /\ Unknown \notin Lags
ASSUME SendsAssumption == MaxSends \in Nat \ {0}
ASSUME WaitAssumption == WaitTicks \in Nat
ASSUME MaxElectionsAssumption == MaxElections \in Nat

VARIABLES
  masters,   \* the masters elected so far, the current one last
  heard,     \* heard[s]: how many of them sentinel s has heard of
  leading,   \* leading[s]: for whom s is running a failover, or "nobody"
  req        \* req[r]: the handler of request r

clusterVars == <<masters, heard, leading>>
vars == <<clusterVars, req>>

Current == masters[Len(masters)]

\* Who a failover may run for: a request, somebody else, or nobody.
Causes == Requests \cup {"others", "nobody"}

Elections == 1..(MaxElections + 1)

\* An address a query returned: the sentinel that answered and the election it
\* had heard of last.
Answers == [by : Sentinels \cup {Unknown}, election : Elections \cup {0}]
NoAnswer == [by |-> Unknown, election |-> 0]
AnswerOf(s) == [by |-> s, election |-> heard[s]]

Handlers ==
  [pc : {"start", "master", "replicas", "quorum", "lag", "ping", "command", "poll", "end"},
   dryRun    : BOOLEAN,
   cancelled : BOOLEAN,                   \* the request's context is cancelled
   old       : Nodes \cup {Unknown},      \* result.OldMaster
   oldFrom   : Answers,                   \* history: where old was read
   replicas  : SUBSET Nodes,              \* addrs.Replicas
   quorum    : BOOLEAN,                   \* quorumOK
   selected  : Nodes \cup {Unknown},      \* result.SelectedReplica
   target    : Sentinels \cup {Unknown},  \* sentinelAddr
   sends     : 0..MaxSends,               \* SENTINEL FAILOVERs sent
   started   : 0..MaxSends,               \* history: those a sentinel took up
   left      : 0..WaitTicks,              \* poll intervals to the deadline
   new       : Nodes \cup {Unknown},      \* result.NewMaster
   newFrom   : Answers,                   \* history: where new was read
   status    : {"none", "bad_request", "unresolved", "failed", "preview", "switched"},
   webhook   : {"none", "posting", "finished"}]

TypeOK ==
  /\ masters \in Seq(Nodes)
  /\ Len(masters) \in Elections
  /\ heard \in [Sentinels -> Elections]
  /\ \A s \in Sentinels : heard[s] <= Len(masters)
  /\ leading \in [Sentinels -> Causes]
  /\ req \in [Requests -> Handlers]

NewHandler ==
  [pc |-> "start", dryRun |-> FALSE, cancelled |-> FALSE, old |-> Unknown,
   oldFrom |-> NoAnswer, replicas |-> {}, quorum |-> FALSE, selected |-> Unknown,
   target |-> Unknown, sends |-> 0, started |-> 0, left |-> 0, new |-> Unknown, newFrom |-> NoAnswer,
   status |-> "none", webhook |-> "none"]

Init ==
  /\ \E n \in Nodes : masters = <<n>>
  /\ heard = [s \in Sentinels |-> 1]
  /\ leading = [s \in Sentinels |-> "nobody"]
  /\ req = [r \in Requests |-> NewHandler]

-----------------------------------------------------------------------------
(* The sentinels (external).                                               *)

\* Elections held and failovers running stay within the bound.
RoomForElection ==
  Len(masters) + Cardinality({s \in Sentinels : leading[s] # "nobody"}) <= MaxElections

\* Sentinel s takes up a failover, unless it is running one.
TakeUp(s, cause) ==
  /\ leading[s] = "nobody"
  /\ RoomForElection
  /\ leading' = [leading EXCEPT ![s] = cause]

\* Sentinels that agree the master is down start a failover by themselves.
SpontaneousFailover(s) ==
  /\ TakeUp(s, "others")
  /\ UNCHANGED <<masters, heard, req>>

\* The failover s runs promotes a replica of the sentinel's own choice.
Elect(s) ==
  /\ leading[s] # "nobody"
  /\ \E n \in Nodes \ {Current} : masters' = Append(masters, n)
  /\ heard' = [heard EXCEPT ![s] = Len(masters) + 1]
  /\ leading' = [leading EXCEPT ![s] = "nobody"]
  /\ UNCHANGED req

\* The failover s runs is given up.
Abort(s) ==
  /\ leading[s] # "nobody"
  /\ leading' = [leading EXCEPT ![s] = "nobody"]
  /\ UNCHANGED <<masters, heard, req>>

\* s hears of the newest election.
Hear(s) ==
  /\ heard[s] < Len(masters)
  /\ heard' = [heard EXCEPT ![s] = Len(masters)]
  /\ UNCHANGED <<masters, leading, req>>

-----------------------------------------------------------------------------
(* One request.                                                            *)

At(r, step) == req[r].pc = step
Alive(r) == ~req[r].cancelled

\* The handler goes on to another step.
GoTo(r, step) == req' = [req EXCEPT ![r].pc = step]

\* The handler returns, with this answer.
Return(r, answer) == req' = [req EXCEPT ![r].pc = "end", ![r].status = answer]

\* TriggerFailover: confirm is required unless dry_run is set.
Handle(r) ==
  /\ At(r, "start")
  /\ \E dryRun, confirm \in BOOLEAN :
       IF dryRun \/ confirm
         THEN req' = [req EXCEPT ![r].pc = "master", ![r].dryRun = dryRun]
         ELSE Return(r, "bad_request")
  /\ UNCHANGED clusterVars

\* GetNodeAddresses, first query: the first sentinel that answers PING names
\* the master.
ResolveMaster(r) ==
  /\ At(r, "master")
  /\ Alive(r)
  /\ \E s \in Sentinels :
       req' = [req EXCEPT ![r].pc = "replicas", ![r].old = masters[heard[s]],
                          ![r].oldFrom = AnswerOf(s)]
  /\ UNCHANGED clusterVars

\* No sentinel answers, or the one that does names no master: there is no result.
ResolveFails(r) ==
  /\ At(r, "master")
  /\ Return(r, "unresolved")
  /\ UNCHANGED clusterVars

\* GetNodeAddresses, second query to the same sentinel: the replicas of the
\* master it knows now.  If the query fails there are none.
ResolveReplicas(r) ==
  /\ At(r, "replicas")
  /\ \/ /\ Alive(r)
        /\ req' = [req EXCEPT ![r].pc = "quorum",
                     ![r].replicas = Nodes \ {masters[heard[req[r].oldFrom.by]]}]
     \/ GoTo(r, "quorum")
  /\ UNCHANGED clusterVars

\* Wrong variant: a failed quorum check is only noted, as a high lag is.
CheckQuorumLeniently(r) ==
  /\ At(r, "quorum")
  /\ \E ok \in BOOLEAN : req' = [req EXCEPT ![r].pc = "lag", ![r].quorum = ok]
  /\ UNCHANGED clusterVars

\* CKQUORUM goes to the sentinels in turn until one answers OK.
CheckQuorum(r) ==
  /\ At(r, "quorum")
  /\ \/ /\ Alive(r)
        /\ req' = [req EXCEPT ![r].pc = "lag", ![r].quorum = TRUE]
     \/ Return(r, "failed")
  /\ UNCHANGED clusterVars

\* The replicas with the least of the measured lags.
Best(lag) == {n \in DOMAIN lag : \A m \in DOMAIN lag : lag[n] <= lag[m]}

\* What the lag loop can find out: of some of the replicas a lag, which is never
\* negative; the offsets of the others could not be read.
Measurements(replicas) == UNION {[measured -> Lags] : measured \in SUBSET replicas}

\* The lags that can be measured are; a lag above the threshold is only noted.
\* The best replica is selected, and a dry run ends here.
SelectReplica(r) ==
  /\ At(r, "lag")
  /\ \/ Return(r, "failed")  \* no lag could be measured
     \/ /\ Alive(r)
        /\ \E lag \in Measurements(req[r].replicas) :
             \E best \in Best(lag) :
               req' = [req EXCEPT ![r].selected = best,
                         ![r].pc = IF req[r].dryRun THEN "end" ELSE "ping",
                         ![r].status = IF req[r].dryRun THEN "preview" ELSE @]
  /\ UNCHANGED clusterVars

\* reachableSentinelAddr: the first sentinel that answers PING, if any.
PickSentinel(r) ==
  /\ At(r, "ping")
  /\ \/ /\ Alive(r)
        /\ \E s \in Sentinels :
             req' = [req EXCEPT ![r].pc = "command", ![r].target = s]
     \/ Return(r, "failed")
  /\ UNCHANGED clusterVars

\* A SENTINEL FAILOVER is sent and the sentinel takes the failover up, or not.
Sending(r) == At(r, "command") /\ Alive(r)
Started(r) == TakeUp(req[r].target, r) /\ UNCHANGED <<masters, heard>>

\* It is taken up and the sentinel says so.
CommandAccepted(r) ==
  /\ Sending(r)
  /\ Started(r)
  /\ req' = [req EXCEPT ![r].pc = "poll", ![r].left = WaitTicks,
                        ![r].sends = @ + 1, ![r].started = @ + 1]

\* It is refused (INPROG, NOGOODSLAVE), or the context does not let it out.
CommandRefused(r) ==
  /\ At(r, "command")
  /\ Return(r, "failed")
  /\ UNCHANGED clusterVars

\* No answer comes within the read timeout, whether it was taken up or not: the
\* client (external: go-redis with its default MaxRetries) sends it again to
\* the same sentinel, or gives up when its retries or the five seconds are used
\* up.
CommandUnanswered(r) ==
  /\ Sending(r)
  /\ \E again, taken \in BOOLEAN :
       /\ again => req[r].sends + 1 < MaxSends
       /\ IF taken THEN Started(r) ELSE UNCHANGED clusterVars
       /\ req' = [req EXCEPT
                    ![r].pc = IF again THEN "command" ELSE "end",
                    ![r].status = IF again THEN @ ELSE "failed",
                    ![r].sends = @ + 1,
                    ![r].started = IF taken THEN @ + 1 ELSE @]

Polling(r) == At(r, "poll") /\ req[r].left > 0 /\ Alive(r)

\* Wrong variant: any master a sentinel names ends the wait.
PollFindsAny(r) ==
  /\ Polling(r)
  /\ \E s \in Sentinels :
       req' = [req EXCEPT ![r].pc = "end", ![r].status = "switched",
                 ![r].new = masters[heard[s]], ![r].newFrom = AnswerOf(s),
                 ![r].webhook = "posting"]
  /\ UNCHANGED clusterVars

\* waitForNewMaster: a sentinel names a master that is not the old one, and the
\* webhook's goroutine is started.
PollFinds(r) ==
  /\ Polling(r)
  /\ \E s \in Sentinels :
       /\ masters[heard[s]] # req[r].old
       /\ req' = [req EXCEPT ![r].pc = "end", ![r].status = "switched",
                    ![r].new = masters[heard[s]], ![r].newFrom = AnswerOf(s),
                    ![r].webhook = "posting"]
  /\ UNCHANGED clusterVars

\* Wrong variant: a query that failed starts the wait anew.
PollAgainAnew(r) ==
  /\ Polling(r)
  /\ \E left \in (0..(req[r].left - 1)) \cup {WaitTicks} :
       req' = [req EXCEPT ![r].left = left]
  /\ UNCHANGED clusterVars

\* Wrong variant: every sleep moves the deadline.
PollAgainLater(r) ==
  /\ Polling(r)
  /\ req' = [req EXCEPT ![r].left = @ + 1]
  /\ UNCHANGED clusterVars

\* The query fails or names the old master: sleep.  A slow query uses up more
\* than one interval.
PollAgain(r) ==
  /\ Polling(r)
  /\ \E left \in 0..(req[r].left - 1) : req' = [req EXCEPT ![r].left = left]
  /\ UNCHANGED clusterVars

\* The deadline has passed, or the context is cancelled.
PollGivesUp(r) ==
  /\ At(r, "poll")
  /\ req[r].left = 0 \/ ~Alive(r)
  /\ Return(r, "failed")
  /\ UNCHANGED clusterVars

\* notifyFailover's goroutine: the POST succeeds, or its error is logged.
PostWebhook(r) ==
  /\ req[r].webhook = "posting"
  /\ req' = [req EXCEPT ![r].webhook = "finished"]
  /\ UNCHANGED clusterVars

\* The client of the request goes away.
Cancel(r) ==
  /\ ~At(r, "start") /\ ~At(r, "end")
  /\ Alive(r)
  /\ req' = [req EXCEPT ![r].cancelled = TRUE]
  /\ UNCHANGED clusterVars

\* POST /ops/chaos/failover in mode "sentinel": the command without any check.
ChaosFailover(s) ==
  /\ TakeUp(s, "others")
  /\ UNCHANGED <<masters, heard, req>>

-----------------------------------------------------------------------------
RequestStep(r) ==
  \/ ResolveMaster(r) \/ ResolveFails(r) \/ ResolveReplicas(r)
  \/ CheckQuorum(r) \/ SelectReplica(r) \/ PickSentinel(r)
  \/ CommandAccepted(r) \/ CommandRefused(r) \/ CommandUnanswered(r)
  \/ PollFinds(r) \/ PollAgain(r) \/ PollGivesUp(r)

SentinelStep(s) == SpontaneousFailover(s) \/ Elect(s) \/ Abort(s) \/ Hear(s)

\* Every request is answered and no sentinel runs a failover.
Quiescent ==
  /\ \A r \in Requests : At(r, "end") /\ req[r].webhook # "posting"
  /\ \A s \in Sentinels : leading[s] = "nobody"
  /\ UNCHANGED vars

Next ==
  \/ \E r \in Requests : Handle(r) \/ RequestStep(r) \/ PostWebhook(r) \/ Cancel(r)
  \/ \E s \in Sentinels : SentinelStep(s) \/ ChaosFailover(s)
  \/ Quiescent

\* A handler that runs goes on: every call it makes ends, by a reply or by its
\* timeout, and every sleep ends.  Nothing is assumed of the sentinels.
Fairness == \A r \in Requests : WF_vars(RequestStep(r))

Spec == Init /\ [][Next]_vars /\ Fairness

-----------------------------------------------------------------------------
(* Safety                                                                  *)

\* Sentinels take up a failover for a request, at most as often as the client
\* sends the command, only if the request is not a dry run, was told that the
\* quorum is there, and had a replica whose lag it measured.
CommandIsJustified ==
  \A r \in Requests :
    req[r].started > 0 => /\ req[r].started <= req[r].sends
                          /\ ~req[r].dryRun
                          /\ req[r].quorum
                          /\ req[r].selected \in req[r].replicas

\* A switch is reported only by a request whose command was taken up, and names
\* two different nodes that sentinels took for the master; if the same sentinel
\* named both, the new master was elected after the old one.
SwitchIsReal ==
  \A r \in Requests :
    req[r].status = "switched" =>
      LET was == req[r].oldFrom
          is  == req[r].newFrom
      IN  /\ req[r].started > 0
          /\ req[r].old # req[r].new
          /\ req[r].old = masters[was.election]
          /\ req[r].new = masters[is.election]
          /\ was.by = is.by => was.election < is.election

(* Liveness                                                                *)

\* A request that was accepted is answered, although no sentinel ever answers,
\* no master is ever elected, or none stays long enough to be seen.
RequestEnds == \A r \in Requests : ~At(r, "start") ~> At(r, "end")
=============================================================================
