------------------------------ MODULE LifeCycle ------------------------------
(***************************************************************************)
(* The process, from the point where main has set up its services: main's  *)
(* wait for a signal or a server error and its shutdown (cmd/server,       *)
(* internal/api/server.go), requests that are open meanwhile, and the      *)
(* metrics exporter's goroutine (internal/metrics/exporter.go) with the    *)
(* topology it reads and the gauge of the quorum.                          *)
(*                                                                         *)
(* External: signals, clients, the port, and the sentinels.  net/http's    *)
(* Shutdown closes the listener, lets open requests end, and returns when  *)
(* none is left or its context is done.                                    *)
(***************************************************************************)
EXTENDS Naturals, FiniteSets

CONSTANTS
  HttpRequests,    \* HTTP requests, by their connections
  Deadline,    \* the ten seconds of the shutdown
  Sentinels    \* SentinelAddrs

ASSUME DeadlineAssumption == Deadline \in Nat

VARIABLES
  main,        \* what main does
  signalled,   \* ctx is done
  server,      \* the HTTP server
  failed,      \* serverErr holds an error
  request,     \* request[r]: how far request r has come
  drained,     \* how long Shutdown has been running
  exporter,    \* the exporter's goroutine
  gauge,       \* redis_sentinel_quorum_ok is 1
  quorum,      \* quorum[s]: what sentinel s would say to CKQUORUM
  seen         \* history: a sentinel had its quorum during the last poll that read a topology

process == <<main, signalled, server, failed, drained>>
metrics == <<exporter, gauge, seen>>
lifeVars == <<process, request, metrics, quorum>>

LifeTypeOK ==
  /\ main \in {"serving", "draining", "exited"}
  /\ signalled \in BOOLEAN /\ failed \in BOOLEAN /\ gauge \in BOOLEAN /\ seen \in BOOLEAN
  /\ server \in {"starting", "serving", "closed"}
  /\ request \in [HttpRequests -> {"none", "new", "active", "ended", "closed", "cut"}]
  /\ drained \in 0..Deadline
  /\ exporter \in [pc : {"select", "topology", "quorum", "rest", "stopped", "killed"},
                   unasked : SUBSET Sentinels,  \* CKQUORUM not sent to them yet
                   quorumOK : BOOLEAN,
                   hadQuorum : BOOLEAN]         \* history: a quorum during this poll
  /\ quorum \in [Sentinels -> BOOLEAN]

LifeInit ==
  /\ main = "serving"
  /\ signalled = FALSE
  /\ server = "starting"
  /\ failed = FALSE
  /\ request = [r \in HttpRequests |-> "none"]
  /\ drained = 0
  /\ exporter = [pc |-> "select", unasked |-> {}, quorumOK |-> FALSE, hadQuorum |-> FALSE]
  /\ gauge = FALSE
  /\ quorum \in [Sentinels -> BOOLEAN]
  /\ seen = FALSE

Up == main # "exited"

-----------------------------------------------------------------------------
(* main and the HTTP server.                                               *)

\* A second signal is taken and changes nothing.
Signal ==
  /\ Up /\ ~signalled
  /\ signalled' = TRUE
  /\ UNCHANGED <<main, server, failed, drained, request, metrics, quorum>>

\* A server that starts after the shutdown began is closed at once.
ServerStarts ==
  /\ Up /\ server = "starting"
  /\ server' = IF main = "draining" THEN "closed" ELSE "serving"
  /\ UNCHANGED <<main, signalled, failed, drained, request, metrics, quorum>>

\* The port is taken, or no connection can be accepted any more.
ServerFails ==
  /\ Up /\ server # "closed"
  /\ server' = "closed"
  /\ failed' = TRUE
  /\ UNCHANGED <<main, signalled, drained, request, metrics, quorum>>

\* The select in main: either is enough.
Shutdown ==
  /\ main = "serving"
  /\ signalled \/ failed
  /\ main' = "draining"
  /\ server' = IF server = "serving" THEN "closed" ELSE server
  /\ UNCHANGED <<signalled, failed, drained, request, metrics, quorum>>

Second ==
  /\ main = "draining"
  /\ drained < Deadline
  /\ drained' = drained + 1
  /\ UNCHANGED <<main, signalled, server, failed, request, metrics, quorum>>

Open == {r \in HttpRequests : request[r] \in {"new", "active"}}

\* Wrong variant: Shutdown is given no deadline.
DrainedIfNoneOpen == Open = {}

\* When Shutdown returns.
Drained == Open = {} \/ drained = Deadline

\* main returns: whatever runs is cut off, a poll and a stream alike.
Exit ==
  /\ main = "draining"
  /\ Drained
  /\ main' = "exited"
  /\ request' = [r \in HttpRequests |-> IF r \in Open THEN "cut" ELSE request[r]]
  /\ exporter' = [exporter EXCEPT !.pc = IF @ = "stopped" THEN @ ELSE "killed"]
  /\ UNCHANGED <<signalled, server, failed, drained, gauge, seen, quorum>>

-----------------------------------------------------------------------------
(* Requests.                                                               *)

Comes(r, from, to) ==
  /\ Up /\ request[r] = from
  /\ request' = [request EXCEPT ![r] = to]
  /\ UNCHANGED <<process, metrics, quorum>>

Connect(r) == server = "serving" /\ Comes(r, "none", "new")

\* A connection that was accepted in time is served, be it in the shutdown.
Begin(r) == Comes(r, "new", "active")

\* The shutdown closes a connection that sends no request.
CloseUnused(r) == main = "draining" /\ Comes(r, "new", "closed")

\* A request is answered, or its client leaves, which is the only end of a stream of
\* events.  Nothing connects its context with the signal.
End(r) == Comes(r, "active", "ended")

-----------------------------------------------------------------------------
(* The exporter.                                                           *)

Exports(new) ==
  /\ Up
  /\ exporter' = new
  /\ UNCHANGED <<process, request, quorum>>

SomeQuorum == \E s \in Sentinels : quorum[s]

BeginPoll ==
  /\ exporter.pc = "select"
  /\ Exports([exporter EXCEPT !.pc = "topology", !.hadQuorum = SomeQuorum])
  /\ UNCHANGED <<gauge, seen>>

Stop ==
  /\ exporter.pc = "select" /\ signalled
  /\ Exports([exporter EXCEPT !.pc = "stopped"])
  /\ UNCHANGED <<gauge, seen>>

\* No sentinel answers or it names no master; the gauge stays what it was.
TopologyFails ==
  /\ exporter.pc = "topology"
  /\ Exports([exporter EXCEPT !.pc = "rest"])
  /\ UNCHANGED <<gauge, seen>>

\* The nodes and the sentinels are listed, with whatever errors.
TopologyRead ==
  /\ exporter.pc = "topology"
  /\ Exports([exporter EXCEPT !.pc = "quorum", !.unasked = Sentinels, !.quorumOK = FALSE])
  /\ UNCHANGED <<gauge, seen>>

\* QuorumChecker.Check asks one sentinel after the other, here in any order, until one
\* says OK.  One that does not answer within what is left of the topology's five
\* seconds, or after the signal, counts as one that says no.
AskQuorum(s) ==
  /\ exporter.pc = "quorum"
  /\ s \in exporter.unasked /\ ~exporter.quorumOK
  /\ \E answers \in BOOLEAN :
       Exports([exporter EXCEPT !.unasked = @ \ {s}, !.quorumOK = answers /\ quorum[s]])
  /\ UNCHANGED <<gauge, seen>>

\* Wrong variant: the quorum is taken to be there when the topology could be read.
SetQuorumGaugeIfRead ==
  /\ exporter.pc = "quorum"
  /\ exporter.unasked = {} \/ exporter.quorumOK
  /\ gauge' = TRUE
  /\ seen' = exporter.hadQuorum
  /\ Exports([exporter EXCEPT !.pc = "rest", !.unasked = {}, !.quorumOK = FALSE])

SetQuorumGauge ==
  /\ exporter.pc = "quorum"
  /\ exporter.unasked = {} \/ exporter.quorumOK
  /\ gauge' = exporter.quorumOK
  /\ seen' = exporter.hadQuorum
  /\ Exports([exporter EXCEPT !.pc = "rest", !.unasked = {}, !.quorumOK = FALSE])

\* The lag (LagTracker) and the memory of the nodes, within ten seconds of the poll's
\* begin and cut short by the signal.
Rest ==
  /\ exporter.pc = "rest"
  /\ Exports([exporter EXCEPT !.pc = "select", !.hadQuorum = FALSE])
  /\ UNCHANGED <<gauge, seen>>

\* A sentinel sees its majority, or loses sight of it.
QuorumChanges(s) ==
  /\ Up
  /\ quorum' = [quorum EXCEPT ![s] = ~@]
  /\ exporter' = [exporter EXCEPT !.hadQuorum =
                    (@ \/ ~quorum[s]) /\ exporter.pc \in {"topology", "quorum"}]
  /\ UNCHANGED <<process, request, gauge, seen>>

-----------------------------------------------------------------------------
Exited == ~Up /\ UNCHANGED lifeVars

LifeNext ==
  \/ Signal \/ ServerStarts \/ ServerFails \/ Shutdown \/ Second \/ Exit
  \/ \E r \in HttpRequests : Connect(r) \/ Begin(r) \/ CloseUnused(r) \/ End(r)
  \/ BeginPoll \/ Stop \/ TopologyFails \/ TopologyRead \/ SetQuorumGauge \/ Rest
  \/ \E s \in Sentinels : AskQuorum(s)
  \/ \E s \in Sentinels : QuorumChanges(s)
  \/ Exited

\* main goes on and time passes.  Nothing is assumed of requests, clients, signals,
\* sentinels and the exporter.
LifeFairness == WF_lifeVars(Shutdown) /\ WF_lifeVars(Second) /\ WF_lifeVars(Exit)

LifeSpec == LifeInit /\ [][LifeNext]_lifeVars /\ LifeFairness

-----------------------------------------------------------------------------
(* Properties.                                                             *)

\* After a signal or a server that failed the process ends, though streams stay
\* open, requests hang and connections are opened until the last moment.
ShutdownEnds == signalled \/ failed ~> main = "exited"

\* The gauge shows a quorum only if a sentinel had it during the last poll that could
\* read a topology, however it changes while the sentinels are asked.
QuorumGaugeWasTrue == gauge => seen

=============================================================================
