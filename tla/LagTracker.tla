----------------------------- MODULE LagTracker -----------------------------
(***************************************************************************)
(* The replication lag of internal/replication/tracker.go, measured by     *)
(* requests for GET /replication/lag and by the metrics exporter's loop    *)
(* (internal/metrics/exporter.go), which share a ring of samples for each  *)
(* replica; and the gauges the exporter sets.                              *)
(*                                                                         *)
(* External: the master writes, the replicas follow, another node may be   *)
(* elected.  Any call may fail or run into its timeout.                    *)
(***************************************************************************)
EXTENDS Naturals, Sequences, FiniteSets

CONSTANTS
  Nodes,       \* the Redis nodes
  NoNode,      \* no address has been read
  Requests,    \* requests for the lag
  Exporter,    \* the exporter's goroutine
  RingSize,    \* lagRingSize
  MaxOffset,   \* bound: what the master writes
  MaxElections,   \* bound: elections
  MaxPolls        \* bound: polls of the exporter

ASSUME NoNodeAssumption == NoNode \notin Nodes
ASSUME ExporterAssumption == Exporter \notin Requests
ASSUME RingAssumption == RingSize \in Nat \ {0}
ASSUME BoundsAssumption == {MaxOffset, MaxElections, MaxPolls} \subseteq Nat

VARIABLES
  master,      \* the master
  former,      \* the master before the last election
  offset,      \* offset[n]: how far node n is in the replication stream
  elections,   \* how many there have been
  samples,     \* ReplicationService.samples: the ring of a replica
  taken,       \* history: how many samples of a replica were recorded
  caller,      \* the requests and the exporter
  polls,       \* polls the exporter has begun
  gauges       \* what the exporter shows

cluster == <<master, former, offset, elections>>
rings == <<samples, taken>>
vars == <<cluster, rings, caller, polls, gauges>>

Callers == Requests \cup {Exporter}
Offsets == 0..MaxOffset

\* LagSample: its time is taken under the lock, and what it tells is the order of the
\* samples of a replica.  no is that order.
Samples == [lag : Offsets, no : Nat]

\* ReplicaLag, and the number of the sample it was recorded as (history).
Lags == [lag : Offsets, trend : Seq(Samples), no : Nat]

IsCaller(c) ==
  /\ c.pc \in {"idle", "addresses", "master", "replicas", "record", "trend", "gauges", "done"}
  /\ c.listed \subseteq Nodes             \* addrs.Replicas
  /\ c.left \subseteq c.listed            \* those not asked yet; the gauges not set yet
  /\ c.master \in Nodes \cup {NoNode}     \* addrs.Master
  /\ c.masterOffset \in Offsets
  /\ c.replica \in Nodes \cup {NoNode}    \* the one being measured
  /\ c.lag \in Offsets
  /\ c.no \in Nat
  /\ DOMAIN c.all \subseteq Nodes         \* what is returned
  /\ \A r \in DOMAIN c.all : c.all[r] \in Lags
  /\ c.errs \in BOOLEAN                   \* a replica failed
  /\ c.status \in {"none", "ok", "error"}
  /\ c.steady \in BOOLEAN      \* history: the addresses were right and still are

TypeOK ==
  /\ {master, former} \subseteq Nodes
  /\ offset \in [Nodes -> Offsets]
  /\ elections \in 0..MaxElections
  /\ samples \in [Nodes -> Seq(Samples)]
  /\ \A n \in Nodes : Len(samples[n]) <= RingSize
  /\ taken \in [Nodes -> Nat]
  /\ DOMAIN caller = Callers
  /\ \A c \in Callers : IsCaller(caller[c])
  /\ polls \in 0..MaxPolls
  /\ DOMAIN gauges.lag \subseteq Nodes    \* redis_replication_lag_bytes
  /\ \A n \in DOMAIN gauges.lag : gauges.lag[n] \in [lag : Offsets, poll : Nat]
  /\ gauges.listed \subseteq Nodes        \* history: the replicas of the last poll that set all

Idle ==
  [pc |-> "idle", master |-> NoNode, listed |-> {}, left |-> {},
   masterOffset |-> 0, replica |-> NoNode, lag |-> 0, no |-> 0, all |-> <<>>, errs |-> FALSE,
   status |-> "none", steady |-> FALSE]

Init ==
  /\ master \in Nodes
  /\ former = master
  /\ offset = [n \in Nodes |-> 0]
  /\ elections = 0
  /\ samples = [n \in Nodes |-> <<>>]
  /\ taken = [n \in Nodes |-> 0]
  /\ caller = [c \in Callers |-> Idle]
  /\ polls = 0
  /\ gauges = [lag |-> <<>>, listed |-> {}]

-----------------------------------------------------------------------------
(* The cluster (external).                                                 *)

Write ==
  /\ offset[master] < MaxOffset
  /\ offset' = [offset EXCEPT ![master] = @ + 1]
  /\ UNCHANGED <<master, former, elections, rings, caller, polls, gauges>>

Replicate(r) ==
  /\ offset[r] < offset[master]
  /\ offset' = [offset EXCEPT ![r] = @ + 1]
  /\ UNCHANGED <<master, former, elections, rings, caller, polls, gauges>>

\* The others follow the new master from where it is.
Elect(n) ==
  /\ n # master
  /\ elections < MaxElections
  /\ elections' = elections + 1
  /\ master' = n
  /\ former' = master
  /\ offset' = [m \in Nodes |-> IF offset[m] > offset[n] THEN offset[n] ELSE offset[m]]
  /\ caller' = [c \in Callers |-> [caller[c] EXCEPT !.steady = FALSE]]
  /\ UNCHANGED <<rings, polls, gauges>>

-----------------------------------------------------------------------------
(* GetReplicationLag.                                                      *)

Goes(c, new) == caller' = [caller EXCEPT ![c] = new]

\* The ticker's channel holds one tick, so a poll follows at once on one that took long.
Poll ==
  /\ caller[Exporter].pc = "idle"
  /\ polls < MaxPolls
  /\ polls' = polls + 1
  /\ Goes(Exporter, [caller[Exporter] EXCEPT !.pc = "addresses"])
  /\ UNCHANGED <<cluster, rings, gauges>>

Request(c) ==
  /\ c \in Requests
  /\ caller[c].pc = "idle"
  /\ Goes(c, [caller[c] EXCEPT !.pc = "addresses"])
  /\ UNCHANGED <<cluster, rings, polls, gauges>>

\* GetNodeAddresses: the sentinel that answers may be behind, and there may be an election
\* between its two queries; a list of replicas that cannot be had is empty.
Resolve(c) ==
  /\ caller[c].pc = "addresses"
  /\ \E m, n \in {master, former} : \E rs \in {{}, Nodes \ {n}} :
       /\ m = master => n = master
       /\ Goes(c, [caller[c] EXCEPT !.pc = "master", !.master = m, !.listed = rs,
                                    !.steady = (m = master /\ master \notin rs)])
  /\ UNCHANGED <<cluster, rings, polls, gauges>>

\* master_repl_offset, which a replica reports too.
ReadMasterOffset(c) ==
  /\ caller[c].pc = "master"
  /\ Goes(c, [caller[c] EXCEPT !.pc = "replicas", !.masterOffset = offset[caller[c].master],
                               !.left = caller[c].listed])
  /\ UNCHANGED <<cluster, rings, polls, gauges>>

\* A request ends with its status, the answer sent; the exporter waits for the next tick.
Ended(c, status) ==
  IF c = Exporter THEN Idle ELSE [Idle EXCEPT !.pc = "done", !.status = status]

\* No sentinel answers, or the master does not.
NoLag(c) ==
  /\ caller[c].pc \in {"addresses", "master"}
  /\ Goes(c, Ended(c, "error"))
  /\ UNCHANGED <<cluster, rings, polls, gauges>>

\* slave_repl_offset: a master reports none, which is read as zero.
ReplicaOffset(r) == IF r = master THEN 0 ELSE offset[r]

\* Wrong variant: a replica that is ahead of what was read of the master lags.
LagEitherWay(masterOffset, replicaOffset) ==
  IF masterOffset > replicaOffset THEN masterOffset - replicaOffset
                                  ELSE replicaOffset - masterOffset

LagBytes(masterOffset, replicaOffset) ==
  IF masterOffset > replicaOffset THEN masterOffset - replicaOffset ELSE 0

Measure(c) ==
  /\ caller[c].pc = "replicas"
  /\ \E r \in caller[c].left :
       Goes(c, [caller[c] EXCEPT !.pc = "record", !.left = @ \ {r}, !.replica = r,
                                 !.lag = LagBytes(caller[c].masterOffset, ReplicaOffset(r))])
  /\ UNCHANGED <<cluster, rings, polls, gauges>>

MeasureFails(c) ==
  /\ caller[c].pc = "replicas"
  /\ \E r \in caller[c].left :
       Goes(c, [caller[c] EXCEPT !.left = @ \ {r}, !.errs = TRUE])
  /\ UNCHANGED <<cluster, rings, polls, gauges>>

\* Wrong variant: a ring that is full is trimmed at the wrong end.
AppendTrimmedEnd(ring, sample) ==
  IF Len(ring) = RingSize THEN ring ELSE Append(ring, sample)

\* The ring drops its oldest sample when it is full.
AppendTrimmed(ring, sample) ==
  LET longer == Append(ring, sample) IN
  IF Len(longer) > RingSize
    THEN SubSeq(longer, Len(longer) - RingSize + 1, Len(longer))
    ELSE longer

RecordSample(c) ==
  LET r == caller[c].replica
      no == taken[r] + 1 IN
  /\ caller[c].pc = "record"
  /\ samples' = [samples EXCEPT ![r] =
                   AppendTrimmed(@, [lag |-> caller[c].lag, no |-> no])]
  /\ taken' = [taken EXCEPT ![r] = no]
  /\ Goes(c, [caller[c] EXCEPT !.pc = "trend", !.no = no])
  /\ UNCHANGED <<cluster, polls, gauges>>

\* Another caller may have recorded since.
GetTrend(c) ==
  LET r == caller[c].replica IN
  /\ caller[c].pc = "trend"
  /\ Goes(c, [caller[c] EXCEPT
       !.pc = "replicas", !.replica = NoNode, !.lag = 0, !.no = 0,
       !.all = [q \in DOMAIN @ \cup {r} |->
                  IF q = r THEN [lag |-> caller[c].lag, trend |-> samples[r], no |-> caller[c].no]
                           ELSE @[q]]])
  /\ UNCHANGED <<cluster, rings, polls, gauges>>

\* The handler shows an error only if there is nothing else to show.
Answer(c) ==
  /\ c \in Requests
  /\ caller[c].pc = "replicas"
  /\ caller[c].left = {}
  /\ Goes(c, Ended(c, IF caller[c].errs /\ DOMAIN caller[c].all = {} THEN "error" ELSE "ok"))
  /\ UNCHANGED <<cluster, rings, polls, gauges>>

\* Wrong variant: the exporter takes the lags it got beside an error.
TakeLagsOfSome ==
  LET c == caller[Exporter] IN
  /\ c.pc = "replicas"
  /\ c.left = {}
  /\ Goes(Exporter, [c EXCEPT !.pc = "gauges", !.left = DOMAIN c.all])
  /\ UNCHANGED <<cluster, rings, polls, gauges>>

\* The exporter uses the lags only if no replica failed.
TakeLags ==
  LET c == caller[Exporter] IN
  /\ c.pc = "replicas"
  /\ c.left = {}
  /\ Goes(Exporter, IF c.errs THEN Ended(Exporter, "ok")
                              ELSE [c EXCEPT !.pc = "gauges", !.left = DOMAIN c.all])
  /\ UNCHANGED <<cluster, rings, polls, gauges>>

\* The gauges show n's lag in c.all as of this poll.
WithGauge(c, n) ==
  [m \in DOMAIN gauges.lag \cup {n} |->
     IF m = n THEN [lag |-> c.all[n].lag, poll |-> polls] ELSE gauges.lag[m]]

\* One gauge after another, which a scrape may read at any time.  Its promotion score is set
\* beside it and follows from the lag.
SetLagGauge ==
  LET c == caller[Exporter] IN
  /\ c.pc = "gauges"
  /\ \E n \in c.left :
       /\ gauges' = [gauges EXCEPT !.lag = WithGauge(c, n)]
       /\ Goes(Exporter, [c EXCEPT !.left = @ \ {n}])
  /\ UNCHANGED <<cluster, rings, polls>>

\* No gauge is ever removed.  The poll's last part, each node's memory, is left out.
GaugesSet ==
  LET c == caller[Exporter] IN
  /\ c.pc = "gauges"
  /\ c.left = {}
  /\ gauges' = [gauges EXCEPT !.listed = c.listed]
  /\ Goes(Exporter, Ended(Exporter, "ok"))
  /\ UNCHANGED <<cluster, rings, polls>>

Lag(c) ==
  \/ Resolve(c) \/ ReadMasterOffset(c) \/ NoLag(c)
  \/ Measure(c) \/ MeasureFails(c) \/ RecordSample(c) \/ GetTrend(c)

\* The requests are answered and the polls used up.
Quiescent ==
  /\ \A c \in Requests : caller[c].pc = "done"
  /\ caller[Exporter].pc = "idle" /\ polls = MaxPolls
  /\ UNCHANGED vars

Next ==
  \/ Write \/ \E n \in Nodes : Replicate(n) \/ Elect(n)
  \/ Poll \/ TakeLags \/ SetLagGauge \/ GaugesSet
  \/ \E c \in Callers : Request(c) \/ Lag(c) \/ Answer(c)
  \/ Quiescent

Spec == Init /\ [][Next]_vars

-----------------------------------------------------------------------------
(* Properties.                                                             *)

\* A measured lag is at most what the replica is behind, and less only by what the master
\* has written since.
MeasuresNoMore ==
  \A c \in Callers :
    LET r == caller'[c].replica
        behind == offset[master] - offset[r] IN
    caller[c].pc = "replicas" /\ caller'[c].pc = "record" /\ caller[c].steady =>
      /\ caller'[c].lag <= behind
      /\ behind - caller'[c].lag <= offset[master] - caller[c].masterOffset

\* A replica is never shown further behind than it is, though the master writes and the
\* replica follows between the two reads, and it is shown less far behind only by what
\* the master has written since its offset was read.  With an election in between
\* nothing of the kind holds.
LagIsNotExaggerated == [][MeasuresNoMore]_vars

\* Whoever else records, the trend an answer shows is the latest samples of the replica
\* without a gap; its own sample is among them unless as many newer ones were recorded
\* as the ring holds.
TrendIsTheLatest ==
  \A c \in Callers : \A r \in DOMAIN caller[c].all :
    LET trend == caller[c].all[r].trend
        last == trend[Len(trend)].no
        own == caller[c].all[r].no IN
    /\ Len(trend) = IF last < RingSize THEN last ELSE RingSize
    /\ \A k \in 1..Len(trend) : trend[k].no = last - (Len(trend) - k)
    /\ own <= last
    /\ (\E k \in 1..Len(trend) : trend[k].no = own /\ trend[k].lag = caller[c].all[r].lag)
         \/ last >= own + RingSize

\* At any moment, though the gauges are set one by one while they are scraped: those of
\* the replicas listed last are of one poll, and all of them stay what they were if one
\* replica fails; only while the exporter sets them are there two polls, and then those
\* already set show what this poll found, the others one earlier poll.
LagGaugesOfOnePoll ==
  LET c == caller[Exporter]
      fresh == IF c.pc = "gauges" THEN c.listed \ c.left ELSE {}
      stale == gauges.listed \ fresh IN
  /\ fresh \cup stale \subseteq DOMAIN gauges.lag
  /\ \A r \in fresh : gauges.lag[r] = [lag |-> c.all[r].lag, poll |-> polls]
  /\ \A r, q \in stale : gauges.lag[r].poll = gauges.lag[q].poll
  /\ c.pc = "gauges" => \A r \in stale : gauges.lag[r].poll < polls

=============================================================================
