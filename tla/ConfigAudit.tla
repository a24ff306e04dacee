---------------------------- MODULE ConfigAudit ----------------------------
(***************************************************************************)
(* POST /config/set: the handler SetConfig, the operation SetConfig and    *)
(* its fetchConfigKey (internal/operations/configdiff.go), and the audit   *)
(* log they write (audit.go), a slice trimmed to its last entries.         *)
(*                                                                         *)
(* Requests run concurrently: nothing is locked between reading the old    *)
(* value, CONFIG SET and the record.  The nodes (external) keep one value  *)
(* for each parameter; others change it too.  A parameter is one key of    *)
(* one node.                                                               *)
(***************************************************************************)
EXTENDS Naturals, Sequences

CONSTANTS
  Params,       \* pairs of a node and a configuration key
  Values,       \* what a parameter can be set to
  Unknown,      \* "<unknown>": the old value could not be read
  Empty,        \* "": the reply has no such key (perhaps also a value)
  Requests,     \* requests to POST /config/set
  auditRingMax  \* entries the log keeps (500)

ASSUME UnknownAssumption == Unknown \notin Values
ASSUME RingAssumption == auditRingMax \in Nat \ {0}

VARIABLES
  config,    \* config[c]: the value of c on its node
  entries,   \* auditLog.entries
  req,       \* req[r]: the handler of request r
  log        \* history: every entry ever recorded

vars == <<config, entries, req, log>>

Handlers ==
  [pc      : {"start", "get", "set", "record", "end"},
   param   : Params,
   value   : Values,
   oldVal  : Values \cup {Unknown, Empty},
   status  : {"none", "bad_request", "failed", "ok"},
   applied : BOOLEAN,                    \* history: a CONFIG SET took effect
   before  : Values \cup {Unknown},      \* history: the value it replaced
   held    : SUBSET Values]              \* history: the values param had from
                                         \* reading the old value to that

\* A log entry, with the request it is about.
Entry(r) == [req |-> r, param |-> req[r].param, old |-> req[r].oldVal, new |-> req[r].value]

Entries == [req : Requests, param : Params, old : Values \cup {Unknown, Empty}, new : Values]

TypeOK ==
  /\ config \in [Params -> Values]
  /\ entries \in Seq(Entries)
  /\ Len(entries) <= auditRingMax
  /\ req \in [Requests -> Handlers]
  /\ log \in Seq(Entries)

NewHandler(c, v) ==
  [pc |-> "start", param |-> c, value |-> v, oldVal |-> Unknown, status |-> "none",
   applied |-> FALSE, before |-> Unknown, held |-> {}]

Init ==
  /\ config \in [Params -> Values]
  /\ entries = << >>
  /\ \E c \in [Requests -> Params], v \in [Requests -> Values] :
       req = [r \in Requests |-> NewHandler(c[r], v[r])]
  /\ log = << >>

-----------------------------------------------------------------------------
At(r, step) == req[r].pc = step

\* The handler binds the body; without confirm, or without a node and a key, it
\* answers 400.
Handle(r) ==
  /\ At(r, "start")
  /\ \/ req' = [req EXCEPT ![r].pc = "get"]
     \/ req' = [req EXCEPT ![r].pc = "end", ![r].status = "bad_request"]
  /\ UNCHANGED <<config, entries, log>>

\* Wrong variant: the old value is taken to be the one asked for.
GetOldFromRequest(r) ==
  /\ At(r, "get")
  /\ req' = [req EXCEPT ![r].pc = "set", ![r].oldVal = req[r].value,
                        ![r].held = {config[req[r].param]}]
  /\ UNCHANGED <<config, entries, log>>

\* fetchConfigKey: the value of c now; "" if the node does not have the key, whose CONFIG
\* SET it will refuse, or spells it in another way; "<unknown>" if CONFIG GET fails.
OldValues(c) == {config[c], Empty, Unknown}

GetOld(r) ==
  LET c == req[r].param
  IN  /\ At(r, "get")
      /\ \E v \in OldValues(c) :
           req' = [req EXCEPT ![r].pc = "set", ![r].oldVal = v, ![r].held = {config[c]}]
      /\ UNCHANGED <<config, entries, log>>

\* The requests that have read the old value of c and not replaced it yet.
Overtaken(c) == {q \in Requests : req[q].param = c /\ At(q, "set") /\ ~req[q].applied}

\* c is set to v, which the overtaken requests do not see (history).
Overtake(handlers, overtaken, v) ==
  [q \in Requests |-> IF q \in overtaken THEN [handlers[q] EXCEPT !.held = @ \cup {v}]
                                         ELSE handlers[q]]

\* Handler r after its CONFIG SET took effect.
Applied(r, step, status) ==
  [req[r] EXCEPT !.pc = step, !.status = status, !.applied = TRUE,
                 !.before = IF req[r].applied THEN @ ELSE config[req[r].param]]

\* The node applies r's CONFIG SET, and r goes on.
Apply(r, step, status) ==
  LET c == req[r].param
  IN  /\ config' = [config EXCEPT ![c] = req[r].value]
      /\ req' = Overtake([req EXCEPT ![r] = Applied(r, step, status)],
                         Overtaken(c) \ {r}, req[r].value)

\* CONFIG SET is applied and answered.
SetAnswered(r) ==
  /\ At(r, "set")
  /\ Apply(r, "record", "none")
  /\ UNCHANGED <<entries, log>>

\* CONFIG SET is applied but no answer comes: the client (external: go-redis
\* with its default MaxRetries) sends it again, or the operation fails.
SetUnanswered(r) ==
  /\ At(r, "set")
  /\ Apply(r, "set", "none") \/ Apply(r, "end", "failed")
  /\ UNCHANGED <<entries, log>>

\* Wrong variant: a failed CONFIG SET is recorded like one that succeeded.
SetRefusedAndRecorded(r) ==
  /\ At(r, "set")
  /\ req' = [req EXCEPT ![r].pc = "record"]
  /\ UNCHANGED <<config, entries, log>>

\* CONFIG SET is refused or not delivered: the operation fails.
SetRefused(r) ==
  /\ At(r, "set")
  /\ req' = [req EXCEPT ![r].pc = "end", ![r].status = "failed"]
  /\ UNCHANGED <<config, entries, log>>

\* Wrong variant: the log is trimmed only once it is over its limit.
TrimmedLate(s) ==
  IF Len(s) > auditRingMax + 1 THEN SubSeq(s, Len(s) - auditRingMax + 1, Len(s)) ELSE s

\* Wrong variant: the oldest entries are kept.
TrimmedAtTheEnd(s) == IF Len(s) > auditRingMax THEN SubSeq(s, 1, auditRingMax) ELSE s

\* s without the entries before its last auditRingMax.
Trimmed(s) ==
  IF Len(s) > auditRingMax THEN SubSeq(s, Len(s) - auditRingMax + 1, Len(s)) ELSE s

\* auditLog.record, under its lock, and the handler answers 200.
Record(r) ==
  /\ At(r, "record")
  /\ entries' = Trimmed(Append(entries, Entry(r)))
  /\ log' = Append(log, Entry(r))
  /\ req' = [req EXCEPT ![r].pc = "end", ![r].status = "ok"]
  /\ UNCHANGED config

\* Somebody else sets c, or its node restarts with the value of its file.
OthersSet(c) ==
  /\ \E v \in Values : /\ config' = [config EXCEPT ![c] = v]
                       /\ req' = Overtake(req, Overtaken(c), v)
  /\ UNCHANGED <<entries, log>>

-----------------------------------------------------------------------------
Next ==
  \/ \E r \in Requests : \/ Handle(r) \/ GetOld(r)
                         \/ SetAnswered(r) \/ SetUnanswered(r) \/ SetRefused(r)
                         \/ Record(r)
  \/ \E c \in Params : OthersSet(c)

Spec == Init /\ [][Next]_vars

-----------------------------------------------------------------------------
(* Safety                                                                  *)

\* How many of n entries the log keeps.
Kept(n) == IF n < auditRingMax THEN n ELSE auditRingMax

\* The log holds the last auditRingMax changes ever recorded, oldest first, and
\* all of them as long as there are no more.
LogKeepsTheLast == entries = SubSeq(log, Len(log) - Kept(Len(log)) + 1, Len(log))

\* A request is answered 200 exactly if its change was recorded; it is recorded
\* once, with the parameter and value it asked for, and after it took effect.
OkIsRecordedOnce ==
  \A r \in Requests :
    LET about == {i \in DOMAIN log : log[i].req = r}
    IN  IF req[r].status = "ok"
          THEN /\ req[r].applied
               /\ \E i \in about : about = {i} /\ log[i] = Entry(r)
          ELSE about = {}

\* The old value a change records says that it is unknown, or was in force between its
\* reading and the change, as the value that was replaced was: unless another change of
\* the parameter came between the two, they are the same.
OldValueIsHonest ==
  \A r \in Requests :
    req[r].applied => \/ req[r].oldVal \in {Unknown, Empty}
                      \/ {req[r].oldVal, req[r].before} \subseteq req[r].held

=============================================================================
