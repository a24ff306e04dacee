--------------------------- MODULE PubSubListener ---------------------------
(***************************************************************************)
(* The listener goroutine of one sentinel address (listenSentinel in       *)
(* internal/sentinel/pubsub.go): it subscribes to every channel of its     *)
(* sentinel, turns each message into an event, marks the events of nodes   *)
(* that are flapping, publishes them, and subscribes again when its        *)
(* channel closes, until its context is cancelled.                         *)
(*                                                                         *)
(* publish is one step here: EventBus shows that its calls return.  The    *)
(* clock counts units of which Window make 60 seconds.                     *)
(*                                                                         *)
(* The subscription (external) delivers in order what the sentinel         *)
(* publishes while it is open, after any delay, and may lose messages; its *)
(* channel may close at any time.                                          *)
(***************************************************************************)
EXTENDS Integers, Sequences, FiniteSets

CONSTANTS
  Nodes,         \* addresses, each a pair <<ip, port>>
  NoAddr,        \* an event's empty NodeAddr
  Window,        \* 60 seconds
  Threshold,     \* +sdown events in a window that make a node flapping (3)
  FirstBackoff,  \* 1 second
  BackoffLimit,  \* 30 seconds
  MaxTime,       \* bound: the clock
  MaxMessages    \* bound: messages the sentinel publishes

ASSUME NodesAssumption == NoAddr \notin Nodes /\ \A n \in Nodes : n = <<n[1], n[2]>>
ASSUME TimeAssumption == Window \in Nat \ {0} /\ MaxTime \in Nat
ASSUME ThresholdAssumption == Threshold \in Nat \ {0}
ASSUME BackoffAssumption == FirstBackoff \in Nat \ {0} /\ BackoffLimit \in Nat
ASSUME MessagesAssumption == MaxMessages \in Nat

VARIABLES
  now,        \* the clock
  down,       \* the nodes this sentinel holds for subjectively down
  sent,       \* how many messages the sentinel has published
  open,       \* the subscription's channel is open
  inbox,      \* messages delivered and not yet received
  cancelled,  \* ctx is done
  pc,         \* where the goroutine is
  backoff,    \* the next wait before it subscribes again
  tracker,    \* flapTracker: the recent +sdown times of each node
  event,      \* the last event published, with the time it was parsed at
  receipts    \* history: the times of all +sdown messages received per node

sentinelVars == <<down, sent>>
linkVars == <<open, inbox>>
listenerVars == <<now, sentinelVars, linkVars, cancelled, pc, backoff, tracker, event, receipts>>

-----------------------------------------------------------------------------
(* Messages.  A payload is the sequence of its fields.                     *)

\* "<role> <name> <ip> <port> @ <master-name> <master-ip> <master-port>"
InstancePayload(n) == <<"slave", "name", n[1], n[2], "@", "mymaster", "ip", "port">>

\* "<master-name> <old-ip> <old-port> <new-ip> <new-port>"
SwitchPayload(n, m) == <<"mymaster", n[1], n[2], m[1], m[2]>>

Message(channel, payload) == [channel |-> channel, payload |-> payload]

InstanceMessages == {Message(c, InstancePayload(n)) : c \in {"+sdown", "-sdown"}, n \in Nodes}
SwitchMessages ==
  {Message("+switch-master", SwitchPayload(p[1], p[2])) : p \in {q \in Nodes \X Nodes : q[1] # q[2]}}
TiltMessages == {Message("+tilt", <<"#tilt", "mode", "entered">>)}
Messages == InstanceMessages \cup SwitchMessages \cup TiltMessages

\* parseEvent's address: fields 2 and 3, counted from 0, if there are four.
NodeAddr(payload) == IF Len(payload) >= 4 THEN <<payload[3], payload[4]>> ELSE NoAddr

-----------------------------------------------------------------------------
Times == 0..MaxTime
Backoffs == FirstBackoff .. (IF FirstBackoff >= BackoffLimit THEN FirstBackoff
                                                            ELSE 2 * (BackoffLimit - 1))
NoEvent == [channel |-> "none", addr |-> NoAddr, isFlapping |-> FALSE, at |-> 0]

ListenerTypeOK ==
  /\ now \in Times
  /\ down \subseteq Nodes
  /\ sent \in 0..MaxMessages
  /\ open \in BOOLEAN
  /\ inbox \in Seq(Messages)
  /\ cancelled \in BOOLEAN
  /\ pc \in {"top", "reading", "waiting", "stopped"}
  /\ backoff \in Backoffs
  /\ tracker \in [Nodes -> Seq(Times)]
  /\ event.isFlapping \in BOOLEAN /\ event.at \in Times
  /\ receipts \in [Nodes -> Seq(Times)]

ListenerInit ==
  /\ now = 0
  /\ down = {}
  /\ sent = 0
  /\ open = FALSE
  /\ inbox = << >>
  /\ cancelled = FALSE
  /\ pc = "top"
  /\ backoff = FirstBackoff
  /\ tracker = [n \in Nodes |-> << >>]
  /\ event = NoEvent
  /\ receipts = [n \in Nodes |-> << >>]

-----------------------------------------------------------------------------
(* The sentinel, the subscription and the clock.                           *)

\* A published message reaches the open subscription, or nobody.
Deliver(m) ==
  /\ sent < MaxMessages
  /\ sent' = sent + 1
  /\ inbox' \in IF open THEN {inbox, Append(inbox, m)} ELSE {inbox}
  /\ UNCHANGED <<now, open, cancelled, pc, backoff, tracker, event, receipts>>

\* +sdown and -sdown of one node alternate.
NodeGoesDown(n) ==
  /\ n \notin down
  /\ down' = down \cup {n}
  /\ Deliver(Message("+sdown", InstancePayload(n)))

NodeComesUp(n) ==
  /\ n \in down
  /\ down' = down \ {n}
  /\ Deliver(Message("-sdown", InstancePayload(n)))

OtherMessage ==
  /\ \E m \in SwitchMessages \cup TiltMessages : Deliver(m)
  /\ UNCHANGED down

ChannelCloses ==
  /\ open
  /\ open' = FALSE
  /\ UNCHANGED <<now, sentinelVars, inbox, cancelled, pc, backoff, tracker, event, receipts>>

Tick ==
  /\ now < MaxTime
  /\ now' = now + 1
  /\ UNCHANGED <<sentinelVars, linkVars, cancelled, pc, backoff, tracker, event, receipts>>

Cancel ==
  /\ ~cancelled
  /\ cancelled' = TRUE
  /\ UNCHANGED <<now, sentinelVars, linkVars, pc, backoff, tracker, event, receipts>>

-----------------------------------------------------------------------------
(* The goroutine.                                                          *)

\* The top of the loop: stop, or call subscribe, which opens a new client and
\* ignores that PSUBSCRIBE may fail.
Top ==
  /\ pc = "top"
  /\ IF cancelled
       THEN pc' = "stopped" /\ UNCHANGED linkVars
       ELSE pc' = "reading" /\ open' = TRUE /\ inbox' = << >>
  /\ UNCHANGED <<now, sentinelVars, cancelled, backoff, tracker, event, receipts>>

\* Wrong variant: a time exactly at the cutoff is kept.
RecentOrAtCutoff(times, t) == SelectSeq(times, LAMBDA u : u >= t - Window)

\* The times of a window that are after the cutoff: kept[i] is filtered after i of them.
Recent(times, t) ==
  LET kept[i \in 0..Len(times)] ==
        IF i = 0 THEN << >>
        ELSE IF times[i] > t - Window THEN Append(kept[i - 1], times[i])
        ELSE kept[i - 1]
  IN  kept[Len(times)]

\* detectFlapping: only +sdown events of a node count.
IsCounted(m) == m.channel = "+sdown" /\ NodeAddr(m.payload) # NoAddr

\* The node's window with this message in it.
WindowAfter(m, t) == Append(Recent(tracker[NodeAddr(m.payload)], t), t)

\* parseEvent, detectFlapping and publish, for the next message.
ReceiveMessage ==
  /\ pc = "reading"
  /\ inbox # << >>
  /\ LET m == Head(inbox)
         addr == NodeAddr(m.payload)
     IN  /\ event' = [channel |-> m.channel, addr |-> addr, at |-> now,
                      isFlapping |-> /\ IsCounted(m)
                                     /\ Len(WindowAfter(m, now)) >= Threshold]
         /\ IF IsCounted(m)
              THEN /\ tracker' = [tracker EXCEPT ![addr] = WindowAfter(m, now)]
                   /\ receipts' = [receipts EXCEPT ![addr] = Append(@, now)]
              ELSE UNCHANGED <<tracker, receipts>>
  /\ inbox' = Tail(inbox)
  /\ UNCHANGED <<now, sentinelVars, open, cancelled, pc, backoff>>

\* Wrong variant: only the closed channel ends subscribe.
SubscribeReturnsWhenClosed ==
  /\ pc = "reading"
  /\ ~open /\ inbox = << >>
  /\ pc' = "waiting"
  /\ UNCHANGED <<now, sentinelVars, linkVars, cancelled, backoff, tracker, event, receipts>>

\* subscribe returns when ctx is done, or when the closed channel is empty, and
\* closes its client.
SubscribeReturns ==
  /\ pc = "reading"
  /\ cancelled \/ (~open /\ inbox = << >>)
  /\ pc' = "waiting"
  /\ open' = FALSE
  /\ inbox' = << >>
  /\ UNCHANGED <<now, sentinelVars, cancelled, backoff, tracker, event, receipts>>

\* Wrong variant: the wait is doubled without a limit.
DoubledAlways == backoff' = 2 * backoff

\* if backoff < 30*time.Second { backoff *= 2 }
Doubled == backoff' = IF backoff < BackoffLimit THEN 2 * backoff ELSE backoff

\* Wrong variant: the listener gives up once it has waited the longest wait.
WaitEndsBelowLimit ==
  /\ pc = "waiting"
  /\ backoff < BackoffLimit
  /\ pc' = "top"
  /\ Doubled
  /\ UNCHANGED <<now, sentinelVars, linkVars, cancelled, tracker, event, receipts>>

\* The wait is over.
WaitEnds ==
  /\ pc = "waiting"
  /\ pc' = "top"
  /\ Doubled
  /\ UNCHANGED <<now, sentinelVars, linkVars, cancelled, tracker, event, receipts>>

\* ctx is done during the wait.
WaitCancelled ==
  /\ pc = "waiting"
  /\ cancelled
  /\ pc' = "stopped"
  /\ UNCHANGED <<now, sentinelVars, linkVars, cancelled, backoff, tracker, event, receipts>>

-----------------------------------------------------------------------------
GoroutineStep == Top \/ ReceiveMessage \/ SubscribeReturns \/ WaitEnds \/ WaitCancelled

Environment ==
  \/ \E n \in Nodes : NodeGoesDown(n) \/ NodeComesUp(n)
  \/ OtherMessage \/ ChannelCloses \/ Tick \/ Cancel

\* The goroutine has returned and the bounds are used up.
ListenerEnded ==
  /\ pc = "stopped" /\ now = MaxTime /\ sent = MaxMessages
  /\ UNCHANGED listenerVars

ListenerNext == GoroutineStep \/ Environment \/ ListenerEnded

\* The goroutine runs, time.After fires, and select cannot pass over a done
\* context for ever.  The environment owes nothing.
ListenerFairness ==
  /\ WF_listenerVars(GoroutineStep)
  /\ SF_listenerVars(SubscribeReturns)

ListenerSpec == ListenerInit /\ [][ListenerNext]_listenerVars /\ ListenerFairness

-----------------------------------------------------------------------------
(* Safety                                                                  *)

\* How many of a node's +sdown messages were received in the window before t.
ReceivedInWindow(n, t) ==
  Cardinality({i \in DOMAIN receipts[n] : t - Window < receipts[n][i] /\ receipts[n][i] <= t})

\* An event is marked flapping exactly if it is a +sdown and at least Threshold
\* +sdown messages of its node were received in the last 60 seconds: what the
\* tracker forgot by pruning does not matter, and what was received before the
\* last disconnect still counts.  At least, as docs/REDIS_COMMANDS.md:891 says and
\* the code does (pubsub.go:218), is one less than what pubsub.go:192 says.
FlappingExactly ==
  event # NoEvent =>
    (event.isFlapping <=> /\ event.channel = "+sdown"
                          /\ ReceivedInWindow(event.addr, event.at) >= Threshold)

(* Liveness                                                                *)

\* Once its context is cancelled the goroutine returns, whether it is reading,
\* waiting, or in the middle of a burst of messages: Run can return.
ListenerStops == cancelled ~> (pc = "stopped")

\* After a disconnect the listener subscribes again, unless it is told to stop.
Reconnects == (pc = "waiting") ~> (pc \in {"reading", "stopped"})
=============================================================================
