------------------------------ MODULE EventBus ------------------------------
(***************************************************************************)
(* The event bus of internal/sentinel/pubsub.go and the event streams of   *)
(* internal/api/handlers/events.go that read from it.                      *)
(*                                                                         *)
(* A publisher is the goroutine of one configured sentinel: it calls       *)
(* publish for each message, one at a time.  A stream is one request to    *)
(* GET /events/stream: it subscribes, forwards events to its client until  *)
(* the client goes away, and unsubscribes.  All share one sync.RWMutex.    *)
(*                                                                         *)
(* sync.RWMutex (external): a writer that has called Lock keeps new        *)
(* readers out and waits for the readers inside; its Unlock lets in every  *)
(* reader that waited, before the next writer.                             *)
(***************************************************************************)
EXTENDS Naturals, Sequences, FiniteSets

CONSTANTS
  Publishers,  \* listener goroutines, one per configured sentinel address
  Streams,     \* requests to the event stream, each with a channel of its own
  NoStream,    \* nobody holds or awaits the write lock
  Cap,         \* capacity of a subscriber's channel (64 in the code)
  MaxEvents    \* bound: events each publisher publishes

ASSUME CapAssumption == Cap \in Nat \ {0}
ASSUME MaxEventsAssumption == MaxEvents \in [Publishers -> Nat]
ASSUME NoStreamAssumption == NoStream \notin Streams

VARIABLES
  writer,     \* the stream that called Lock and has not unlocked
  subs,       \* b.subs: the channels publish ranges over
  closed,     \* the channels that are closed
  buf,        \* the content of each channel's buffer
  ppc,        \* where each publisher is
  published,  \* how many events each publisher has sent into the bus
  todo,       \* the channels the publisher's range has still to visit
  spc,        \* where each stream's handler is
  gone        \* the streams whose request context is done

lockVars    == <<writer>>
channelVars == <<subs, closed, buf>>
pubVars     == <<ppc, published, todo>>
streamVars  == <<spc, gone>>
vars == <<lockVars, channelVars, pubVars, streamVars>>

PublisherStates == {"idle", "waiting", "locked", "sending"}
StreamStates == {"off", "joining", "adding", "select", "writing",
                 "leaving", "removing", "closing", "done"}

Events == Publishers \X Nat
NoEvents == [p \in Publishers |-> 0]

TypeOK ==
  /\ writer \in Streams \cup {NoStream}
  /\ subs \in SUBSET Streams
  /\ closed \in SUBSET Streams
  /\ buf \in [Streams -> Seq(Events)]
  /\ \A s \in Streams : Len(buf[s]) <= Cap
  /\ ppc \in [Publishers -> PublisherStates]
  /\ published \in [Publishers -> Nat]
  /\ todo \in [Publishers -> SUBSET Streams]
  /\ spc \in [Streams -> StreamStates]
  /\ gone \in SUBSET Streams

Init ==
  /\ writer = NoStream
  /\ subs = {}
  /\ closed = {}
  /\ buf = [s \in Streams |-> << >>]
  /\ ppc = [p \in Publishers |-> "idle"]
  /\ published = NoEvents
  /\ todo = [p \in Publishers |-> {}]
  /\ spc = [s \in Streams |-> "off"]
  /\ gone = {}

-----------------------------------------------------------------------------
(* The lock.                                                               *)

\* The publishers that hold the read lock.
Readers == {p \in Publishers : ppc[p] \in {"locked", "sending"}}

\* RLock: at once unless a writer holds the lock or waits for it.
RLock(p) ==
  ppc' = [ppc EXCEPT ![p] = IF writer = NoStream THEN "locked" ELSE "waiting"]

\* Wrong variant: the writer does not wait for the readers inside.
HoldsWriteLockAtOnce(s) == writer = s

\* s called Lock, and the readers it found have left.
HoldsWriteLock(s) == writer = s /\ Readers = {}

\* Unlock: every reader that waited gets the read lock.
Unlock ==
  /\ writer' = NoStream
  /\ ppc' = [p \in Publishers |-> IF ppc[p] = "waiting" THEN "locked" ELSE ppc[p]]

-----------------------------------------------------------------------------
(* publish, called by the listener for each message of its sentinel.       *)

\* publish is called with the listener's next event and asks for the read lock.
PublishCall(p) ==
  /\ ppc[p] = "idle"
  /\ published[p] < MaxEvents[p]
  /\ RLock(p)
  /\ UNCHANGED <<lockVars, channelVars, published, todo, streamVars>>

\* The range over b.subs starts.
PublishRange(p) ==
  /\ ppc[p] = "locked"
  /\ ppc' = [ppc EXCEPT ![p] = "sending"]
  /\ published' = [published EXCEPT ![p] = @ + 1]
  /\ todo' = [todo EXCEPT ![p] = subs]
  /\ UNCHANGED <<lockVars, channelVars, streamVars>>

\* Wrong variant: ch <- evt without a default case blocks at a full buffer.
SendBlocking(p, s) ==
  /\ ppc[p] = "sending"
  /\ s \in todo[p]
  /\ Len(buf[s]) < Cap
  /\ todo' = [todo EXCEPT ![p] = @ \ {s}]
  /\ buf' = [buf EXCEPT ![s] = Append(@, <<p, published[p]>>)]
  /\ UNCHANGED <<lockVars, subs, closed, ppc, published, streamVars>>

\* Wrong variant: the buffer grows instead of dropping.
SendUnbounded(p, s) ==
  /\ ppc[p] = "sending"
  /\ s \in todo[p]
  /\ todo' = [todo EXCEPT ![p] = @ \ {s}]
  /\ buf' = [buf EXCEPT ![s] = Append(@, <<p, published[p]>>)]
  /\ UNCHANGED <<lockVars, subs, closed, ppc, published, streamVars>>

\* Wrong variant: a full buffer ends the range as well as the send.
SendGivesUp(p, s) ==
  /\ ppc[p] = "sending"
  /\ s \in todo[p]
  /\ IF Len(buf[s]) < Cap
       THEN /\ todo' = [todo EXCEPT ![p] = @ \ {s}]
            /\ buf' = [buf EXCEPT ![s] = Append(@, <<p, published[p]>>)]
       ELSE /\ todo' = [todo EXCEPT ![p] = {}]
            /\ UNCHANGED buf
  /\ UNCHANGED <<lockVars, subs, closed, ppc, published, streamVars>>

\* select { case ch <- evt: default: } for one channel; the map's order is not
\* defined.  A send to a closed channel would panic: see NeverSendOnClosed.
Send(p, s) ==
  LET evt == <<p, published[p]>>
  IN  /\ ppc[p] = "sending"
      /\ s \in todo[p]
      /\ todo' = [todo EXCEPT ![p] = @ \ {s}]
      /\ buf' = [buf EXCEPT ![s] = IF Len(@) < Cap THEN Append(@, evt) ELSE @]
      /\ UNCHANGED <<lockVars, subs, closed, ppc, published, streamVars>>

\* The range is over and the deferred RUnlock runs.
PublishReturn(p) ==
  /\ ppc[p] = "sending"
  /\ todo[p] = {}
  /\ ppc' = [ppc EXCEPT ![p] = "idle"]
  /\ UNCHANGED <<lockVars, channelVars, published, todo, streamVars>>

-----------------------------------------------------------------------------
(* EventStream: the handler of one request.                                *)

\* A request arrives and the handler calls Subscribe, which makes the channel.
Connect(s) ==
  /\ spc[s] = "off"
  /\ spc' = [spc EXCEPT ![s] = "joining"]
  /\ UNCHANGED <<lockVars, channelVars, pubVars, gone>>

\* Lock, of Subscribe and of Unsubscribe: one writer at a time gets past here.
Lock(s) ==
  /\ writer = NoStream
  /\ \/ spc[s] = "joining" /\ spc' = [spc EXCEPT ![s] = "adding"]
     \/ spc[s] = "leaving" /\ spc' = [spc EXCEPT ![s] = "removing"]
  /\ writer' = s
  /\ UNCHANGED <<channelVars, pubVars, gone>>

\* Subscribe: b.subs[ch] = struct{}{} and Unlock.
Subscribe(s) ==
  /\ spc[s] = "adding"
  /\ HoldsWriteLock(s)
  /\ subs' = subs \cup {s}
  /\ spc' = [spc EXCEPT ![s] = "select"]
  /\ Unlock
  /\ UNCHANGED <<closed, buf, published, todo, gone>>

\* select: an event is ready.  The !ok branch is for a channel somebody else
\* closed; only this handler's deferred Unsubscribe closes it.
Receive(s) ==
  /\ spc[s] = "select"
  /\ buf[s] # << >>
  /\ buf' = [buf EXCEPT ![s] = Tail(@)]
  /\ spc' = [spc EXCEPT ![s] = "writing"]
  /\ UNCHANGED <<lockVars, subs, closed, pubVars, gone>>

\* Fprintf and Flush return; their errors are ignored.
Written(s) ==
  /\ spc[s] = "writing"
  /\ spc' = [spc EXCEPT ![s] = "select"]
  /\ UNCHANGED <<lockVars, channelVars, pubVars, gone>>

\* The client disconnects: the request's context is done.
ClientGone(s) ==
  /\ spc[s] \notin {"off", "done"}
  /\ s \notin gone
  /\ gone' = gone \cup {s}
  /\ UNCHANGED <<lockVars, channelVars, pubVars, spc>>

\* select: the context is done.  The handler returns into the deferred
\* Unsubscribe.
Return(s) ==
  /\ spc[s] = "select"
  /\ s \in gone
  /\ spc' = [spc EXCEPT ![s] = "leaving"]
  /\ UNCHANGED <<lockVars, channelVars, pubVars, gone>>

\* Unsubscribe: delete(b.subs, ch) and Unlock.
Unsubscribe(s) ==
  /\ spc[s] = "removing"
  /\ HoldsWriteLock(s)
  /\ subs' = subs \ {s}
  /\ spc' = [spc EXCEPT ![s] = "closing"]
  /\ Unlock
  /\ UNCHANGED <<closed, buf, published, todo, gone>>

\* Unsubscribe: close(ch), after the lock was released.
Close(s) ==
  /\ spc[s] = "closing"
  /\ closed' = closed \cup {s}
  /\ spc' = [spc EXCEPT ![s] = "done"]
  /\ UNCHANGED <<lockVars, subs, buf, pubVars, gone>>

-----------------------------------------------------------------------------
\* Every event is published and no stream is open: nothing more can happen
\* within the bounds.
Quiescent ==
  /\ \A p \in Publishers : ppc[p] = "idle" /\ published[p] = MaxEvents[p]
  /\ \A s \in Streams : spc[s] = "done"
  /\ UNCHANGED vars

PublisherStep(p) ==
  PublishRange(p) \/ (\E s \in Streams : Send(p, s)) \/ PublishReturn(p)

LockedStep(s) == Subscribe(s) \/ Unsubscribe(s)

Next ==
  \/ \E p \in Publishers : PublishCall(p) \/ PublisherStep(p)
  \/ \E s \in Streams : \/ Connect(s) \/ Lock(s) \/ LockedStep(s)
                        \/ Receive(s) \/ Written(s)
                        \/ ClientGone(s) \/ Return(s) \/ Close(s)
  \/ Quiescent

\* Goroutines run; a contended Lock is granted eventually (sync.Mutex hands
\* itself over to a waiter it starved); select picks at random among the ready
\* cases, so it cannot ignore a done context for ever; a write to a connection
\* that is gone returns.  Messages, connections and disconnections need not
\* happen, and a write to a client that is connected but stalled may block for
\* ever.
Fairness ==
  /\ \A p \in Publishers : WF_vars(PublisherStep(p))
  /\ \A s \in Streams : /\ SF_vars(Lock(s))
                        /\ WF_vars(LockedStep(s))
                        /\ WF_vars(Close(s))
                        /\ SF_vars(Return(s))
                        /\ WF_vars(s \in gone /\ Written(s))

Spec == Init /\ [][Next]_vars /\ Fairness

-----------------------------------------------------------------------------
(* Safety                                                                  *)

\* A publisher never sends to a closed channel, which would panic and take the
\* process down.  Unsubscribe closes outside the lock: what protects it is that
\* deleting from the map waits for every publisher in the middle of its range.
NeverSendOnClosed == \A p \in Publishers : todo[p] \cap closed = {}

\* The newest event of p that s was offered.
Offered(s, p) == IF s \in todo[p] THEN published[p] - 1 ELSE published[p]

\* The bus implements the lossy fan-out.
Fanout == INSTANCE LossyFanout WITH
  member <- subs,
  left <- {s \in Streams : spc[s] \in {"closing", "done"}},
  offered <- [s \in Streams |->
                IF s \in subs THEN [p \in Publishers |-> Offered(s, p)] ELSE NoEvents],
  unread <- buf

\* Every step of the bus is a step of the lossy fan-out or leaves it alone:
\* offers happen only to subscribed streams, in order, and fail only when the
\* buffer is full, although they are spread over the iteration of publish.
ImplementsFanout == Fanout!Spec

(* Liveness                                                                *)

\* The listener is never held up by its subscribers: a call of publish returns,
\* even while a client has stalled in the middle of a write, other streams come
\* and go and other publishers publish.
PublishReturns == \A p \in Publishers : (ppc[p] # "idle") ~> (ppc[p] = "idle")

\* The stream of a client that went away is removed and its channel closed,
\* however busy the bus is: no subscriber is leaked.
GoneStreamEnds == \A s \in Streams : (s \in gone) ~> (spc[s] = "done")
=============================================================================
