---------------------------- MODULE LossyFanout ----------------------------
(***************************************************************************)
(* What the event bus promises to its event streams, without the mutex,    *)
(* the subscriber map, the iteration of publish or the handler's loop.     *)
(*                                                                         *)
(* Every member is offered every event published while it is a member,     *)
(* once, and the events of one publisher in the order they were published. *)
(* An offer is lost exactly when Cap accepted events are still unread.     *)
(* Nothing orders the events of different publishers: two members may see  *)
(* them in different orders, because publishers share the read lock.       *)
(***************************************************************************)
EXTENDS Naturals, Sequences

CONSTANTS Publishers, Streams, Cap

VARIABLES
  member,     \* the streams events are offered to
  left,       \* the streams that were members and are not any more
  published,  \* how many events each publisher has published
  offered,    \* offered[s][p]: the newest event of p that s was offered
  unread      \* unread[s]: what s accepted and has not read

vars == <<member, left, published, offered, unread>>

NoOffers == [p \in Publishers |-> 0]

Init ==
  /\ member = {}
  /\ left = {}
  /\ published = NoOffers
  /\ offered = [s \in Streams |-> NoOffers]
  /\ unread = [s \in Streams |-> << >>]

\* A stream joins: it is owed the events published from now on.
Join(s) ==
  /\ s \notin member \cup left
  /\ member' = member \cup {s}
  /\ offered' = [offered EXCEPT ![s] = published]
  /\ UNCHANGED <<left, published, unread>>

\* A publisher publishes its next event, after every member was offered the
\* one before.
Publish(p) ==
  /\ \A s \in member : offered[s][p] = published[p]
  /\ published' = [published EXCEPT ![p] = @ + 1]
  /\ UNCHANGED <<member, left, offered, unread>>

\* A member is offered the event of p it is owed, and takes it unless it is
\* Cap events behind.
Offer(s, p) ==
  /\ s \in member
  /\ offered[s][p] < published[p]
  /\ offered' = [offered EXCEPT ![s][p] = @ + 1]
  /\ unread' = [unread EXCEPT ![s] =
                  IF Len(@) < Cap THEN Append(@, <<p, offered[s][p] + 1>>) ELSE @]
  /\ UNCHANGED <<member, left, published>>

Read(s) ==
  /\ unread[s] # << >>
  /\ unread' = [unread EXCEPT ![s] = Tail(@)]
  /\ UNCHANGED <<member, left, published, offered>>

\* A member leaves between events: it has been offered all that were published
\* while it was a member.
Leave(s) ==
  /\ s \in member
  /\ offered[s] = published
  /\ member' = member \ {s}
  /\ left' = left \cup {s}
  /\ offered' = [offered EXCEPT ![s] = NoOffers]
  /\ UNCHANGED <<published, unread>>

Next ==
  \/ \E s \in Streams : Join(s) \/ Read(s) \/ Leave(s)
  \/ \E s \in Streams, p \in Publishers : Offer(s, p)
  \/ \E p \in Publishers : Publish(p)

Spec == Init /\ [][Next]_vars
=============================================================================
