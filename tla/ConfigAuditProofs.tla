------------------------- MODULE ConfigAuditProofs -------------------------
(***************************************************************************)
(* Proofs about ConfigAudit, for any sets of parameters, values and        *)
(* requests and any size of the log.                                       *)
(***************************************************************************)
EXTENDS ConfigAudit, SequenceTheorems, TLAPS

\* Each disjunct of Next, one name for each action.
LEMMA NextCases ==
  ASSUME Next
  PROVE  \/ \E r \in Requests : Handle(r)
         \/ \E r \in Requests : GetOld(r)
         \/ \E r \in Requests : SetAnswered(r)
         \/ \E r \in Requests : SetUnanswered(r)
         \/ \E r \in Requests : SetRefused(r)
         \/ \E r \in Requests : Record(r)
         \/ \E c \in Params : OthersSet(c)
BY DEF Next

\* What is trimmed is never over the limit, and is still a log.
LEMMA TrimmedType ==
  ASSUME NEW s \in Seq(Entries)
  PROVE  Trimmed(s) \in Seq(Entries) /\ Len(Trimmed(s)) <= auditRingMax
<1>1. CASE Len(s) > auditRingMax
  <2> DEFINE m == Len(s) - auditRingMax + 1
  <2>1. m \in 1..Len(s) /\ Trimmed(s) = SubSeq(s, m, Len(s))
    BY <1>1, RingAssumption DEF Trimmed
  <2>2. SubSeq(s, m, Len(s)) \in Seq(Entries) /\ Len(SubSeq(s, m, Len(s))) = auditRingMax
    BY <2>1, <1>1, RingAssumption
  <2> QED
    BY <2>1, <2>2, RingAssumption
<1>2. CASE ~(Len(s) > auditRingMax)
  BY <1>2, RingAssumption DEF Trimmed
<1> QED
  BY <1>1, <1>2

LEMMA EntryType ==
  ASSUME TypeOK, NEW r \in Requests
  PROVE  Entry(r) \in Entries
BY DEF TypeOK, Handlers, Entry, Entries

\* Noting that requests were overtaken changes nothing else of them.
LEMMA OvertakeType ==
  ASSUME NEW handlers \in [Requests -> Handlers], NEW overtaken \in SUBSET Requests,
         NEW v \in Values
  PROVE  Overtake(handlers, overtaken, v) \in [Requests -> Handlers]
BY DEF Overtake, Handlers

LEMMA AppliedType ==
  ASSUME TypeOK, NEW r \in Requests, NEW step \in {"set", "record", "end"},
         NEW status \in {"none", "failed"}
  PROVE  Applied(r, step, status) \in Handlers
BY DEF TypeOK, Handlers, Applied

LEMMA ApplyType ==
  ASSUME TypeOK, NEW r \in Requests, NEW step \in {"set", "record", "end"},
         NEW status \in {"none", "failed"}, Apply(r, step, status)
  PROVE  config' \in [Params -> Values] /\ req' \in [Requests -> Handlers]
<1>1. [req EXCEPT ![r] = Applied(r, step, status)] \in [Requests -> Handlers]
  BY AppliedType DEF TypeOK
<1>2. Overtaken(req[r].param) \ {r} \in SUBSET Requests /\ req[r].value \in Values
  BY DEF Overtaken, TypeOK, Handlers
<1>3. req' \in [Requests -> Handlers]
  BY <1>1, <1>2, OvertakeType DEF Apply
<1>4. config' \in [Params -> Values]
  BY DEF Apply, TypeOK, Handlers
<1> QED
  BY <1>3, <1>4

\* What a step of a handler may make of it.
LEMMA HandlerStep ==
  ASSUME NEW h \in Handlers, NEW v \in Values \cup {Unknown, Empty}, NEW held \in SUBSET Values,
         NEW status \in {"bad_request", "failed", "ok"}
  PROVE  /\ [h EXCEPT !.pc = "get"] \in Handlers
         /\ [h EXCEPT !.pc = "set", !.oldVal = v, !.held = held] \in Handlers
         /\ [h EXCEPT !.pc = "end", !.status = status] \in Handlers
BY DEF Handlers

LEMMA NextTypeOK == TypeOK /\ [Next]_vars => TypeOK'
<1> SUFFICES ASSUME TypeOK, [Next]_vars PROVE TypeOK'
  OBVIOUS
<1>1. ASSUME NEW r \in Requests, Handle(r) PROVE TypeOK'
  <2>1. req[r] \in Handlers /\ Unknown \in Values \cup {Unknown, Empty} /\ {} \in SUBSET Values
    BY DEF TypeOK
  <2>2. \/ req' = [req EXCEPT ![r] = [req[r] EXCEPT !.pc = "get"]]
        \/ req' = [req EXCEPT ![r] = [req[r] EXCEPT !.pc = "end", !.status = "bad_request"]]
    BY <1>1 DEF TypeOK, Handle
  <2>3. /\ [req[r] EXCEPT !.pc = "get"] \in Handlers
        /\ [req[r] EXCEPT !.pc = "end", !.status = "bad_request"] \in Handlers
    BY <2>1, HandlerStep
  <2>4. req' \in [Requests -> Handlers]
    BY <2>2, <2>3 DEF TypeOK
  <2> QED
    BY <1>1, <2>4 DEF TypeOK, Handle
<1>2. ASSUME NEW r \in Requests, GetOld(r) PROVE TypeOK'
  <2>1. req[r] \in Handlers /\ config[req[r].param] \in Values
    BY DEF TypeOK, Handlers
  <2>2. PICK v \in Values \cup {Unknown, Empty} :
          req' = [req EXCEPT ![r].pc = "set", ![r].oldVal = v, ![r].held = {config[req[r].param]}]
    BY <1>2, <2>1 DEF GetOld, OldValues
  <2>3. req' = [req EXCEPT ![r] = [req[r] EXCEPT !.pc = "set", !.oldVal = v,
                                                 !.held = {config[req[r].param]}]]
    BY <2>2 DEF TypeOK
  <2>4. req' \in [Requests -> Handlers]
    BY <2>1, <2>3, HandlerStep DEF TypeOK
  <2> QED
    BY <1>2, <2>4 DEF TypeOK, GetOld
<1>3. ASSUME NEW r \in Requests, SetAnswered(r) PROVE TypeOK'
  BY <1>3, ApplyType DEF TypeOK, SetAnswered
<1>4. ASSUME NEW r \in Requests, SetUnanswered(r) PROVE TypeOK'
  BY <1>4, ApplyType DEF TypeOK, SetUnanswered
<1>5. ASSUME NEW r \in Requests, SetRefused(r) PROVE TypeOK'
  <2>1. req' = [req EXCEPT ![r] = [req[r] EXCEPT !.pc = "end", !.status = "failed"]]
    BY <1>5 DEF TypeOK, SetRefused
  <2>2. req' \in [Requests -> Handlers]
    BY <2>1, HandlerStep DEF TypeOK
  <2> QED
    BY <1>5, <2>2 DEF TypeOK, SetRefused
<1>6. ASSUME NEW r \in Requests, Record(r) PROVE TypeOK'
  <2>1. Append(entries, Entry(r)) \in Seq(Entries) /\ log' \in Seq(Entries)
    BY <1>6, EntryType DEF TypeOK, Record
  <2>2. entries' \in Seq(Entries) /\ Len(entries') <= auditRingMax
    BY <1>6, <2>1, TrimmedType DEF Record
  <2>3. req' \in [Requests -> Handlers]
    <3>1. req' = [req EXCEPT ![r] = [req[r] EXCEPT !.pc = "end", !.status = "ok"]]
      BY <1>6 DEF TypeOK, Record
    <3> QED
      BY <3>1, HandlerStep DEF TypeOK
  <2> QED
    BY <1>6, <2>1, <2>2, <2>3 DEF TypeOK, Record
<1>7. ASSUME NEW c \in Params, OthersSet(c) PROVE TypeOK'
  <2>1. PICK v \in Values : /\ config' = [config EXCEPT ![c] = v]
                            /\ req' = Overtake(req, Overtaken(c), v)
    BY <1>7 DEF OthersSet
  <2>2. Overtaken(c) \in SUBSET Requests
    BY DEF Overtaken
  <2>3. req' \in [Requests -> Handlers]
    BY <2>1, <2>2, OvertakeType DEF TypeOK
  <2> QED
    BY <1>7, <2>1, <2>3 DEF TypeOK, OthersSet
<1>8. CASE UNCHANGED vars
  BY <1>8 DEF TypeOK, vars
<1> QED
  BY <1>1, <1>2, <1>3, <1>4, <1>5, <1>6, <1>7, <1>8, NextCases

LEMMA InitTypeOK == Init => TypeOK
BY RingAssumption DEF Init, TypeOK, NewHandler, Handlers

\* The configuration, the log, its entries and the handlers have their types,
\* and the log is never over its limit.
THEOREM TypeCorrect == Spec => []TypeOK
BY InitTypeOK, NextTypeOK, PTL DEF Spec

-----------------------------------------------------------------------------
\* Trimming commutes with appending: to keep the newest of a history it is
\* enough to have kept the newest of what came before.
LEMMA AppendThenTrim ==
  ASSUME NEW S, NEW t \in Seq(S), NEW e \in S, NEW s,
         s = SubSeq(t, Len(t) - Kept(Len(t)) + 1, Len(t)),
         NEW u, u = Append(t, e)
  PROVE  Trimmed(Append(s, e)) = SubSeq(u, Len(u) - Kept(Len(u)) + 1, Len(u))
<1> DEFINE v == Append(s, e)
<1>1. PICK n \in Nat : n = Len(t)
  BY LenProperties
<1>2. PICK k \in Nat : k = n + 1
  BY <1>1
<1>3. Kept(n) \in 0..n /\ Kept(k) \in 0..k
  BY <1>2, RingAssumption DEF Kept
<1>4. s \in Seq(S) /\ Len(s) = Kept(n) /\ \A i \in 1..Kept(n) : s[i] = t[n - Kept(n) + i]
  <2>1. PICK f \in Nat : f = n - Kept(n) + 1
    BY <1>3
  <2>2. s = SubSeq(t, f, n)
    BY <1>1, <2>1
  <2>3. f \in 1..(n + 1) /\ n - f + 1 = Kept(n) /\ \A i \in 1..Kept(n) : f + i - 1 = n - Kept(n) + i
    BY <1>3, <2>1
  <2>4. s \in Seq(S) /\ Len(s) = n - f + 1 /\ \A i \in 1..(n - f + 1) : s[i] = t[f + i - 1]
    <3>1. \A i \in f..n : t[i] \in S
      BY <1>1, <2>3
    <3>2. /\ SubSeq(t, f, n) \in Seq(S)
          /\ Len(SubSeq(t, f, n)) = IF f <= n THEN n - f + 1 ELSE 0
          /\ \A i \in 1..(n - f + 1) : SubSeq(t, f, n)[i] = t[f + i - 1]
      BY <3>1, SubSeqProperties
    <3>3. Len(SubSeq(t, f, n)) = n - f + 1
      BY <2>3, <3>2
    <3> QED
      BY <2>2, <3>2, <3>3, Zenon
  <2> QED
    BY <2>3, <2>4
<1>5. /\ u \in Seq(S) /\ Len(u) = k
      /\ \A i \in 1..n : u[i] = t[i]
      /\ u[k] = e
  BY <1>1, <1>2
<1>6. /\ v \in Seq(S) /\ Len(v) = Kept(n) + 1
      /\ \A i \in 1..Kept(n) : v[i] = s[i]
      /\ v[Kept(n) + 1] = e
  BY <1>3, <1>4
<1> HIDE DEF v
<1>7. CASE n < auditRingMax
  <2>1. Kept(n) = n /\ Kept(k) = k /\ k - k + 1 = 1
    BY <1>2, <1>7, RingAssumption DEF Kept
  <2>2. Len(v) = k
    BY <1>2, <1>6, <2>1
  <2>3. Trimmed(v) = v
    BY <1>2, <1>7, <2>2, RingAssumption DEF Trimmed
  <2>4. SubSeq(u, 1, k) = u
    BY <1>5
  <2>5. \A i \in 1..k : v[i] = u[i]
    BY <1>2, <1>4, <1>5, <1>6, <2>1
  <2>6. v = u
    BY <1>5, <1>6, <2>2, <2>5, SeqEqual
  <2> QED
    BY <1>5, <2>1, <2>3, <2>4, <2>6 DEF v
<1>8. CASE ~(n < auditRingMax)
  <2>1. PICK m \in Nat : m = auditRingMax
    BY RingAssumption
  <2>2. PICK f \in Nat : f = k - m + 1
    BY <1>2, <1>8, <2>1
  <2>3. Kept(n) = m /\ Kept(k) = m /\ m \in 1..n
    BY <1>2, <1>8, <2>1, RingAssumption DEF Kept
  <2> DEFINE newest == SubSeq(u, f, k)
             trimmed == SubSeq(v, 2, m + 1)
  <2>4. Trimmed(v) = trimmed
    <3>1. PICK len \in Nat : len = Len(v)
      BY <1>6, LenProperties
    <3>2. len > auditRingMax /\ len - auditRingMax + 1 = 2 /\ len = m + 1
      BY <1>6, <2>1, <2>3, <3>1
    <3> QED
      BY <3>1, <3>2 DEF Trimmed
  <2>5. newest \in Seq(S) /\ Len(newest) = m /\ \A i \in 1..m : newest[i] = u[n + 1 - m + i]
    <3>1. f \in 1..k /\ k \in 1..k
      BY <1>2, <2>2, <2>3
    <3>2. /\ newest \in Seq(S) /\ Len(newest) = k - f + 1
          /\ \A i \in 1..(k - f + 1) : newest[i] = u[f + i - 1]
      BY <1>5, <3>1
    <3>3. k - f + 1 = m /\ \A i \in 1..m : f + i - 1 = n + 1 - m + i
      BY <1>2, <2>2, <2>3
    <3> QED
      BY <3>2, <3>3
  <2>6. trimmed \in Seq(S) /\ Len(trimmed) = m /\ \A i \in 1..m : trimmed[i] = v[i + 1]
    BY <1>6, <2>3
  <2>7. ASSUME NEW i \in 1..m PROVE v[i + 1] = u[n + 1 - m + i]
    <3>1. CASE i = m
      BY <3>1, <1>2, <1>5, <1>6, <2>3
    <3>2. CASE i # m
      <4>1. i + 1 \in 1..m /\ n + 1 - m + i \in 1..n
        BY <3>2, <2>3
      <4>2. v[i + 1] = t[n - m + (i + 1)]
        BY <4>1, <1>4, <1>6, <2>3
      <4>3. u[n + 1 - m + i] = t[n + 1 - m + i]
        BY <4>1, <1>5
      <4>4. n - m + (i + 1) = n + 1 - m + i
        BY <2>3
      <4> QED
        BY <4>2, <4>3, <4>4
    <3> QED
      BY <3>1, <3>2
  <2> HIDE DEF newest, trimmed
  <2>8. trimmed = newest
    <3>1. ASSUME NEW i \in 1..m PROVE trimmed[i] = newest[i]
      <4>1. trimmed[i] = v[i + 1]
        BY <2>6
      <4>2. newest[i] = u[n + 1 - m + i]
        BY <2>5
      <4> QED
        BY <4>1, <4>2, <2>7
    <3>2. Len(trimmed) = Len(newest) /\ \A i \in 1..Len(trimmed) : trimmed[i] = newest[i]
      BY <2>5, <2>6, <3>1
    <3> QED
      BY <2>5, <2>6, <3>2, SeqEqual
  <2> QED
    BY <1>5, <2>2, <2>3, <2>4, <2>8 DEF v, newest
<1> QED
  BY <1>7, <1>8

LEMMA RecordKeepsTheLast ==
  ASSUME TypeOK, LogKeepsTheLast, NEW r \in Requests, Record(r)
  PROVE  LogKeepsTheLast'
<1>1. /\ Entry(r) \in Entries
      /\ log \in Seq(Entries)
      /\ entries = SubSeq(log, Len(log) - Kept(Len(log)) + 1, Len(log))
  BY EntryType DEF TypeOK, LogKeepsTheLast
<1>2. entries' = Trimmed(Append(entries, Entry(r))) /\ log' = Append(log, Entry(r))
  BY DEF Record
<1>3. entries' = SubSeq(log', Len(log') - Kept(Len(log')) + 1, Len(log'))
  BY <1>1, <1>2, AppendThenTrim, ZenonT(30)
<1> QED
  BY <1>3 DEF LogKeepsTheLast, Kept

LEMMA NextKeepsTheLast ==
  ASSUME TypeOK, LogKeepsTheLast, [Next]_vars
  PROVE  LogKeepsTheLast'
<1>1. ASSUME NEW r \in Requests, Record(r) PROVE LogKeepsTheLast'
  BY <1>1, RecordKeepsTheLast
<1>2. (\A r \in Requests : ~Record(r)) => UNCHANGED <<entries, log>>
  BY NextCases
     DEF vars, Handle, GetOld, SetAnswered, SetUnanswered, SetRefused, OthersSet
<1> QED
  BY <1>1, <1>2 DEF LogKeepsTheLast

\* Whatever the size of the log, it holds exactly the newest changes recorded.
THEOREM KeepsTheLast == Spec => []LogKeepsTheLast
<1>1. Init => LogKeepsTheLast
  <2>1. Kept(0) = 0
    BY RingAssumption DEF Kept
  <2>2. Len(<< >>) = 0 /\ SubSeq(<< >>, 0 - 0 + 1, 0) = << >>
    OBVIOUS
  <2> QED
    BY <2>1, <2>2 DEF Init, LogKeepsTheLast
<1>2. TypeOK /\ LogKeepsTheLast /\ [Next]_vars => LogKeepsTheLast'
  BY NextKeepsTheLast
<1> QED
  BY <1>1, <1>2, TypeCorrect, PTL DEF Spec

-----------------------------------------------------------------------------
\* Before CONFIG SET is sent nothing was applied.
NothingSentYet ==
  \A r \in Requests : req[r].pc \in {"start", "get"} => ~req[r].applied

\* The value that is there is among those the parameter has had since it was read, and so
\* is the one that was read.
HeldIsKept ==
  \A r \in Requests :
    At(r, "set") /\ ~req[r].applied =>
      /\ config[req[r].param] \in req[r].held
      /\ req[r].oldVal \in {Unknown, Empty} \cup req[r].held

\* OldValueIsHonest is not inductive: that what is known of the values of a parameter since
\* one was read is complete must hold from the moment it was read.
HonestInv == NothingSentYet /\ HeldIsKept /\ OldValueIsHonest

\* What HonestInv says of one request h, given the values cfg of the parameters.
Honest(h, cfg) ==
  /\ h.pc \in {"start", "get"} => ~h.applied
  /\ (h.pc = "set" /\ ~h.applied) => /\ cfg[h.param] \in h.held
                                     /\ h.oldVal \in {Unknown, Empty} \cup h.held
  /\ h.applied => h.oldVal \in {Unknown, Empty} \/ {h.oldVal, h.before} \subseteq h.held

LEMMA HonestIffAll == HonestInv <=> \A r \in Requests : Honest(req[r], config)
BY DEF HonestInv, NothingSentYet, HeldIsKept, OldValueIsHonest, Honest, At

\* A request that is not about to replace what c holds stays honest when c is
\* set, and one that is stays so when the value is noted.
LEMMA HonestOvertaken ==
  ASSUME NEW h \in Handlers, NEW cfg \in [Params -> Values], NEW c \in Params, NEW v \in Values,
         Honest(h, cfg)
  PROVE  Honest(IF h.param = c /\ h.pc = "set" /\ ~h.applied
                  THEN [h EXCEPT !.held = @ \cup {v}] ELSE h,
                [cfg EXCEPT ![c] = v])
<1>1. CASE h.param = c /\ h.pc = "set" /\ ~h.applied
  BY <1>1 DEF Honest, Handlers
<1>2. CASE ~(h.param = c /\ h.pc = "set" /\ ~h.applied)
  BY <1>2 DEF Honest, Handlers
<1> QED
  BY <1>1, <1>2

\* The request whose CONFIG SET takes effect replaced what it read.
LEMMA HonestApplied ==
  ASSUME TypeOK, HonestInv, NEW r \in Requests, At(r, "set"),
         NEW step \in {"set", "record", "end"}, NEW status, NEW cfg
  PROVE  Honest(Applied(r, step, status), cfg)
<1>1. req[r] \in Handlers /\ Honest(req[r], config)
  BY HonestIffAll DEF TypeOK
<1>2. CASE req[r].applied
  BY <1>1, <1>2 DEF Honest, Applied, Handlers
<1>3. CASE ~req[r].applied
  BY <1>1, <1>3 DEF Honest, Applied, Handlers, At
<1> QED
  BY <1>2, <1>3

LEMMA ApplyHonest ==
  ASSUME TypeOK, HonestInv, NEW r \in Requests, At(r, "set"),
         NEW step \in {"set", "record", "end"}, NEW status \in {"none", "failed"},
         Apply(r, step, status)
  PROVE  HonestInv'
<1>1. ASSUME NEW q \in Requests PROVE Honest(req'[q], config')
  <2>1. PICK c \in Params, v \in Values :
          c = req[r].param /\ v = req[r].value /\ config' = [config EXCEPT ![c] = v]
    BY DEF TypeOK, Handlers, Apply
  <2>2. CASE q = r
    <3>1. req'[q] = Applied(r, step, status)
      BY <2>2 DEF Apply, Overtake, Overtaken, TypeOK
    <3> QED
      BY <3>1, HonestApplied
  <2>3. CASE q # r
    <3>1. req'[q] = IF req[q].param = c /\ req[q].pc = "set" /\ ~req[q].applied
                      THEN [req[q] EXCEPT !.held = @ \cup {v}] ELSE req[q]
      BY <2>1, <2>3 DEF Apply, Overtake, Overtaken, TypeOK, At
    <3>2. req[q] \in Handlers /\ config \in [Params -> Values] /\ Honest(req[q], config)
      BY HonestIffAll DEF TypeOK
    <3>3. Honest(IF req[q].param = c /\ req[q].pc = "set" /\ ~req[q].applied
                   THEN [req[q] EXCEPT !.held = @ \cup {v}] ELSE req[q],
                 [config EXCEPT ![c] = v])
      BY <3>2, HonestOvertaken
    <3> QED
      BY <2>1, <3>1, <3>3, Zenon
  <2> QED
    BY <2>2, <2>3
<1> QED
  BY <1>1 DEF HonestInv, NothingSentYet, HeldIsKept, OldValueIsHonest, Honest, At

\* A handler that only moves on, away from "set" or before it, stays honest.
LEMMA NextHonest ==
  ASSUME TypeOK, HonestInv, [Next]_vars
  PROVE  HonestInv'
<1>1. ASSUME NEW r \in Requests, Handle(r) PROVE HonestInv'
  <2>1. PICK step \in {"get", "end"} :
          /\ req' \in [Requests -> Handlers]
          /\ req'[r].pc = step /\ req'[r].applied = req[r].applied
          /\ \A q \in Requests \ {r} : req'[q] = req[q]
    <3>1. req' \in [Requests -> Handlers]
      BY NextTypeOK DEF TypeOK
    <3>2. CASE req' = [req EXCEPT ![r].pc = "get"]
      BY <3>1, <3>2 DEF TypeOK, Handlers
    <3>3. CASE req' = [req EXCEPT ![r].pc = "end", ![r].status = "bad_request"]
      BY <3>1, <3>3 DEF TypeOK, Handlers
    <3> QED
      BY <1>1, <3>2, <3>3 DEF Handle
  <2>2. config' = config /\ ~req[r].applied
    BY <1>1 DEF Handle, At, HonestInv, NothingSentYet
  <2>3. \A q \in Requests : Honest(req'[q], config')
    BY <2>1, <2>2, HonestIffAll DEF Honest
  <2> QED
    BY <2>3 DEF HonestInv, NothingSentYet, HeldIsKept, OldValueIsHonest, Honest, At
<1>2. ASSUME NEW r \in Requests, GetOld(r) PROVE HonestInv'
  <2>1. PICK v \in {config[req[r].param], Empty, Unknown} :
          req' = [req EXCEPT ![r].pc = "set", ![r].oldVal = v, ![r].held = {config[req[r].param]}]
    BY <1>2 DEF GetOld, OldValues
  <2>2. req[r] \in Handlers /\ req[r].pc = "get" /\ ~req[r].applied /\ config' = config
    BY <1>2 DEF TypeOK, GetOld, At, HonestInv, NothingSentYet
  <2>3. Honest(req'[r], config)
    BY <2>1, <2>2 DEF TypeOK, Handlers, Honest
  <2>4. \A q \in Requests \ {r} : req'[q] = req[q]
    BY <2>1 DEF TypeOK
  <2>5. \A q \in Requests : Honest(req'[q], config')
    BY <2>2, <2>3, <2>4, HonestIffAll
  <2> QED
    BY <2>5 DEF HonestInv, NothingSentYet, HeldIsKept, OldValueIsHonest, Honest, At
<1>3. ASSUME NEW r \in Requests, SetAnswered(r) PROVE HonestInv'
  BY <1>3, ApplyHonest DEF SetAnswered
<1>4. ASSUME NEW r \in Requests, SetUnanswered(r) PROVE HonestInv'
  BY <1>4, ApplyHonest DEF SetUnanswered
<1>5. ASSUME NEW r \in Requests, SetRefused(r) PROVE HonestInv'
  BY <1>5 DEF TypeOK, Handlers, SetRefused, At,
              HonestInv, NothingSentYet, HeldIsKept, OldValueIsHonest
<1>6. ASSUME NEW r \in Requests, Record(r) PROVE HonestInv'
  BY <1>6 DEF TypeOK, Handlers, Record, At,
              HonestInv, NothingSentYet, HeldIsKept, OldValueIsHonest
<1>7. ASSUME NEW c \in Params, OthersSet(c) PROVE HonestInv'
  <2>1. PICK v \in Values : /\ config' = [config EXCEPT ![c] = v]
                            /\ req' = Overtake(req, Overtaken(c), v)
    BY <1>7 DEF OthersSet
  <2>2. ASSUME NEW q \in Requests PROVE Honest(req'[q], config')
    <3>1. req'[q] = IF req[q].param = c /\ req[q].pc = "set" /\ ~req[q].applied
                      THEN [req[q] EXCEPT !.held = @ \cup {v}] ELSE req[q]
      BY <2>1 DEF Overtaken, Overtake, TypeOK, At
    <3>2. req[q] \in Handlers /\ config \in [Params -> Values] /\ Honest(req[q], config)
      BY HonestIffAll DEF TypeOK
    <3>3. Honest(IF req[q].param = c /\ req[q].pc = "set" /\ ~req[q].applied
                   THEN [req[q] EXCEPT !.held = @ \cup {v}] ELSE req[q],
                 [config EXCEPT ![c] = v])
      BY <3>2, HonestOvertaken
    <3> QED
      BY <2>1, <3>1, <3>3, Zenon
  <2> QED
    BY <2>2 DEF HonestInv, NothingSentYet, HeldIsKept, OldValueIsHonest, Honest, At
<1>8. CASE UNCHANGED vars
  BY <1>8 DEF vars, HonestInv, NothingSentYet, HeldIsKept, OldValueIsHonest, At
<1> QED
  BY <1>1, <1>2, <1>3, <1>4, <1>5, <1>6, <1>7, <1>8, NextCases

\* For any number of requests and whoever else sets the same parameters: the old value in the
\* log says that it is unknown, or was in force between its reading and the change, as the one
\* that was replaced was.
THEOREM OldValuesAreHonest == Spec => []OldValueIsHonest
<1>1. Init => HonestInv
  BY DEF Init, NewHandler, HonestInv, NothingSentYet, HeldIsKept, OldValueIsHonest, At
<1>2. TypeOK /\ HonestInv /\ [Next]_vars => HonestInv'
  BY NextHonest
<1>3. HonestInv => OldValueIsHonest
  BY DEF HonestInv
<1> QED
  BY <1>1, <1>2, <1>3, TypeCorrect, PTL DEF Spec
-----------------------------------------------------------------------------
\* What is recorded of request q.
About(q) == {i \in DOMAIN log : log[i].req = q}

\* OkIsRecordedOnce says nothing of the requests that are still running: that none of
\* them is answered yet or in the log, and that only a change that took effect is about
\* to be recorded, make it inductive.
RecordedAtTheEnd(q) ==
  /\ req[q].pc # "end" => req[q].status = "none"
  /\ req[q].pc = "record" => req[q].applied
  /\ req[q].status # "ok" => About(q) = {}
  /\ req[q].status = "ok" => /\ req[q].pc = "end" /\ req[q].applied
                             /\ \E i \in About(q) : About(q) = {i} /\ log[i] = Entry(q)

OnceInv == \A q \in Requests : RecordedAtTheEnd(q)

\* A step that records nothing and leaves request q as it is, but for a note that it was
\* overtaken, keeps what is recorded of it.
LEMMA OvertakenKeepsRecord ==
  ASSUME TypeOK, NEW q \in Requests, RecordedAtTheEnd(q), log' = log,
         req'[q] = req[q] \/ \E s : req'[q] = [req[q] EXCEPT !.held = s]
  PROVE  RecordedAtTheEnd(q)'
<1>1. req[q] \in Handlers
  BY DEF TypeOK
<1>2. /\ req'[q].pc = req[q].pc /\ req'[q].status = req[q].status
      /\ req'[q].applied = req[q].applied /\ req'[q].param = req[q].param
      /\ req'[q].oldVal = req[q].oldVal /\ req'[q].value = req[q].value
  BY <1>1 DEF Handlers
<1> QED
  BY <1>2 DEF RecordedAtTheEnd, About, Entry

\* A request that is not at its end moves on without an answer of 200.
LEMMA RunningKeepsRecord ==
  ASSUME TypeOK, NEW q \in Requests, RecordedAtTheEnd(q), log' = log, req[q].pc # "end",
         req'[q].pc # "end" => req'[q].status = "none",
         req'[q].pc = "record" => req'[q].applied,
         req'[q].status # "ok"
  PROVE  RecordedAtTheEnd(q)'
BY DEF RecordedAtTheEnd, About

LEMMA ApplyKeepsRecords ==
  ASSUME TypeOK, OnceInv, NEW r \in Requests, At(r, "set"),
         NEW step \in {"set", "record", "end"}, NEW status \in {"none", "failed"},
         step # "end" => status = "none", Apply(r, step, status), log' = log
  PROVE  OnceInv'
<1> SUFFICES ASSUME NEW q \in Requests PROVE RecordedAtTheEnd(q)'
  BY DEF OnceInv
<1>1. RecordedAtTheEnd(q)
  BY DEF OnceInv
<1>2. CASE q = r
  <2>1. req'[q] = Applied(r, step, status) /\ req[r] \in Handlers
    BY <1>2 DEF Apply, Overtake, Overtaken, TypeOK
  <2>2. req'[q].pc = step /\ req'[q].status = status /\ req'[q].applied = TRUE
    BY <2>1 DEF Applied, Handlers
  <2> QED
    BY <1>1, <1>2, <2>2, RunningKeepsRecord DEF At
<1>3. CASE q # r
  <2>1. req'[q] = req[q] \/ \E s : req'[q] = [req[q] EXCEPT !.held = s]
    BY <1>3 DEF Apply, Overtake, Overtaken, TypeOK
  <2> QED
    BY <1>1, <2>1, OvertakenKeepsRecord
<1> QED
  BY <1>2, <1>3

\* The record adds the one entry that is about its request.
LEMMA RecordRecordsOnce ==
  ASSUME TypeOK, OnceInv, NEW r \in Requests, Record(r)
  PROVE  OnceInv'
<1> DEFINE n == Len(log)
<1>1. /\ n \in Nat /\ log \in Seq(Entries) /\ req[r] \in Handlers
      /\ req[r].pc = "record" /\ log' = Append(log, Entry(r))
      /\ req' = [req EXCEPT ![r] = [req[r] EXCEPT !.pc = "end", !.status = "ok"]]
  <2>1. log \in Seq(Entries) /\ req \in [Requests -> Handlers]
    BY DEF TypeOK
  <2>2. req[r].pc = "record" /\ log' = Append(log, Entry(r))
    BY DEF Record, At
  <2>3. req' = [req EXCEPT ![r] = [req[r] EXCEPT !.pc = "end", !.status = "ok"]]
    BY <2>1 DEF Record
  <2> QED
    BY <2>1, <2>2, <2>3
<1>2. /\ req'[r].pc = "end" /\ req'[r].status = "ok" /\ req'[r].applied = req[r].applied
      /\ req'[r].param = req[r].param /\ req'[r].oldVal = req[r].oldVal
      /\ req'[r].value = req[r].value
      /\ \A q \in Requests \ {r} : req'[q] = req[q]
  BY <1>1 DEF Handlers, TypeOK
<1>3. /\ DOMAIN log = 1..n /\ DOMAIN log' = 1..(n + 1)
      /\ \A i \in 1..n : log'[i] = log[i]
      /\ log'[n + 1] = Entry(r)
  BY <1>1, EntryType
<1> HIDE DEF n
<1>4. Entry(r).req = r /\ Entry(r)' = Entry(r)
  BY <1>2 DEF Entry
<1>5. \A q \in Requests : About(q)' = IF q = r THEN About(q) \cup {n + 1} ELSE About(q)
  BY <1>1, <1>3, <1>4 DEF About
<1>6. RecordedAtTheEnd(r)'
  <2>1. About(r) = {} /\ req[r].applied
    BY <1>1 DEF OnceInv, RecordedAtTheEnd
  <2>2. About(r)' = {n + 1}
    BY <1>5, <2>1
  <2> QED
    BY <1>2, <1>3, <1>4, <2>1, <2>2 DEF RecordedAtTheEnd
<1>7. ASSUME NEW q \in Requests \ {r} PROVE RecordedAtTheEnd(q)'
  <2>1. RecordedAtTheEnd(q) /\ About(q)' = About(q) /\ Entry(q)' = Entry(q)
    BY <1>2, <1>5 DEF OnceInv, Entry
  <2>2. \A i \in About(q) : log'[i] = log[i]
    BY <1>3 DEF About
  <2> QED
    BY <1>2, <2>1, <2>2 DEF RecordedAtTheEnd
<1> QED
  BY <1>6, <1>7 DEF OnceInv

LEMMA NextRecordsOnce ==
  ASSUME TypeOK, OnceInv, [Next]_vars
  PROVE  OnceInv'
<1>1. ASSUME NEW r \in Requests, Handle(r) \/ GetOld(r) \/ SetRefused(r)
      PROVE  OnceInv'
  <2> SUFFICES ASSUME NEW q \in Requests PROVE RecordedAtTheEnd(q)'
    BY DEF OnceInv
  <2>1. RecordedAtTheEnd(q) /\ log' = log /\ req[q] \in Handlers
    BY <1>1 DEF OnceInv, Handle, GetOld, SetRefused, TypeOK
  <2>2. CASE q # r
    BY <1>1, <2>1, <2>2, OvertakenKeepsRecord DEF Handle, GetOld, SetRefused, TypeOK
  <2>3. CASE q = r
    <3>1. req[q].pc \notin {"end", "record"} /\ req[q].status = "none"
      BY <1>1, <2>1, <2>3 DEF Handle, GetOld, SetRefused, At, RecordedAtTheEnd
    <3>2. \/ req'[q].pc \in {"get", "set"} /\ req'[q].status = req[q].status
          \/ req'[q].pc = "end" /\ req'[q].status \in {"bad_request", "failed"}
      <4>1. CASE GetOld(r)
        <5>1. PICK v, s : req' = [req EXCEPT ![r].pc = "set", ![r].oldVal = v, ![r].held = s]
          BY <4>1 DEF GetOld
        <5>2. req' = [req EXCEPT ![r] = [req[r] EXCEPT !.pc = "set", !.oldVal = v, !.held = s]]
          BY <5>1 DEF TypeOK
        <5> QED
          BY <2>1, <2>3, <5>2 DEF TypeOK, Handlers
      <4>2. CASE Handle(r) \/ SetRefused(r)
        BY <2>1, <2>3, <4>2 DEF Handle, SetRefused, TypeOK, Handlers
      <4> QED
        BY <1>1, <4>1, <4>2
    <3> QED
      BY <2>1, <3>1, <3>2, RunningKeepsRecord
  <2> QED
    BY <2>2, <2>3
<1>2. ASSUME NEW r \in Requests, SetAnswered(r) PROVE OnceInv'
  BY <1>2, ApplyKeepsRecords DEF SetAnswered
<1>3. ASSUME NEW r \in Requests, SetUnanswered(r) PROVE OnceInv'
  BY <1>3, ApplyKeepsRecords DEF SetUnanswered
<1>4. ASSUME NEW r \in Requests, Record(r) PROVE OnceInv'
  BY <1>4, RecordRecordsOnce
<1>5. ASSUME NEW c \in Params, OthersSet(c) PROVE OnceInv'
  <2> SUFFICES ASSUME NEW q \in Requests PROVE RecordedAtTheEnd(q)'
    BY DEF OnceInv
  <2>1. RecordedAtTheEnd(q) /\ log' = log
    BY <1>5 DEF OnceInv, OthersSet
  <2>2. req'[q] = req[q] \/ \E s : req'[q] = [req[q] EXCEPT !.held = s]
    BY <1>5 DEF OthersSet, Overtake
  <2> QED
    BY <2>1, <2>2, OvertakenKeepsRecord
<1>6. CASE UNCHANGED vars
  BY <1>6 DEF vars, OnceInv, RecordedAtTheEnd, About, Entry
<1> QED
  BY <1>1, <1>2, <1>3, <1>4, <1>5, <1>6, NextCases

\* However many requests run and however often CONFIG SET is sent again: a request is
\* answered 200 exactly if the log has one entry about it, of a change that took effect.
THEOREM OksAreRecordedOnce == Spec => []OkIsRecordedOnce
<1>1. Init => OnceInv
  BY DEF Init, NewHandler, OnceInv, RecordedAtTheEnd, About
<1>2. TypeOK /\ OnceInv /\ [Next]_vars => OnceInv'
  BY NextRecordsOnce
<1>3. OnceInv => OkIsRecordedOnce
  BY DEF OnceInv, RecordedAtTheEnd, About, OkIsRecordedOnce
<1> QED
  BY <1>1, <1>2, <1>3, TypeCorrect, PTL DEF Spec
=============================================================================
