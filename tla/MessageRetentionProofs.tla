------------------------ MODULE MessageRetentionProofs ------------------------
(***************************************************************************)
(* Theorems about MessageRetention, for every number of messages, workers, *)
(* rows and days, and every retention.                                     *)
(***************************************************************************)
EXTENDS MessageRetention, TLAPS

\* S is a table: rows of the type, each with an id of its own.
Table(S) == S \subseteq Row /\ \A q, r \in S : q.id = r.id => q = r

\* S holds the rows of R, some of them changed: none is lost, added, disowned or
\* deprived of its content.
InPlace(R, S) ==
  /\ Table(S)
  /\ \A s \in S : \E r \in R : s.id = r.id /\ s.owned = r.owned
  /\ \A r \in R : \E s \in S : s.id = r.id /\ (r.content => s.content)

\* What HoldKeeps says of one step.
HoldStep ==
  hold => /\ IdsOf(rows) \subseteq IdsOf(rows')
          /\ IdsOf({r \in rows : r.content}) \subseteq IdsOf({r \in rows' : r.content})

-----------------------------------------------------------------------------
(***************************************************************************)
(* What the steps do to the table                                          *)
(***************************************************************************)

\* A table is itself, unchanged.
LEMMA SameInPlace == ASSUME NEW S, Table(S) PROVE InPlace(S, S)
  BY DEF InPlace, Table

\* One row changes, and keeps its id, owner and content.
LEMMA ReplacedInPlace ==
  ASSUME Table(rows), NEW q \in rows, NEW r \in Row,
         r.id = q.id, r.owned = q.owned, q.content => r.content
  PROVE  InPlace(rows, Replaced(r))
<1> DEFINE F(p) == IF p.id = r.id THEN r ELSE p
<1>1. \A p \in rows : F(p) \in Row /\ F(p).id = p.id
  BY DEF Table
<1>2. \A p \in rows : F(p).owned = p.owned /\ (p.content => F(p).content)
  BY DEF Table
<1>3. \A p \in rows : F(p) \in Replaced(r)
  BY DEF Replaced
<1>4. \A s \in Replaced(r) : \E p \in rows : s = F(p)
  BY DEF Replaced
<1>5. Table(Replaced(r))
  BY <1>1, <1>4 DEF Table
<1>6. QED
  BY <1>1, <1>2, <1>3, <1>4, <1>5 DEF InPlace

\* setInboundStatus and markInboundUndeliverable change a status and a counter.
LEMMA SetInboundInPlace ==
  ASSUME TypeOK, NEW w \in Workers, NEW status \in InboundStatus, NEW attempts \in 0..AttemptLimit,
         SetInbound(w, status, attempts)
  PROVE  InPlace(rows, rows')
<1> DEFINE F(p) == IF p.id = work[w].id
                     THEN [p EXCEPT !.status = status,
                                    !.attempts = IF attempts > @ THEN attempts ELSE @]
                     ELSE p
<1>1. ASSUME NEW p \in rows
      PROVE  /\ F(p) \in Row /\ F(p).id = p.id
             /\ F(p).owned = p.owned /\ F(p).content = p.content
  <2>1. p \in Row /\ p.attempts \in 0..AttemptLimit
    BY DEF TypeOK, Row
  <2>2. (IF attempts > p.attempts THEN attempts ELSE p.attempts) \in 0..AttemptLimit
    BY <2>1
  <2>3. \A a \in 0..AttemptLimit :
          LET q == [p EXCEPT !.status = status, !.attempts = a]
          IN q \in Row /\ q.id = p.id /\ q.owned = p.owned /\ q.content = p.content
    BY <2>1 DEF Row
  <2>4. QED
    BY <2>1, <2>2, <2>3
<1>3. rows' = {F(p) : p \in rows}
  BY DEF SetInbound
<1> HIDE DEF F
<1>4. Table(rows')
  BY <1>1, <1>3 DEF Table, TypeOK
<1>5. QED
  BY <1>1, <1>3, <1>4 DEF InPlace

\* markOutboundFailed and markOutboundDeliveryUnknown change a status.
LEMMA SetOutboundInPlace ==
  ASSUME TypeOK, NEW w \in Workers, NEW from, NEW status \in OutboundStatus,
         SetOutbound(w, from, status)
  PROVE  InPlace(rows, rows')
<1> DEFINE F(p) == IF p.id = work[w].out /\ p.status \in from THEN [p EXCEPT !.status = status]
                                                              ELSE p
<1>1. \A p \in rows : F(p) \in Row
  BY DEF TypeOK, Row
<1>2. \A p \in rows : F(p).id = p.id /\ F(p).owned = p.owned /\ F(p).content = p.content
  BY DEF TypeOK, Row
<1>3. rows' = {F(p) : p \in rows}
  BY DEF SetOutbound
<1> HIDE DEF F
<1>4. Table(rows')
  BY <1>1, <1>2, <1>3 DEF Table, TypeOK
<1>5. QED
  BY <1>2, <1>3, <1>4 DEF InPlace

\* A claim raises a counter that has not reached its limit.
LEMMA ClaimedInPlace ==
  ASSUME TypeOK, NEW r \in rows, AttemptsLeft(r)
  PROVE  InPlace(rows, Replaced(Claimed(r)))
<1>1. r \in Row /\ Table(rows)
  BY DEF TypeOK, Table
<1>2. Claimed(r) \in Row
  <2>1. r.attempts + 1 \in 0..AttemptLimit
    BY <1>1, LimitAssumption DEF AttemptsLeft, Row
  <2>2. QED
    BY <1>1, <2>1 DEF Claimed, Row, InboundStatus
<1>3. Claimed(r).id = r.id /\ Claimed(r).owned = r.owned /\ Claimed(r).content = r.content
  BY <1>1 DEF Claimed, Row
<1>4. QED
  BY <1>1, <1>2, <1>3, ReplacedInPlace

\* A new row has a new id and the user for an owner.
LEMMA InsertKeeps ==
  ASSUME RetentionInv, NEW out \in BOOLEAN, NEW m \in Messages,
         NEW status \in InboundStatus \cup OutboundStatus,
         NEW attempts \in 0..AttemptLimit, NEW reply \in 0..MaxRows,
         Insert(NewRow(out, m, status, attempts, reply)), UNCHANGED <<user, erasure>>,
         user, erasure.pc = "idle"
  PROVE  /\ Table(rows') /\ ids' \in 0..MaxRows /\ \A r \in rows' : r.id <= ids'
         /\ Owned' /\ Doomed' /\ Gone'
         /\ rows \subseteq rows'
<1> DEFINE n == NewRow(out, m, status, attempts, reply)
<1>1. ids' \in 0..MaxRows /\ ids' = ids + 1 /\ rows' = rows \cup {n}
  BY LimitAssumption DEF Insert, RetentionInv, TypeOK
<1>2. n.id = ids + 1 /\ n.owned
  BY DEF NewRow
<1>3. n \in Row
  BY <1>1, LimitAssumption DEF NewRow, Row, Ids, RetentionInv, TypeOK
<1>4. \A r \in rows : r.id \in Nat /\ r.id <= ids
  BY LimitAssumption DEF RetentionInv, TypeOK, Row, Ids
<1>5. Table(rows')
  BY <1>1, <1>2, <1>3, <1>4, LimitAssumption DEF Table, RetentionInv, TypeOK
<1>6. \A r \in rows' : r.id <= ids'
  BY <1>1, <1>2, <1>4, LimitAssumption DEF RetentionInv, TypeOK
<1>7. Owned'
  BY <1>1, <1>2 DEF Owned, RetentionInv
<1>8. QED
  BY <1>1, <1>5, <1>6, <1>7 DEF Doomed, Gone

\* A table changed in place keeps all that is said of it.
LEMMA InPlaceKeeps ==
  ASSUME RetentionInv, InPlace(rows, rows'), UNCHANGED <<ids, user, erasure>>
  PROVE  /\ Table(rows') /\ ids' \in 0..MaxRows /\ \A r \in rows' : r.id <= ids'
         /\ Owned' /\ Doomed' /\ Gone'
<1>1. Table(rows') /\ ids' \in 0..MaxRows /\ \A r \in rows' : r.id <= ids'
  BY DEF InPlace, RetentionInv, TypeOK
<1>2. Owned'
  BY DEF InPlace, RetentionInv, Owned
<1>3. Doomed'
  BY DEF InPlace, RetentionInv, Doomed, IdsOf
<1>4. Gone'
  BY DEF InPlace, RetentionInv, Gone
<1>5. QED
  BY <1>1, <1>2, <1>3, <1>4

-----------------------------------------------------------------------------
(***************************************************************************)
(* What the steps do to the workers                                        *)
(***************************************************************************)

\* A worker at rest has a task of the type.
LEMMA IdleType == Idle \in Task
  BY LimitAssumption DEF Idle, Task, Place

\* A worker gets a task with a message, or none.
LEMMA Advance ==
  ASSUME RetentionInv, NEW w \in Workers, NEW t \in Task,
         t.pc # "idle" => t.msg \in Messages,
         work' = [work EXCEPT ![w] = t]
  PROVE  work' \in [Workers -> Task] /\ Busy'
<1>1. work \in [Workers -> Task]
  BY DEF RetentionInv, TypeOK
<1>2. \A v \in Workers : work'[v] = IF v = w THEN t ELSE work[v]
  BY <1>1
<1>3. QED
  BY <1>1, <1>2 DEF RetentionInv, Busy

\* A worker is done.
LEMMA RestWork ==
  ASSUME RetentionInv, NEW w \in Workers, work' = [work EXCEPT ![w] = Idle]
  PROVE  work' \in [Workers -> Task] /\ Busy'
  BY Advance, IdleType DEF Idle

\* A worker goes on with its message.
LEMMA GotoWork ==
  ASSUME RetentionInv, NEW w \in Workers, work[w].pc # "idle",
         NEW pc \in Place, NEW out \in 0..MaxRows, NEW permanent \in BOOLEAN,
         NEW fate \in Fates \cup {"none"},
         work' = [work EXCEPT ![w] = [work[w] EXCEPT !.pc = pc, !.out = out,
                                                     !.permanent = permanent, !.fate = fate]]
  PROVE  work' \in [Workers -> Task] /\ Busy'
<1> DEFINE t == [work[w] EXCEPT !.pc = pc, !.out = out, !.permanent = permanent, !.fate = fate]
<1>1. work[w] \in Task
  BY DEF RetentionInv, TypeOK
<1>2. t \in Task /\ t.msg = work[w].msg
  BY <1>1 DEF Task
<1>3. t.msg \in Messages
  BY <1>2 DEF RetentionInv, Busy
<1>4. QED
  BY <1>2, <1>3, Advance

\* Goto moves a worker and nothing else.
LEMMA GotoType ==
  ASSUME RetentionInv, NEW w \in Workers, work[w].pc # "idle", NEW pc \in Place, Goto(w, pc)
  PROVE  work' \in [Workers -> Task] /\ Busy'
<1>1. work[w] \in Task
  BY DEF RetentionInv, TypeOK
<1>2. /\ work[w].out \in 0..MaxRows /\ work[w].permanent \in BOOLEAN
      /\ work[w].fate \in Fates \cup {"none"}
  BY <1>1 DEF Task
<1>3. work' = [work EXCEPT ![w] = [work[w] EXCEPT !.pc = pc, !.out = work[w].out,
                 !.permanent = work[w].permanent, !.fate = work[w].fate]]
  BY <1>1 DEF Goto, Task, RetentionInv, TypeOK
<1>4. QED
  BY <1>2, <1>3, GotoWork

-----------------------------------------------------------------------------
(***************************************************************************)
(* Steps of the application                                                *)
(***************************************************************************)

\* A step that changes rows in place, and no operator's transaction.
LEMMA InPlaceStep ==
  ASSUME RetentionInv, InPlace(rows, rows'), UNCHANGED <<ids, operators, clock>>,
         work' \in [Workers -> Task], Busy',
         sent' \in [Messages -> 0..Never], copies' \in [Messages -> Nat]
  PROVE  RetentionInv' /\ HoldStep
<1> USE DEF operators, clock
<1>1. /\ Table(rows') /\ ids' \in 0..MaxRows /\ \A r \in rows' : r.id <= ids'
      /\ Owned' /\ Doomed' /\ Gone'
  BY InPlaceKeeps
<1>2. TypeOK'
  BY <1>1 DEF RetentionInv, TypeOK, Table
<1>3. Frozen'
  BY DEF RetentionInv, Frozen, LifecycleFree
<1>4. HoldStep
  BY DEF HoldStep, InPlace, IdsOf
<1>5. QED
  BY <1>1, <1>2, <1>3, <1>4 DEF RetentionInv

\* A step that inserts a row of the user's.
LEMMA InsertStep ==
  ASSUME RetentionInv, NEW out \in BOOLEAN, NEW m \in Messages,
         NEW status \in InboundStatus \cup OutboundStatus,
         NEW attempts \in 0..AttemptLimit, NEW reply \in 0..MaxRows,
         Insert(NewRow(out, m, status, attempts, reply)), UNCHANGED <<operators, clock>>,
         user, ~UserLocked,
         work' \in [Workers -> Task], Busy',
         sent' \in [Messages -> 0..Never], copies' \in [Messages -> Nat]
  PROVE  RetentionInv' /\ HoldStep
<1> USE DEF operators, clock
<1>1. /\ Table(rows') /\ ids' \in 0..MaxRows /\ \A r \in rows' : r.id <= ids'
      /\ Owned' /\ Doomed' /\ Gone' /\ rows \subseteq rows'
  BY InsertKeeps DEF UserLocked
<1>2. TypeOK'
  BY <1>1 DEF RetentionInv, TypeOK, Table
<1>3. Frozen'
  BY DEF RetentionInv, Frozen, LifecycleFree
<1>4. HoldStep
  BY <1>1 DEF HoldStep, IdsOf
<1>5. QED
  BY <1>1, <1>2, <1>3, <1>4 DEF RetentionInv

\* A webhook stores a message, or finds it stored, and may give it to a worker.
LEMMA ReceiveStep ==
  ASSUME RetentionInv, NEW m \in Messages, Receive(m)
  PROVE  RetentionInv' /\ HoldStep
<1>1. UNCHANGED <<operators, clock>> /\ user /\ copies' \in [Messages -> Nat]
  BY DEF Receive, RetentionInv, TypeOK
<1>2. sent' \in [Messages -> 0..Never]
  <2>1. today \in 0..Never
    BY LimitAssumption DEF RetentionInv, TypeOK, Never
  <2>2. sent \in [Messages -> 0..Never]
    BY DEF RetentionInv, TypeOK
  <2>3. QED
    BY <2>1, <2>2 DEF Receive
<1>3. \A r \in rows' : r.id \in 0..MaxRows
  <2>1. CASE UNCHANGED table
    BY <2>1 DEF table, RetentionInv, TypeOK, Row, Ids
  <2>2. CASE Insert(NewRow(FALSE, m, "received", 0, 0))
    BY <2>2, LimitAssumption DEF Insert, NewRow, RetentionInv, TypeOK, Row, Ids
  <2>3. QED
    BY <2>1, <2>2 DEF Receive
<1>4. work' \in [Workers -> Task] /\ Busy'
  <2>1. CASE UNCHANGED work
    BY <2>1 DEF RetentionInv, TypeOK, Busy
  <2>2. CASE ~UNCHANGED work
    <3>1. PICK w \in Workers, r \in rows' :
            work' = [work EXCEPT ![w] = [Idle EXCEPT !.pc = "claim", !.msg = m, !.id = r.id]]
      BY <2>2 DEF Receive
    <3>2. [Idle EXCEPT !.pc = "claim", !.msg = m, !.id = r.id] \in Task
      <4>1. m \in 0..MaxMessages
        BY LimitAssumption DEF Messages
      <4>2. r.id \in 0..MaxRows
        BY <1>3
      <4>3. QED
        BY <4>1, <4>2, IdleType DEF Task, Place
    <3>3. [Idle EXCEPT !.pc = "claim", !.msg = m, !.id = r.id].msg = m
      BY DEF Idle
    <3>4. QED
      BY <3>1, <3>2, <3>3, Advance
  <2>3. QED
    BY <2>1, <2>2
<1>5. CASE UNCHANGED table
  <2>1. InPlace(rows, rows')
    BY <1>5, SameInPlace DEF table, Table, RetentionInv, TypeOK
  <2>2. QED
    BY <1>1, <1>2, <1>4, <1>5, <2>1, InPlaceStep DEF table
<1>6. CASE ~UNCHANGED table
  <2>1. Insert(NewRow(FALSE, m, "received", 0, 0)) /\ ~UserLocked
    BY <1>6 DEF Receive
  <2>2. 0 \in 0..AttemptLimit /\ 0 \in 0..MaxRows /\ "received" \in InboundStatus \cup OutboundStatus
    BY LimitAssumption DEF InboundStatus
  <2>3. QED
    BY <1>1, <1>2, <1>4, <2>1, <2>2, InsertStep
<1>7. QED
  BY <1>5, <1>6

\* claimInbound changes the row, or finds nothing.
LEMMA ClaimStep ==
  ASSUME RetentionInv, NEW w \in Workers, Claim(w)
  PROVE  RetentionInv' /\ HoldStep
<1>1. /\ UNCHANGED <<ids, operators, clock>>
      /\ sent' \in [Messages -> 0..Never] /\ copies' \in [Messages -> Nat]
      /\ work[w].pc # "idle"
  BY DEF Claim, At, meta, RetentionInv, TypeOK
<1>2. InPlace(rows, rows')
  <2>1. CASE UNCHANGED rows
    BY <2>1, SameInPlace DEF Table, RetentionInv, TypeOK
  <2>2. CASE ~UNCHANGED rows
    <3>1. PICK r \in rows : AttemptsLeft(r) /\ rows' = Replaced(Claimed(r))
      BY <2>2 DEF Claim, WithId
    <3>2. QED
      BY <3>1, ClaimedInPlace DEF RetentionInv
  <2>3. QED
    BY <2>1, <2>2
<1>3. work' = [work EXCEPT ![w] = Idle] \/ Goto(w, "reserve")
  BY DEF Claim
<1>4. work' \in [Workers -> Task] /\ Busy'
  BY <1>1, <1>3, RestWork, GotoType DEF Place
<1>5. QED
  BY <1>1, <1>2, <1>4, InPlaceStep

\* claimNextInbound changes the row.
LEMMA RecoverStep ==
  ASSUME RetentionInv, NEW w \in Workers, Recover(w)
  PROVE  RetentionInv' /\ HoldStep
<1>1. /\ UNCHANGED <<ids, operators, clock>>
      /\ sent' \in [Messages -> 0..Never] /\ copies' \in [Messages -> Nat]
  BY DEF Recover, meta, RetentionInv, TypeOK
<1>2. PICK r \in rows, pc \in {"reserve", "ignore"} :
        /\ AttemptsLeft(r) /\ rows' = Replaced(Claimed(r))
        /\ work' = [work EXCEPT ![w] = [Idle EXCEPT !.pc = pc, !.msg = r.msg, !.id = r.id]]
  BY DEF Recover
<1>3. InPlace(rows, rows')
  BY <1>2, ClaimedInPlace DEF RetentionInv
<1>4. work' \in [Workers -> Task] /\ Busy'
  <2>0. r.msg \in Messages /\ r.id \in Ids
    BY DEF RetentionInv, TypeOK, Row
  <2>1. r.msg \in Messages /\ r.msg \in 0..MaxMessages /\ r.id \in 0..MaxRows
    BY <2>0, LimitAssumption DEF Messages, Ids
  <2>2. [Idle EXCEPT !.pc = pc, !.msg = r.msg, !.id = r.id] \in Task
    BY <2>1, IdleType DEF Task, Place
  <2>3. [Idle EXCEPT !.pc = pc, !.msg = r.msg, !.id = r.id].msg = r.msg
    BY DEF Idle
  <2>4. QED
    BY <1>2, <2>1, <2>2, <2>3, Advance
<1>5. QED
  BY <1>1, <1>3, <1>4, InPlaceStep

\* The last steps of a message.
LEMMA SettleStep ==
  ASSUME RetentionInv, NEW w \in Workers, Ignore(w) \/ Finish(w) \/ Fail(w)
  PROVE  RetentionInv' /\ HoldStep
<1>1. PICK status \in InboundStatus, attempts \in 0..AttemptLimit :
        SetInbound(w, status, attempts)
  <2>1. 0 \in 0..AttemptLimit /\ AttemptLimit \in 0..AttemptLimit
    BY LimitAssumption
  <2>2. QED
    BY <2>1 DEF Ignore, Finish, Fail, InboundStatus
<1>2. /\ UNCHANGED <<ids, operators, clock>>
      /\ sent' \in [Messages -> 0..Never] /\ copies' \in [Messages -> Nat]
  BY <1>1 DEF SetInbound, meta, RetentionInv, TypeOK
<1>3. InPlace(rows, rows')
  BY <1>1, SetInboundInPlace DEF RetentionInv
<1>4. work' \in [Workers -> Task] /\ Busy'
  BY <1>1, RestWork DEF SetInbound
<1>5. QED
  BY <1>2, <1>3, <1>4, InPlaceStep

\* reserveOutbound inserts a row, or changes the one there is.
LEMMA ReserveStep ==
  ASSUME RetentionInv, NEW w \in Workers, Reserve(w)
  PROVE  RetentionInv' /\ HoldStep
<1>1. /\ UNCHANGED <<operators, clock>>
      /\ sent' \in [Messages -> 0..Never] /\ copies' \in [Messages -> Nat]
      /\ work[w].pc # "idle"
  BY DEF Reserve, At, meta, RetentionInv, TypeOK
<1>2. /\ work[w] \in Task /\ work[w].msg \in Messages /\ work[w].id \in 0..MaxRows
      /\ work[w].permanent \in BOOLEAN /\ work[w].fate \in Fates \cup {"none"}
  BY <1>1 DEF RetentionInv, TypeOK, Busy, Task
<1>3. \A pc \in Place, out \in 0..MaxRows :
        work' = [work EXCEPT ![w].pc = pc, ![w].out = out]
          => work' \in [Workers -> Task] /\ Busy'
  <2>1. SUFFICES ASSUME NEW pc \in Place, NEW out \in 0..MaxRows,
                        work' = [work EXCEPT ![w].pc = pc, ![w].out = out]
                 PROVE  work' \in [Workers -> Task] /\ Busy'
    OBVIOUS
  <2>2. work' = [work EXCEPT ![w] = [work[w] EXCEPT !.pc = pc, !.out = out,
                   !.permanent = work[w].permanent, !.fate = work[w].fate]]
    BY <1>2, <2>1 DEF Task, RetentionInv, TypeOK
  <2>3. QED
    BY <1>1, <1>2, <2>2, GotoWork
<1>4. CASE InsertReply(w) /\ ~UNCHANGED table
  <2>1. /\ Insert(NewRow(TRUE, work[w].msg, "sending", 1, work[w].id))
        /\ work' = [work EXCEPT ![w].pc = "send", ![w].out = ids + 1]
        /\ user /\ ~UserLocked
    BY <1>4 DEF InsertReply
  <2>2. ids + 1 \in 0..MaxRows
    BY <2>1, LimitAssumption DEF Insert, RetentionInv, TypeOK
  <2>3. work' \in [Workers -> Task] /\ Busy'
    BY <1>3, <2>1, <2>2 DEF Place
  <2>4. 1 \in 0..AttemptLimit /\ "sending" \in InboundStatus \cup OutboundStatus
    BY LimitAssumption DEF OutboundStatus
  <2>5. QED
    BY <1>1, <1>2, <2>1, <2>3, <2>4, InsertStep
<1>5. CASE InsertReply(w) /\ UNCHANGED table
  <2>0. ids' = ids /\ ids + 1 # ids
    BY <1>5, LimitAssumption DEF table, RetentionInv, TypeOK
  <2>1. Goto(w, "fail")
    BY <1>5, <2>0 DEF InsertReply, Insert
  <2>2. work' \in [Workers -> Task] /\ Busy'
    BY <1>1, <2>1, GotoType DEF Place
  <2>3. InPlace(rows, rows')
    BY <1>5, SameInPlace DEF table, Table, RetentionInv, TypeOK
  <2>4. QED
    BY <1>1, <1>5, <2>2, <2>3, InPlaceStep DEF table
<1>6. CASE \E r \in Replies(work[w].id) : ReuseReply(w, r)
  <2>1. PICK r \in rows : ReuseReply(w, r)
    BY <1>6 DEF Replies
  <2>2. r \in Row /\ Table(rows) /\ r.id \in 0..MaxRows
    BY LimitAssumption DEF RetentionInv, TypeOK, Table, Row, Ids
  <2>3. work' \in [Workers -> Task] /\ Busy'
    BY <1>3, <2>1, <2>2 DEF ReuseReply, Place
  <2>4. InPlace(rows, rows')
    <3>1. CASE UNCHANGED rows
      BY <2>2, <3>1, SameInPlace
    <3>2. CASE ~UNCHANGED rows
      <4> DEFINE s == [r EXCEPT !.status = "sending", !.attempts = @ + 1, !.content = TRUE]
      <4>1. AttemptsLeft(r) /\ rows' = Replaced(s)
        BY <2>1, <3>2 DEF ReuseReply, RetryMatches
      <4>2. r.attempts + 1 \in 0..AttemptLimit
        BY <2>2, <4>1, LimitAssumption DEF AttemptsLeft, Row
      <4>3. s \in Row /\ s.id = r.id /\ s.owned = r.owned /\ s.content
        BY <2>2, <4>2 DEF Row, OutboundStatus
      <4> HIDE DEF s
      <4>4. QED
        BY <2>2, <4>1, <4>3, ReplacedInPlace
    <3>3. QED
      BY <3>1, <3>2
  <2>5. QED
    BY <1>1, <2>1, <2>3, <2>4, InPlaceStep DEF ReuseReply
<1>7. QED
  BY <1>4, <1>5, <1>6 DEF Reserve

\* Before, during and after a request to Meta, no row changes.
LEMMA SendStep ==
  ASSUME RetentionInv, NEW w \in Workers, Send(w) \/ Interrupted(w) \/ Crash(w)
  PROVE  RetentionInv' /\ HoldStep
<1>1. /\ UNCHANGED <<ids, operators, clock>> /\ UNCHANGED rows
      /\ work[w].pc # "idle" /\ sent' \in [Messages -> 0..Never]
  BY DEF Send, Interrupted, Crash, At, meta, table, RetentionInv, TypeOK
<1>2. copies' \in [Messages -> Nat]
  <2>1. copies \in [Messages -> Nat] /\ \A m \in Messages : copies[m] + 1 \in Nat
    BY DEF RetentionInv, TypeOK
  <2>2. CASE UNCHANGED copies
    BY <2>1, <2>2
  <2>3. CASE ~UNCHANGED copies
    <3>1. copies' = [copies EXCEPT ![work[w].msg] = @ + 1]
      BY <2>3 DEF Send, Interrupted, Crash, meta
    <3>2. work[w].msg \in Messages
      BY <1>1 DEF RetentionInv, Busy
    <3>3. QED
      BY <2>1, <3>1, <3>2
  <2>4. QED
    BY <2>2, <2>3
<1>3. InPlace(rows, rows')
  BY <1>1, SameInPlace DEF Table, RetentionInv, TypeOK
<1>4. /\ work[w] \in Task /\ work[w].out \in 0..MaxRows
      /\ work[w].permanent \in BOOLEAN /\ work[w].fate \in Fates \cup {"none"}
  BY DEF RetentionInv, TypeOK, Task
<1>5. work' \in [Workers -> Task] /\ Busy'
  <2>1. CASE work' = [work EXCEPT ![w] = Idle]
    BY <2>1, RestWork
  <2>2. CASE \E pc \in Place : Goto(w, pc)
    BY <1>1, <2>2, GotoType
  <2>3. CASE \E f \in Fates : work' = [work EXCEPT ![w].pc = "markSent", ![w].fate = f]
    <3>1. PICK f \in Fates : work' = [work EXCEPT ![w].pc = "markSent", ![w].fate = f]
      BY <2>3
    <3>2. work' = [work EXCEPT ![w] = [work[w] EXCEPT !.pc = "markSent", !.out = work[w].out,
                     !.permanent = work[w].permanent, !.fate = f]]
      BY <1>4, <3>1 DEF Task, RetentionInv, TypeOK
    <3>3. "markSent" \in Place /\ f \in Fates \cup {"none"}
      BY DEF Place
    <3>4. QED
      BY <1>1, <1>4, <3>2, <3>3, GotoWork
  <2>4. CASE \E b \in BOOLEAN : work' = [work EXCEPT ![w].pc = "markFailed", ![w].permanent = b]
    <3>1. PICK b \in BOOLEAN : work' = [work EXCEPT ![w].pc = "markFailed", ![w].permanent = b]
      BY <2>4
    <3>2. work' = [work EXCEPT ![w] = [work[w] EXCEPT !.pc = "markFailed", !.out = work[w].out,
                     !.permanent = b, !.fate = work[w].fate]]
      BY <1>4, <3>1 DEF Task, RetentionInv, TypeOK
    <3>3. "markFailed" \in Place
      BY DEF Place
    <3>4. QED
      BY <1>1, <1>4, <3>2, <3>3, GotoWork
  <2>5. QED
    BY <2>1, <2>2, <2>3, <2>4 DEF Send, Interrupted, Crash, Goto, Place
<1>6. QED
  BY <1>1, <1>2, <1>3, <1>5, InPlaceStep

\* What a worker writes to the reservation.
LEMMA MarkStep ==
  ASSUME RetentionInv, NEW w \in Workers, MarkSent(w) \/ MarkFailed(w) \/ MarkUnknown(w)
  PROVE  RetentionInv' /\ HoldStep
<1>1. /\ UNCHANGED <<ids, operators, clock>> /\ work[w].pc # "idle"
      /\ sent' \in [Messages -> 0..Never] /\ copies' \in [Messages -> Nat]
  BY DEF MarkSent, MarkFailed, MarkUnknown, SetOutbound, At, meta, RetentionInv, TypeOK
<1>2. work' \in [Workers -> Task] /\ Busy'
  <2>1. \E pc \in {"markUnknown", "finish", "fail"} : Goto(w, pc)
    BY DEF MarkSent, MarkFailed, MarkUnknown
  <2>2. QED
    BY <1>1, <2>1, GotoType DEF Place
<1>3. InPlace(rows, rows')
  <2>1. CASE MarkFailed(w) \/ MarkUnknown(w)
    <3>1. SetOutbound(w, {"sending"}, "failed") \/ SetOutbound(w, {"sending", "failed"}, "delivery_unknown")
      BY <2>1 DEF MarkFailed, MarkUnknown
    <3>2. "failed" \in OutboundStatus /\ "delivery_unknown" \in OutboundStatus
      BY DEF OutboundStatus
    <3>3. QED
      BY <3>1, <3>2, SetOutboundInPlace DEF RetentionInv
  <2>2. CASE MarkSent(w) /\ UNCHANGED rows
    BY <2>2, SameInPlace DEF Table, RetentionInv, TypeOK
  <2>3. CASE MarkSent(w) /\ ~UNCHANGED rows
    <3>1. PICK r \in rows : rows' = Replaced([r EXCEPT !.status = "sent", !.fate = work[w].fate])
      BY <2>3 DEF MarkSent, WithId
    <3>2. r \in Row /\ Table(rows) /\ work[w].fate \in Fates \cup {"none"}
      BY DEF RetentionInv, TypeOK, Table, Task
    <3> DEFINE Sent(f) == [r EXCEPT !.status = "sent", !.fate = f]
               s == Sent(work[w].fate)
    <3>3. s \in Row /\ s.id = r.id /\ s.owned = r.owned /\ s.content = r.content
      <4>1. \A f \in Fates \cup {"none"} :
              /\ Sent(f) \in Row /\ Sent(f).id = r.id
              /\ Sent(f).owned = r.owned /\ Sent(f).content = r.content
        BY <3>2 DEF Row, OutboundStatus
      <4> HIDE DEF Sent
      <4>2. QED
        BY <3>2, <4>1
    <3> HIDE DEF s
    <3>4. rows' = Replaced(s)
      BY <3>1 DEF s
    <3>5. QED
      BY <3>2, <3>3, <3>4, ReplacedInPlace
  <2>4. QED
    BY <2>1, <2>2, <2>3
<1>4. QED
  BY <1>1, <1>2, <1>3, InPlaceStep

\* A delivery status moves a reply.
LEMMA StatusStep ==
  ASSUME RetentionInv, NEW r \in rows, DeliveryStatus(r)
  PROVE  RetentionInv' /\ HoldStep
<1>1. /\ UNCHANGED <<ids, operators, clock>>
      /\ work' \in [Workers -> Task] /\ Busy'
      /\ sent' \in [Messages -> 0..Never] /\ copies' \in [Messages -> Nat]
  BY DEF DeliveryStatus, meta, RetentionInv, TypeOK, Busy
<1>2. r \in Row /\ Table(rows)
  BY DEF RetentionInv, TypeOK, Table
<1>3. PICK status \in OutboundStatus, fate \in Fates \cup {"none"} :
        rows' = Replaced([r EXCEPT !.status = status, !.fate = fate])
  <2>1. CASE rows' = Replaced([r EXCEPT !.status = "delivered"])
    <3>1. [r EXCEPT !.status = "delivered"] = [r EXCEPT !.status = "delivered", !.fate = r.fate]
      BY <1>2 DEF Row
    <3>2. r.fate \in Fates \cup {"none"}
      BY <1>2 DEF Row
    <3>3. QED
      BY <2>1, <3>1, <3>2 DEF OutboundStatus
  <2>2. CASE rows' = Replaced([r EXCEPT !.status = "failed", !.fate = "none"])
    BY <2>2 DEF OutboundStatus
  <2>3. QED
    BY <2>1, <2>2 DEF DeliveryStatus
<1> DEFINE s == [r EXCEPT !.status = status, !.fate = fate]
<1>4. s \in Row /\ s.id = r.id /\ s.owned = r.owned /\ s.content = r.content
  BY <1>2 DEF Row
<1> HIDE DEF s
<1>5. rows' = Replaced(s)
  BY <1>3 DEF s
<1>6. InPlace(rows, rows')
  BY <1>2, <1>4, <1>5, ReplacedInPlace
<1>7. QED
  BY <1>1, <1>6, InPlaceStep

-----------------------------------------------------------------------------
(***************************************************************************)
(* Steps of the job and of the operators                                   *)
(***************************************************************************)

\* A step that leaves the rows alone and ends or moves a transaction, or changes
\* the hold while there is none, or turns the clock.
LEMMA QuietStep ==
  ASSUME RetentionInv, UNCHANGED <<table, user, work, meta>>,
         job' \in [pc : {"idle", "minimize", "purge"}, now : 0..MaxDays, minimized : SUBSET Ids],
         erasure' \in [pc : {"idle", "messages", "user"}, doomed : SUBSET Ids],
         aborts' \in 0..MaxAborts, hold' \in BOOLEAN,
         today' \in 0..MaxDays, overdue' \subseteq Messages,
         Doomed', Frozen', erasure'.pc # "idle" => user
  PROVE  RetentionInv' /\ HoldStep
<1> USE DEF table, meta
<1>1. TypeOK' /\ Busy' /\ Owned'
  BY DEF RetentionInv, TypeOK, Busy, Owned
<1>2. Gone'
  BY DEF RetentionInv, TypeOK, Gone
<1>3. HoldStep
  BY DEF HoldStep
<1>4. QED
  BY <1>1, <1>2, <1>3 DEF RetentionInv

\* What the next transactions rest on: a transaction in progress is typed, and
\* there is none under a hold.
LEMMA Transactions ==
  ASSUME RetentionInv
  PROVE  /\ job \in [pc : {"idle", "minimize", "purge"}, now : 0..MaxDays, minimized : SUBSET Ids]
         /\ erasure \in [pc : {"idle", "messages", "user"}, doomed : SUBSET Ids]
         /\ NoJob \in [pc : {"idle", "minimize", "purge"}, now : 0..MaxDays, minimized : SUBSET Ids]
         /\ NoErasure \in [pc : {"idle", "messages", "user"}, doomed : SUBSET Ids]
         /\ aborts \in 0..MaxAborts /\ hold \in BOOLEAN /\ user \in BOOLEAN
         /\ today \in 0..MaxDays /\ overdue \subseteq Messages
         /\ ~LifecycleFree => ~hold
         /\ erasure.pc # "idle" => user
         /\ \A S \in SUBSET rows : IdsOf(S) \in SUBSET Ids
<1>1. 0 \in 0..MaxDays
  BY LimitAssumption
<1>2. \A S \in SUBSET rows : IdsOf(S) \in SUBSET Ids
  BY DEF RetentionInv, TypeOK, IdsOf, Row
<1>3. (~LifecycleFree => ~hold) /\ (erasure.pc # "idle" => user)
  BY DEF RetentionInv, Frozen, Gone
<1>4. QED
  BY <1>1, <1>2, <1>3 DEF RetentionInv, TypeOK, NoJob, NoErasure

\* The job begins, minimizes, or fails.
LEMMA JobStep ==
  ASSUME RetentionInv, BeginJob \/ Minimize \/ JobFails
  PROVE  RetentionInv' /\ HoldStep
<1> USE DEF clock
<1>1. /\ UNCHANGED <<table, user, work, meta>> /\ UNCHANGED <<hold, erasure, today, overdue>>
  BY DEF BeginJob, Minimize, JobFails
<1>2. job' \in [pc : {"idle", "minimize", "purge"}, now : 0..MaxDays, minimized : SUBSET Ids]
  <2>1. CASE BeginJob
    <3>1. \A d \in 0..MaxDays : [NoJob EXCEPT !.pc = "minimize", !.now = d] \in
            [pc : {"idle", "minimize", "purge"}, now : 0..MaxDays, minimized : SUBSET Ids]
      BY DEF NoJob
    <3>2. QED
      BY <2>1, <3>1, Transactions DEF BeginJob
  <2>2. CASE Minimize
    <3>1. \A S \in SUBSET Ids : [job EXCEPT !.pc = "purge", !.minimized = S] \in
            [pc : {"idle", "minimize", "purge"}, now : 0..MaxDays, minimized : SUBSET Ids]
      BY Transactions
    <3>2. IdsOf({r \in rows : HasExpiredContent(r, job.now)}) \in SUBSET Ids
      BY Transactions
    <3>3. QED
      BY <2>2, <3>1, <3>2 DEF Minimize
  <2>3. CASE JobFails
    BY <2>3, Transactions DEF JobFails
  <2>4. QED
    BY <2>1, <2>2, <2>3
<1>3. aborts' \in 0..MaxAborts
  BY Transactions, LimitAssumption DEF BeginJob, Minimize, JobFails
<1>4. Frozen'
  <2>1. ~hold
    BY Transactions DEF BeginJob, Minimize, JobFails, LifecycleFree
  <2>2. QED
    BY <1>1, <2>1 DEF Frozen
<1>5. Doomed'
  BY <1>1 DEF Doomed, RetentionInv, table
<1>6. QED
  BY <1>1, <1>2, <1>3, <1>4, <1>5, Transactions, QuietStep

\* The job deletes what has expired, and commits.
LEMMA PurgeStep ==
  ASSUME RetentionInv, Purge
  PROVE  RetentionInv' /\ HoldStep
<1> DEFINE gone == IdsOf({r \in rows : Purgeable(r, job.now)})
           F(q) == [[q EXCEPT !.reply = IF @ \in gone THEN 0 ELSE @]
                      EXCEPT !.content = @ /\ q.id \notin job.minimized]
<1>1. ~hold
  BY Transactions DEF Purge, LifecycleFree
<1>2. ASSUME NEW q \in rows
      PROVE  F(q) \in Row /\ F(q).id = q.id /\ F(q).owned = q.owned
  <2>1. q \in Row
    BY DEF RetentionInv, TypeOK
  <2>2. (IF q.reply \in gone THEN 0 ELSE q.reply) \in 0..MaxRows
    BY <2>1, LimitAssumption DEF Row
  <2>3. PICK p \in Row : /\ p = [q EXCEPT !.reply = IF @ \in gone THEN 0 ELSE @]
                         /\ p.id = q.id /\ p.owned = q.owned
    <3>1. \A n \in 0..MaxRows : LET p == [q EXCEPT !.reply = n]
                                IN p \in Row /\ p.id = q.id /\ p.owned = q.owned
      BY <2>1 DEF Row
    <3> HIDE DEF gone
    <3>2. QED
      BY <2>2, <3>1
  <2>4. \A b \in BOOLEAN : LET s == [p EXCEPT !.content = b]
                           IN s \in Row /\ s.id = p.id /\ s.owned = p.owned
    BY DEF Row
  <2>5. (p.content /\ q.id \notin job.minimized) \in BOOLEAN
    OBVIOUS
  <2>6. F(q) = [p EXCEPT !.content = p.content /\ q.id \notin job.minimized]
    BY <2>3
  <2>7. QED
    BY <2>3, <2>4, <2>5, <2>6
<1>3. \A s \in rows' : \E q \in rows : s = F(q)
  <2>1. ASSUME NEW s \in rows'
        PROVE  \E q \in rows : s = F(q)
    <3>1. PICK r \in Without(gone) : s = [r EXCEPT !.content = @ /\ r.id \notin job.minimized]
      BY DEF Purge
    <3>2. PICK q \in rows : r = [q EXCEPT !.reply = IF @ \in gone THEN 0 ELSE @]
      BY <3>1 DEF Without
    <3>3. r.id = q.id
      BY <3>2 DEF RetentionInv, TypeOK, Row
    <3>4. QED
      BY <3>1, <3>2, <3>3
  <2>2. QED
    BY <2>1
<1> HIDE DEF F
<1>4. rows' \subseteq Row /\ (\A q, r \in rows' : q.id = r.id => q = r)
  BY <1>2, <1>3 DEF RetentionInv, TypeOK
<1>5. ids' \in 0..MaxRows /\ \A r \in rows' : r.id <= ids'
  <2>1. ids' = ids /\ ids \in 0..MaxRows /\ \A q \in rows : q.id <= ids
    BY DEF Purge, RetentionInv, TypeOK
  <2>2. QED
    BY <1>2, <1>3, <2>1
<1>6. TypeOK' /\ Busy'
  BY <1>4, <1>5, Transactions DEF Purge, RetentionInv, TypeOK, Busy, clock, meta
<1>7. Owned' /\ Doomed' /\ Gone'
  <2>1. UNCHANGED <<user, erasure>>
    BY DEF Purge
  <2>2. Owned'
    BY <1>2, <1>3 DEF RetentionInv, Owned
  <2>3. Doomed'
    BY <1>2, <1>3, <2>1 DEF RetentionInv, Doomed, IdsOf
  <2>4. Gone'
    BY <1>3, <2>1 DEF RetentionInv, Gone
  <2>5. QED
    BY <2>2, <2>3, <2>4
<1>8. Frozen' /\ HoldStep
  BY <1>1 DEF Purge, Frozen, HoldStep
<1>9. QED
  BY <1>6, <1>7, <1>8 DEF RetentionInv

\* The erasure of the user begins, deletes their messages, or fails.
LEMMA ErasureStep ==
  ASSUME RetentionInv, BeginErasure \/ EraseMessages \/ ErasureFails
  PROVE  RetentionInv' /\ HoldStep
<1> USE DEF clock
<1>1. /\ UNCHANGED <<table, user, work, meta>> /\ UNCHANGED <<hold, job, today, overdue>>
  BY DEF BeginErasure, EraseMessages, ErasureFails
<1>2. user /\ ~hold
  BY Transactions DEF BeginErasure, EraseMessages, ErasureFails, LifecycleFree
<1>3. /\ erasure' \in [pc : {"idle", "messages", "user"}, doomed : SUBSET Ids]
      /\ Doomed'
  <2>1. CASE BeginErasure
    <3>1. erasure' = [pc |-> "messages", doomed |-> {}]
      BY <2>1 DEF BeginErasure, NoErasure
    <3>2. QED
      BY <3>1 DEF Doomed
  <2>2. CASE EraseMessages
    <3>1. erasure' = [pc |-> "user", doomed |-> IdsOf({r \in rows : r.owned})]
      BY <2>2 DEF EraseMessages
    <3>2. IdsOf({r \in rows : r.owned}) \in SUBSET Ids
      BY Transactions
    <3>3. IdsOf(rows) \subseteq IdsOf({r \in rows : r.owned}) /\ rows' = rows
      BY <1>1 DEF IdsOf, RetentionInv, Owned, table
    <3>4. QED
      BY <3>1, <3>2, <3>3 DEF Doomed, IdsOf
  <2>3. CASE ErasureFails
    BY <2>3, Transactions DEF ErasureFails, NoErasure, Doomed
  <2>4. QED
    BY <2>1, <2>2, <2>3
<1>4. aborts' \in 0..MaxAborts
  BY Transactions, LimitAssumption DEF BeginErasure, EraseMessages, ErasureFails
<1>5. Frozen'
  BY <1>1, <1>2 DEF Frozen
<1>6. QED
  BY <1>1, <1>2, <1>3, <1>4, <1>5, Transactions, QuietStep

\* The user goes, and no row is left: all were the user's, and those found when
\* the messages were deleted are all there are.
LEMMA EraseUserStep ==
  ASSUME RetentionInv, EraseUser
  PROVE  RetentionInv' /\ HoldStep
<1>1. rows' = {}
  <2>1. \A r \in rows : r.id \in erasure.doomed
    BY DEF EraseUser, RetentionInv, Doomed, IdsOf
  <2>2. Without(erasure.doomed) = {}
    BY <2>1 DEF Without
  <2>3. QED
    BY <2>2 DEF EraseUser
<1>2. ~hold
  BY Transactions DEF EraseUser, LifecycleFree
<1>3. TypeOK' /\ Busy'
  BY <1>1, Transactions DEF EraseUser, RetentionInv, TypeOK, Busy, clock, meta
<1>4. Owned' /\ Doomed' /\ Gone' /\ Frozen' /\ HoldStep
  BY <1>1, <1>2 DEF EraseUser, Owned, Doomed, Gone, Frozen, HoldStep, IdsOf, NoErasure
<1>5. QED
  BY <1>3, <1>4 DEF RetentionInv

\* The client goes, and so does everything else.
LEMMA EraseClientStep ==
  ASSUME RetentionInv, EraseClient
  PROVE  RetentionInv' /\ HoldStep
<1>1. TypeOK' /\ Busy'
  BY DEF EraseClient, RetentionInv, TypeOK, Busy, clock, meta
<1>2. Owned' /\ Doomed' /\ Gone' /\ Frozen' /\ HoldStep
  BY DEF EraseClient, Owned, Doomed, Gone, Frozen, HoldStep, IdsOf, LifecycleFree
<1>3. QED
  BY <1>1, <1>2 DEF RetentionInv

\* The hold changes only while no transaction deletes.
LEMMA HoldChangeStep ==
  ASSUME RetentionInv, ChangeHold
  PROVE  RetentionInv' /\ HoldStep
<1>1. Frozen' /\ Doomed'
  BY DEF ChangeHold, Frozen, Doomed, LifecycleFree
<1>2. UNCHANGED <<table, user, work, meta>> /\ hold' \in BOOLEAN
  BY DEF ChangeHold
<1>3. UNCHANGED <<job, erasure, aborts, today, overdue>>
  BY DEF ChangeHold, clock
<1>4. QED
  BY <1>1, <1>2, <1>3, Transactions, QuietStep

\* A day passes.
LEMMA TickStep ==
  ASSUME RetentionInv, Tick
  PROVE  RetentionInv' /\ HoldStep
<1>1. UNCHANGED <<table, user, work, meta>> /\ UNCHANGED <<hold, job, erasure, aborts>>
  BY DEF Tick, operators
<1>2. today' \in 0..MaxDays
  BY Transactions, LimitAssumption DEF Tick
<1>3. overdue' \subseteq Messages
  BY DEF Tick, RetentionInv, TypeOK, Row
<1>4. Frozen' /\ Doomed'
  BY <1>1 DEF RetentionInv, Frozen, Doomed, LifecycleFree, table, IdsOf
<1>5. QED
  BY <1>1, <1>2, <1>3, <1>4, Transactions, QuietStep

-----------------------------------------------------------------------------
(***************************************************************************)
(* Theorems                                                                *)
(***************************************************************************)

LEMMA InitInv == Init => RetentionInv
<1>1. SUFFICES ASSUME Init PROVE RetentionInv
  OBVIOUS
<1>2. Never \in 0..Never /\ 0 \in 0..MaxRows /\ 0 \in 0..MaxAborts /\ 0 \in 0..MaxDays
  BY LimitAssumption DEF Never
<1>3. TypeOK
  BY <1>1, <1>2, IdleType DEF Init, TypeOK, NoJob, NoErasure
<1>4. Busy /\ Owned /\ Doomed /\ Gone /\ Frozen
  BY <1>1 DEF Init, Busy, Owned, Doomed, Gone, Frozen, Idle, NoErasure
<1>5. QED
  BY <1>3, <1>4 DEF RetentionInv

LEMMA NextInv == RetentionInv /\ [Next]_vars => RetentionInv' /\ HoldStep
<1>1. SUFFICES ASSUME RetentionInv, [Next]_vars PROVE RetentionInv' /\ HoldStep
  OBVIOUS
<1>2. CASE UNCHANGED vars
  BY <1>1, <1>2 DEF vars, RetentionInv, TypeOK, Busy, Owned, Doomed, Gone, Frozen, LifecycleFree,
                    IdsOf, HoldStep
<1>3. CASE \E m \in Messages : Receive(m)
  BY <1>1, <1>3, ReceiveStep
<1>4. ASSUME NEW w \in Workers, Recover(w) \/ Work(w) \/ Crash(w)
      PROVE  RetentionInv' /\ HoldStep
  BY <1>1, <1>4, RecoverStep, ClaimStep, SettleStep, ReserveStep, SendStep, MarkStep DEF Work
<1>5. CASE \E r \in rows : DeliveryStatus(r)
  BY <1>1, <1>5, StatusStep
<1>6. CASE BeginJob \/ Minimize \/ Purge \/ JobFails
  BY <1>1, <1>6, JobStep, PurgeStep
<1>7. CASE \/ BeginErasure \/ EraseMessages \/ EraseUser \/ ErasureFails \/ EraseClient
           \/ ChangeHold \/ Tick
  BY <1>1, <1>7, ErasureStep, EraseUserStep, EraseClientStep, HoldChangeStep, TickStep
<1>8. QED
  BY <1>1, <1>2, <1>3, <1>4, <1>5, <1>6, <1>7 DEF Next

\* The transactions of the job and the erasures, the locks they take and the rows
\* the application writes meanwhile keep the invariant, in every reachable state.
THEOREM TableSafety == Spec => []RetentionInv
  BY InitInv, NextInv, PTL DEF Spec

\* Once the user is erased (scripts/erase-user-data.ts) no message of theirs is
\* left, whichever webhook, recovery or worker was storing one meanwhile.
THEOREM ErasureSafety == Spec => []ErasedForGood
<1>1. RetentionInv => ErasedForGood
  BY DEF RetentionInv, Gone, ErasedForGood
<1>2. QED
  BY <1>1, TableSafety, PTL

\* No step under a legal hold deletes a message or its content, not even one of a
\* job that began before the hold was asked for.
THEOREM RetentionHoldSafety == Spec => HoldKeeps
<1>1. RetentionInv /\ [Next]_vars => HoldStep
  BY NextInv
<1>2. QED
  BY <1>1, TableSafety, PTL DEF Spec, HoldKeeps, HoldStep

-----------------------------------------------------------------------------
(***************************************************************************)
(* Answered at most once: the inductive invariant                          *)
(***************************************************************************)

\* The replies to m.
Outs(m) == {q \in rows : q.out /\ q.msg = m}

\* Workers whose answer to m is on its way, or is accepted or rejected and not yet
\* recorded as such.
Holders(m) == {w \in Workers : work[w].pc \in {"send", "markSent", "markFailed"} /\ work[w].msg = m}

\* A row is no older than the webhook, and a reply no older than the message it
\* refers to.
Dated ==
  \A q \in rows :
    /\ q.day <= today
    /\ sent[q.msg] # Never
    /\ ~q.out => q.reply = 0 /\ sent[q.msg] <= q.day
    /\ q.reply # 0 => \E r \in rows : r.id = q.reply /\ ~r.out /\ r.msg = q.msg /\ r.day <= q.day

\* Only a reply that was accepted has a fate.
Fated ==
  \A q \in rows :
    /\ q.fate # "none" => q.out /\ q.status \in {"sent", "delivered"}
    /\ q.fate = "failed" => q.status = "sent"

\* A message that was not sent has no answer.
Unsent == \A m \in Messages : sent[m] = Never => copies[m] = 0

\* Neither the job's clock nor a webhook is ahead of the day.
Timed ==
  /\ job.pc # "idle" => job.now <= today
  /\ \A m \in Messages : sent[m] # Never => sent[m] <= today

\* The ids a worker holds were given to rows of its message, or are free for ever.
AboutOf(w) ==
  work[w].pc # "idle" =>
    /\ sent[work[w].msg] # Never
    /\ work[w].id \in 1..ids
    /\ \A r \in rows : r.id = work[w].id => ~r.out /\ r.msg = work[w].msg
    /\ work[w].pc \in {"send", "markSent", "markFailed", "markUnknown"} =>
         /\ work[w].out \in 1..ids
         /\ \A r \in rows : r.id = work[w].out => r.out /\ r.msg = work[w].msg

\* m has one row and one reply at most, and the reply refers to the row.
Single(m) ==
  \A q, r \in rows : q.msg = m /\ r.msg = m =>
    /\ (q.out <=> r.out) => q = r
    /\ q.out /\ ~r.out => q.reply = r.id

\* While Meta may repeat m, its row is there.
Known(m) ==
  sent[m] # Never /\ user => Inbound(m) # {} \/ sent[m] + RedeliveryDays < today

\* When the record of m may go, nobody works on m any more, and nobody will.
SettledInTime(m) ==
  \A r \in Inbound(m) : Expired(r, today, RecordDays) =>
    Settled(r) /\ \A w \in Workers : work[w].pc # "idle" => work[w].id # r.id

\* m is answered once: one worker at a time carries an answer to m; the reservation
\* is open as long as it does; a message without a reservation, and one whose reply
\* may be tried again, has no answer.
Once(m) ==
  /\ copies[m] <= 1
  /\ \A v, w \in Holders(m) : v = w
  /\ \A w \in Holders(m), q \in Outs(m) : q.status \in {"sending", "delivery_unknown"}
  /\ Inbound(m) # {} /\ Outs(m) = {} => copies[m] = 0 /\ Holders(m) = {}
  /\ \A q \in Outs(m) : q.status = "failed" \/ q.fate = "failed" => copies[m] = 0
  /\ \A w \in Holders(m) : copies[m] = 0 \/ (work[w].pc = "markSent" /\ work[w].fate = "delivered")

\* Why AnsweredOnce holds.
AnswerInv ==
  /\ Dated /\ Fated /\ Unsent /\ Timed
  /\ \A w \in Workers : AboutOf(w)
  /\ \A m \in Messages \ overdue : Single(m) /\ Known(m) /\ SettledInTime(m) /\ Once(m)

-----------------------------------------------------------------------------
(***************************************************************************)
(* What keeps its parts                                                    *)
(***************************************************************************)

\* q and r are the same message or reply, whatever has become of it.
Alike(q, r) ==
  q.id = r.id /\ q.out = r.out /\ q.msg = r.msg /\ q.day = r.day /\ q.reply = r.reply

\* The rows are the same messages and replies as before.
SameShape ==
  /\ \A s \in rows' : \E r \in rows : Alike(s, r)
  /\ \A r \in rows : \E s \in rows' : Alike(s, r)

\* One row becomes s.
LEMMA Change ==
  ASSUME TypeOK, NEW r \in rows, NEW s, Alike(s, r), rows' = Replaced(s)
  PROVE  SameShape /\ rows' = (rows \ {r}) \cup {s}
<1>1. \A q \in rows : q.id = s.id <=> q = r
  BY DEF TypeOK, Alike
<1>2. rows' = (rows \ {r}) \cup {s}
  BY <1>1 DEF Replaced
<1>3. QED
  BY <1>2 DEF SameShape, Alike

\* A worker of a message that was settled in time has not let it expire.
LEMMA InTime ==
  ASSUME RetentionInv, AnswerInv, NEW w \in Workers, work[w].pc # "idle",
         NEW r \in rows, r.id = work[w].id, r.msg \notin overdue
  PROVE  ~Expired(r, today, RecordDays)
<1>1. ~r.out /\ r.msg = work[w].msg
  BY DEF AnswerInv, AboutOf
<1>2. r.msg \in Messages
  BY DEF RetentionInv, TypeOK, Row
<1>3. SettledInTime(r.msg) /\ r \in Inbound(r.msg)
  BY <1>1, <1>2 DEF AnswerInv, Inbound
<1>4. QED
  BY <1>3 DEF SettledInTime

\* Rows of the same shape are as old, and as few, as before.
LEMMA ShapeKeeps ==
  ASSUME RetentionInv, RetentionInv', AnswerInv, SameShape, UNCHANGED <<user, today, sent>>
  PROVE  Dated' /\ \A m \in Messages \ overdue : Single(m)' /\ Known(m)'
<1>1. Dated'
  <2>1. SUFFICES ASSUME NEW s \in rows'
        PROVE /\ s.day <= today
              /\ sent[s.msg] # Never
              /\ ~s.out => s.reply = 0 /\ sent[s.msg] <= s.day
              /\ s.reply # 0 =>
                   \E p \in rows' : p.id = s.reply /\ ~p.out /\ p.msg = s.msg /\ p.day <= s.day
    BY DEF Dated
  <2>2. PICK q \in rows : Alike(s, q)
    BY DEF SameShape
  <2>3. /\ q.day <= today
        /\ sent[q.msg] # Never
        /\ ~q.out => q.reply = 0 /\ sent[q.msg] <= q.day
        /\ q.reply # 0 => \E r \in rows : r.id = q.reply /\ ~r.out /\ r.msg = q.msg /\ r.day <= q.day
    BY DEF AnswerInv, Dated
  <2>4. ASSUME s.reply # 0
        PROVE  \E p \in rows' : p.id = s.reply /\ ~p.out /\ p.msg = s.msg /\ p.day <= s.day
    <3>1. PICK r \in rows : r.id = q.reply /\ ~r.out /\ r.msg = q.msg /\ r.day <= q.day
      BY <2>2, <2>3, <2>4 DEF Alike
    <3>2. PICK p \in rows' : Alike(p, r)
      BY DEF SameShape
    <3>3. QED
      BY <2>2, <3>1, <3>2 DEF Alike
  <2>5. QED
    BY <2>2, <2>3, <2>4 DEF Alike
<1>2. ASSUME NEW m \in Messages \ overdue PROVE Single(m)'
  <2>1. SUFFICES ASSUME NEW q \in rows', NEW r \in rows', q.msg = m, r.msg = m
        PROVE  /\ (q.out <=> r.out) => q = r
               /\ q.out /\ ~r.out => q.reply = r.id
    BY DEF Single
  <2>2. PICK p \in rows : Alike(q, p)
    BY DEF SameShape
  <2>3. PICK s \in rows : Alike(r, s)
    BY DEF SameShape
  <2>4. p.msg = m /\ s.msg = m
    BY <2>1, <2>2, <2>3 DEF Alike
  <2>5. /\ (p.out <=> s.out) => p = s
        /\ p.out /\ ~s.out => p.reply = s.id
    BY <2>4 DEF AnswerInv, Single
  <2>6. q.id = r.id => q = r
    BY DEF RetentionInv, TypeOK
  <2>7. QED
    BY <2>2, <2>3, <2>5, <2>6 DEF Alike
<1>3. ASSUME NEW m \in Messages \ overdue PROVE Known(m)'
  <2>1. Inbound(m) # {} => Inbound(m)' # {}
    BY DEF Inbound, SameShape, Alike
  <2>2. Known(m)
    BY DEF AnswerInv
  <2>3. QED
    BY <2>1, <2>2 DEF Known
<1>4. QED
  BY <1>1, <1>2, <1>3

\* A worker that does not move still holds ids of its message.
LEMMA AboutKeeps ==
  ASSUME RetentionInv, RetentionInv', AnswerInv, NEW w \in Workers, work'[w] = work[w],
         \A s \in rows' : s.id > ids \/ \E r \in rows : s.id = r.id /\ s.out = r.out /\ s.msg = r.msg,
         ids <= ids', \A m \in Messages : sent[m] # Never => sent'[m] # Never
  PROVE  AboutOf(w)'
<1>1. SUFFICES ASSUME work[w].pc # "idle"
      PROVE  /\ sent'[work[w].msg] # Never
             /\ work[w].id \in 1..ids'
             /\ \A r \in rows' : r.id = work[w].id => ~r.out /\ r.msg = work[w].msg
             /\ work[w].pc \in {"send", "markSent", "markFailed", "markUnknown"} =>
                  /\ work[w].out \in 1..ids'
                  /\ \A r \in rows' : r.id = work[w].out => r.out /\ r.msg = work[w].msg
  BY DEF AboutOf
<1>2. /\ sent[work[w].msg] # Never
      /\ work[w].id \in 1..ids
      /\ \A r \in rows : r.id = work[w].id => ~r.out /\ r.msg = work[w].msg
      /\ work[w].pc \in {"send", "markSent", "markFailed", "markUnknown"} =>
           /\ work[w].out \in 1..ids
           /\ \A r \in rows : r.id = work[w].out => r.out /\ r.msg = work[w].msg
  BY <1>1 DEF AnswerInv, AboutOf
<1>3. ids \in Nat /\ ids' \in Nat /\ ids <= ids' /\ work[w].msg \in Messages
  BY <1>1, LimitAssumption DEF RetentionInv, TypeOK, Busy
<1>4. \A n \in 1..ids : n \in 1..ids' /\ ~(n > ids)
  BY <1>3
<1>5. \A s \in rows' : s.id \in 1..ids => \E r \in rows : s.id = r.id /\ s.out = r.out /\ s.msg = r.msg
  BY <1>4
<1>6. QED
  BY <1>2, <1>3, <1>4, <1>5

\* A message whose replies are where they were, but for a delivery declared unknown,
\* or gone with the message, keeps its answer.
LEMMA OnceKept ==
  ASSUME NEW m \in Messages, Once(m),
         \A q \in Outs(m)' : \E p \in Outs(m) :
            (q.status = p.status \/ q.status = "delivery_unknown") /\ q.fate = p.fate,
         Inbound(m)' # {} /\ Outs(m)' = {} => Inbound(m) # {} /\ Outs(m) = {},
         \A w \in Holders(m)' :
            w \in Holders(m) /\ work'[w].pc = work[w].pc /\ work'[w].fate = work[w].fate,
         copies'[m] = copies[m]
  PROVE  Once(m)'
<1>1. copies'[m] <= 1
  BY DEF Once
<1>2. \A v, w \in Holders(m)' : v = w
  BY DEF Once
<1>3. \A w \in Holders(m)', q \in Outs(m)' : q.status \in {"sending", "delivery_unknown"}
  BY DEF Once
<1>4. Inbound(m)' # {} /\ Outs(m)' = {} => copies'[m] = 0 /\ Holders(m)' = {}
  BY DEF Once
<1>5. \A q \in Outs(m)' : q.status = "failed" \/ q.fate = "failed" => copies'[m] = 0
  BY DEF Once
<1>6. \A w \in Holders(m)' : copies'[m] = 0 \/ (work'[w].pc = "markSent" /\ work'[w].fate = "delivered")
  BY DEF Once
<1>7. QED
  BY <1>1, <1>2, <1>3, <1>4, <1>5, <1>6 DEF Once

\* A step that inserts and deletes no row keeps the invariant if its answers are as
\* they should be, and what it writes on a message is written in time.
LEMMA MoveStep ==
  ASSUME RetentionInv, RetentionInv', AnswerInv, SameShape,
         UNCHANGED <<user, today, overdue, job, sent>>,
         \A w \in Workers : AboutOf(w)', Fated', Unsent',
         \A m \in Messages \ overdue : \A r \in Inbound(m)' : Expired(r, today, RecordDays) =>
            /\ r \in rows
            /\ \A w \in Workers : work'[w].pc # "idle" /\ work'[w].id = r.id =>
                  work[w].pc # "idle" /\ work[w].id = r.id,
         \A m \in Messages \ overdue : Once(m)'
  PROVE  AnswerInv'
<1>1. Dated' /\ \A m \in Messages \ overdue : Single(m)' /\ Known(m)'
  BY ShapeKeeps
<1>2. Timed'
  BY DEF AnswerInv, Timed
<1>3. ASSUME NEW m \in Messages \ overdue PROVE SettledInTime(m)'
  <2>1. SUFFICES ASSUME NEW r \in Inbound(m)', Expired(r, today, RecordDays)
        PROVE  Settled(r) /\ \A w \in Workers : work'[w].pc # "idle" => work'[w].id # r.id
    BY DEF SettledInTime, Expired, Settled
  <2>2. r \in Inbound(m)
    BY <2>1 DEF Inbound
  <2>3. Settled(r) /\ \A w \in Workers : work[w].pc # "idle" => work[w].id # r.id
    BY <2>1, <2>2 DEF AnswerInv, SettledInTime
  <2>4. QED
    BY <2>1, <2>3
<1>4. QED
  BY <1>1, <1>2, <1>3 DEF AnswerInv

\* Worker w goes on with its message, or stops.
Advances(w, t) ==
  /\ work' = [work EXCEPT ![w] = t]
  /\ t.pc # "idle" =>
       /\ work[w].pc # "idle" /\ t.msg = work[w].msg /\ t.id = work[w].id
       /\ t.pc \in {"send", "markSent", "markFailed", "markUnknown"} =>
            /\ work[w].pc \in {"send", "markSent", "markFailed", "markUnknown"}
            /\ t.out = work[w].out

\* Such a step keeps the invariant if its answers are as they should be.
LEMMA ProgressStep ==
  ASSUME RetentionInv, RetentionInv', AnswerInv, SameShape,
         UNCHANGED <<ids, user, today, overdue, job, sent>>,
         NEW w \in Workers, NEW t, Advances(w, t), Fated', Unsent',
         \A r \in rows' : r \in rows \/ r.out \/ r.msg \in overdue \/ ~Expired(r, today, RecordDays),
         \A m \in Messages \ overdue : Once(m)'
  PROVE  AnswerInv'
<1>1. \A v \in Workers : work'[v] = IF v = w THEN t ELSE work[v]
  BY DEF Advances, RetentionInv, TypeOK
<1>2. ids \in Nat /\ ids' = ids
  BY DEF RetentionInv, TypeOK
<1>3. \A s \in rows' : s.id > ids \/ \E r \in rows : s.id = r.id /\ s.out = r.out /\ s.msg = r.msg
  BY DEF SameShape, Alike
<1>4. \A v \in Workers : v # w => AboutOf(v)'
  BY <1>1, <1>2, <1>3, AboutKeeps
<1>5. AboutOf(w)'
  <2>1. SUFFICES ASSUME t.pc # "idle"
        PROVE  /\ sent[t.msg] # Never
               /\ t.id \in 1..ids
               /\ \A r \in rows' : r.id = t.id => ~r.out /\ r.msg = t.msg
               /\ t.pc \in {"send", "markSent", "markFailed", "markUnknown"} =>
                    /\ t.out \in 1..ids
                    /\ \A r \in rows' : r.id = t.out => r.out /\ r.msg = t.msg
    BY <1>1 DEF AboutOf
  <2>2. AboutOf(w) /\ work[w].pc # "idle"
    BY <2>1 DEF AnswerInv, Advances
  <2>3. QED
    BY <2>1, <2>2 DEF Advances, AboutOf, SameShape, Alike
<1>6. \A m \in Messages \ overdue : \A r \in Inbound(m)' : Expired(r, today, RecordDays) =>
         /\ r \in rows
         /\ \A v \in Workers : work'[v].pc # "idle" /\ work'[v].id = r.id =>
               work[v].pc # "idle" /\ work[v].id = r.id
  BY <1>1 DEF Inbound, Advances
<1>7. QED
  BY <1>4, <1>5, <1>6, MoveStep

\* The replies and who carries them are what they were.
LEMMA OncesKept ==
  ASSUME AnswerInv, copies' = copies,
         \A m \in Messages : Outs(m)' = Outs(m) /\ (Inbound(m)' # {} => Inbound(m) # {}),
         \A m \in Messages : \A w \in Holders(m)' : w \in Holders(m) /\ work'[w] = work[w]
  PROVE  \A m \in Messages \ overdue : Once(m)'
<1>1. ASSUME NEW m \in Messages \ overdue PROVE Once(m)'
  <2>1. Once(m)
    BY DEF AnswerInv
  <2>2. QED
    BY <2>1, OnceKept
<1>2. QED
  BY <1>1

\* A worker that carries no answer afterwards takes none over.
LEMMA HoldersShrink ==
  ASSUME RetentionInv, NEW w \in Workers, NEW t, work' = [work EXCEPT ![w] = t],
         t.pc \notin {"send", "markSent", "markFailed"}
  PROVE  \A m \in Messages : \A v \in Holders(m)' : v \in Holders(m) /\ work'[v] = work[v]
<1>1. \A v \in Workers : work'[v] = IF v = w THEN t ELSE work[v]
  BY DEF RetentionInv, TypeOK
<1>2. QED
  BY <1>1 DEF Holders

\* Rows that stay are what they were.
LEMMA Unmoved ==
  ASSUME AnswerInv, rows' = rows
  PROVE  SameShape /\ Fated' /\ \A m : Outs(m)' = Outs(m) /\ Inbound(m)' = Inbound(m)
  BY DEF SameShape, Alike, AnswerInv, Fated, Outs, Inbound

\* A message becomes s; its reply stays.
LEMMA InboundChange ==
  ASSUME RetentionInv, AnswerInv, NEW r \in rows, NEW s, Alike(s, r), ~r.out, s.fate = r.fate,
         rows' = Replaced(s)
  PROVE  /\ SameShape /\ Fated' /\ rows' = (rows \ {r}) \cup {s}
         /\ \A m : Outs(m)' = Outs(m) /\ (Inbound(m)' # {} => Inbound(m) # {})
<1>1. SameShape /\ rows' = (rows \ {r}) \cup {s}
  BY Change DEF RetentionInv
<1>2. r.fate = "none"
  BY DEF AnswerInv, Fated
<1>3. Fated'
  BY <1>1, <1>2 DEF AnswerInv, Fated
<1>4. ~s.out /\ s.msg = r.msg
  BY DEF Alike
<1>5. \A m : Outs(m)' = Outs(m)
  BY <1>1, <1>4 DEF Outs
<1>6. \A m : Inbound(m)' # {} => Inbound(m) # {}
  BY <1>1, <1>4 DEF Inbound
<1>7. QED
  BY <1>1, <1>3, <1>5, <1>6

-----------------------------------------------------------------------------
(***************************************************************************)
(* Steps that write on messages                                            *)
(***************************************************************************)

\* A worker goes on without an answer, and leaves the rows alone or writes on its
\* message.
LEMMA PlainStep ==
  ASSUME RetentionInv, RetentionInv', AnswerInv,
         UNCHANGED <<ids, operators, clock, meta>>,
         NEW w \in Workers, NEW t, Advances(w, t), t.pc \notin {"send", "markSent", "markFailed"},
         \/ rows' = rows
         \/ \E r \in rows : \E s : /\ work[w].pc # "idle" /\ r.id = work[w].id
                                   /\ Alike(s, r) /\ s.fate = r.fate /\ rows' = Replaced(s)
  PROVE  AnswerInv'
<1>1. UNCHANGED <<ids, user, today, overdue, job, sent, copies>>
  BY DEF operators, clock, meta
<1>2. Unsent'
  BY <1>1 DEF AnswerInv, Unsent
<1>3. work' = [work EXCEPT ![w] = t]
  BY DEF Advances
<1>4. /\ SameShape /\ Fated'
      /\ \A m : Outs(m)' = Outs(m) /\ (Inbound(m)' # {} => Inbound(m) # {})
      /\ \A r \in rows' : r \in rows \/ r.out \/ r.msg \in overdue \/ ~Expired(r, today, RecordDays)
  <2>1. CASE rows' = rows
    BY <2>1, Unmoved
  <2>2. CASE rows' # rows
    <3>1. PICK r \in rows : \E s : /\ work[w].pc # "idle" /\ r.id = work[w].id
                                   /\ Alike(s, r) /\ s.fate = r.fate /\ rows' = Replaced(s)
      BY <2>2
    <3>2. PICK s : Alike(s, r) /\ s.fate = r.fate /\ rows' = Replaced(s)
      BY <3>1
    <3>3. work[w].pc # "idle" /\ r.id = work[w].id
      BY <3>1
    <3>4. ~r.out
      BY <3>3 DEF AnswerInv, AboutOf
    <3>5. /\ SameShape /\ Fated' /\ rows' = (rows \ {r}) \cup {s}
          /\ \A m : Outs(m)' = Outs(m) /\ (Inbound(m)' # {} => Inbound(m) # {})
      BY <3>2, <3>4, InboundChange
    <3>6. r.msg \in overdue \/ ~Expired(r, today, RecordDays)
      BY <3>3, InTime
    <3>7. s.msg = r.msg /\ s.day = r.day
      BY <3>2 DEF Alike
    <3>8. s.msg \in overdue \/ ~Expired(s, today, RecordDays)
      BY <3>6, <3>7 DEF Expired
    <3>9. QED
      BY <3>5, <3>8
  <2>3. QED
    BY <2>1, <2>2
<1>5. \A m \in Messages \ overdue : Once(m)'
  BY <1>1, <1>3, <1>4, HoldersShrink, OncesKept
<1>6. QED
  BY <1>1, <1>2, <1>4, <1>5, ProgressStep

\* Where a worker goes with its message.
LEMMA GotoAdvances ==
  ASSUME RetentionInv, NEW w \in Workers, NEW pc, Goto(w, pc), work[w].pc # "idle",
         pc \in {"send", "markSent", "markFailed", "markUnknown"} =>
            work[w].pc \in {"send", "markSent", "markFailed", "markUnknown"}
  PROVE  \E t : Advances(w, t) /\ t.pc = pc
<1> DEFINE t == [work[w] EXCEPT !.pc = pc]
<1>1. work[w] \in Task /\ work \in [Workers -> Task]
  BY DEF RetentionInv, TypeOK
<1>2. t.pc = pc /\ t.msg = work[w].msg /\ t.id = work[w].id /\ t.out = work[w].out
  BY <1>1 DEF Task
<1>3. work' = [work EXCEPT ![w] = t]
  BY DEF Goto
<1> HIDE DEF t
<1>4. Advances(w, t)
  BY <1>2, <1>3 DEF Advances
<1>5. QED
  BY <1>2, <1>4

\* A worker that stops goes nowhere.
LEMMA RestAdvances ==
  ASSUME NEW w \in Workers, work' = [work EXCEPT ![w] = Idle]
  PROVE  Advances(w, Idle) /\ Idle.pc = "idle"
  BY DEF Advances, Idle

LEMMA ClaimAnswer ==
  ASSUME RetentionInv, RetentionInv', AnswerInv, NEW w \in Workers, Claim(w)
  PROVE  AnswerInv'
<1>1. UNCHANGED <<ids, operators, clock, meta>> /\ work[w].pc # "idle"
  BY DEF Claim, At
<1>2. CASE work' = [work EXCEPT ![w] = Idle] /\ UNCHANGED rows
  BY <1>1, <1>2, RestAdvances, PlainStep
<1>3. CASE \E r \in WithId(work[w].id) : rows' = Replaced(Claimed(r)) /\ Goto(w, "reserve")
  <2>1. PICK r \in rows : r.id = work[w].id /\ rows' = Replaced(Claimed(r))
    BY <1>3 DEF WithId
  <2>2. r \in Row
    BY DEF RetentionInv, TypeOK
  <2>3. Alike(Claimed(r), r) /\ Claimed(r).fate = r.fate
    BY <2>2 DEF Claimed, Row, Alike
  <2>4. PICK t : Advances(w, t) /\ t.pc = "reserve"
    BY <1>1, <1>3, GotoAdvances
  <2>5. QED
    BY <1>1, <2>1, <2>3, <2>4, PlainStep
<1>4. QED
  BY <1>2, <1>3 DEF Claim

\* Ignore, Finish and Fail.
LEMMA SettleAnswer ==
  ASSUME RetentionInv, RetentionInv', AnswerInv, NEW w \in Workers, work[w].pc # "idle",
         NEW status, NEW attempts, SetInbound(w, status, attempts)
  PROVE  AnswerInv'
<1> DEFINE F(p) == [p EXCEPT !.status = status, !.attempts = IF attempts > @ THEN attempts ELSE @]
<1>1. UNCHANGED <<ids, operators, clock, meta>> /\ Advances(w, Idle) /\ Idle.pc = "idle"
  BY RestAdvances DEF SetInbound
<1>2. rows' = {IF p.id = work[w].id THEN F(p) ELSE p : p \in rows}
  BY DEF SetInbound
<1>3. \A p \in rows : Alike(F(p), p) /\ F(p).fate = p.fate
  BY DEF RetentionInv, TypeOK, Row, Alike
<1> HIDE DEF F
<1>4. CASE \A p \in rows : p.id # work[w].id
  <2>1. rows' = rows
    BY <1>2, <1>4
  <2>2. QED
    BY <1>1, <2>1, PlainStep
<1>5. CASE \E p \in rows : p.id = work[w].id
  <2>1. PICK r \in rows : r.id = work[w].id
    BY <1>5
  <2>2. \A p \in rows : p.id = work[w].id <=> p = r
    BY <2>1 DEF RetentionInv, TypeOK
  <2>3. F(r).id = r.id
    BY <1>3 DEF Alike
  <2>4. rows' = Replaced(F(r))
    BY <1>2, <2>1, <2>2, <2>3 DEF Replaced
  <2>5. QED
    BY <1>1, <1>3, <2>1, <2>4, PlainStep
<1>6. QED
  BY <1>4, <1>5

\* A worker dies, or gives its message up before there is a reply.
LEMMA StopAnswer ==
  ASSUME RetentionInv, RetentionInv', AnswerInv, NEW w \in Workers, Crash(w) \/ Interrupted(w)
  PROVE  AnswerInv'
<1>1. UNCHANGED <<ids, operators, clock, meta>> /\ rows' = rows /\ work[w].pc # "idle"
  BY DEF Crash, Interrupted, At, table
<1>2. CASE Crash(w)
  BY <1>1, <1>2, RestAdvances, PlainStep DEF Crash
<1>3. CASE Interrupted(w)
  <2>1. PICK t : Advances(w, t) /\ t.pc = "fail"
    BY <1>1, <1>3, GotoAdvances DEF Interrupted
  <2>2. QED
    BY <1>1, <2>1, PlainStep
<1>4. QED
  BY <1>2, <1>3

LEMMA RecoverAnswer ==
  ASSUME RetentionInv, RetentionInv', AnswerInv, NEW w \in Workers, Recover(w)
  PROVE  AnswerInv'
<1>1. UNCHANGED <<ids, user, today, overdue, job, sent, copies>>
  BY DEF Recover, operators, clock, meta
<1>2. PICK r \in rows, pc \in {"reserve", "ignore"} :
        /\ ~r.out /\ r.status \in {"received", "failed", "processing"} /\ AttemptsLeft(r)
        /\ rows' = Replaced(Claimed(r))
        /\ work' = [work EXCEPT ![w] = [Idle EXCEPT !.pc = pc, !.msg = r.msg, !.id = r.id]]
  BY DEF Recover
<1>3. r \in Row /\ r.id \in 1..ids /\ r.msg \in Messages
  BY LimitAssumption DEF RetentionInv, TypeOK, Row, Ids
<1> DEFINE s == Claimed(r)
           t == [Idle EXCEPT !.pc = pc, !.msg = r.msg, !.id = r.id]
<1>4. Alike(s, r) /\ s.fate = r.fate
  BY <1>3 DEF Claimed, Row, Alike
<1>5. t.pc = pc /\ t.msg = r.msg /\ t.id = r.id
  BY DEF Idle
<1>6. \A v \in Workers : work'[v] = IF v = w THEN t ELSE work[v]
  BY <1>2 DEF RetentionInv, TypeOK
<1>7. rows' = Replaced(s) /\ work' = [work EXCEPT ![w] = t]
  BY <1>2
<1> HIDE DEF s, t
<1>8. /\ SameShape /\ Fated' /\ rows' = (rows \ {r}) \cup {s}
      /\ \A m : Outs(m)' = Outs(m) /\ (Inbound(m)' # {} => Inbound(m) # {})
  BY <1>2, <1>4, <1>7, InboundChange
<1>9. Unsent'
  BY <1>1 DEF AnswerInv, Unsent
<1>10. \A q \in rows' : q.id = r.id => q = s
  BY <1>4, <1>8 DEF RetentionInv, TypeOK, Alike
<1>11. \A v \in Workers : v # w => AboutOf(v)'
  <2>1. \A q \in rows' : q.id > ids \/ \E p \in rows : q.id = p.id /\ q.out = p.out /\ q.msg = p.msg
    BY <1>8 DEF SameShape, Alike
  <2>2. ids <= ids'
    BY <1>1 DEF RetentionInv, TypeOK
  <2>3. QED
    BY <1>1, <1>6, <2>1, <2>2, AboutKeeps
<1>12. AboutOf(w)'
  <2>1. sent[r.msg] # Never
    BY DEF AnswerInv, Dated
  <2>2. ~s.out /\ s.msg = r.msg
    BY <1>2, <1>4 DEF Alike
  <2>3. QED
    BY <1>1, <1>3, <1>5, <1>6, <1>10, <2>1, <2>2 DEF AboutOf
<1>13. ASSUME NEW m \in Messages \ overdue, NEW q \in Inbound(m)', Expired(q, today, RecordDays)
       PROVE  q \in rows /\ q.id # r.id
  <2>1. q # s
    <3>1. SUFFICES ASSUME q = s PROVE FALSE
      OBVIOUS
    <3>2. Expired(r, today, RecordDays) /\ r \in Inbound(m)
      BY <1>2, <1>4, <1>13, <3>1 DEF Expired, Alike, Inbound
    <3>3. Settled(r)
      BY <3>2 DEF AnswerInv, SettledInTime
    <3>4. r.attempts \in Nat /\ AttemptLimit \in Nat
      BY <1>3, LimitAssumption DEF Row
    <3>5. QED
      BY <1>2, <3>3, <3>4 DEF Settled, AttemptsLeft
  <2>2. QED
    BY <1>8, <1>10, <2>1 DEF Inbound
<1>14. \A m \in Messages \ overdue : \A q \in Inbound(m)' : Expired(q, today, RecordDays) =>
          /\ q \in rows
          /\ \A v \in Workers : work'[v].pc # "idle" /\ work'[v].id = q.id =>
                work[v].pc # "idle" /\ work[v].id = q.id
  BY <1>5, <1>6, <1>13
<1>15. \A m \in Messages \ overdue : Once(m)'
  BY <1>1, <1>5, <1>7, <1>8, HoldersShrink, OncesKept
<1>16. \A v \in Workers : AboutOf(v)'
  BY <1>11, <1>12
<1>17. QED
  BY <1>1, <1>8, <1>9, <1>14, <1>15, <1>16, MoveStep

\* What a webhook does with the workers.
LEMMA Handed ==
  ASSUME RetentionInv, RetentionInv', AnswerInv, NEW m \in Messages, Receive(m)
  PROVE  /\ \A v \in Workers :
              \/ work'[v] = work[v]
              \/ /\ work'[v].pc = "claim" /\ AboutOf(v)'
                 /\ \E r \in rows' : ~r.out /\ r.msg = m /\ work'[v].id = r.id
         /\ \A x \in Messages : \A v \in Holders(x)' : v \in Holders(x) /\ work'[v] = work[v]
         /\ \A x \in Messages : sent[x] # Never => sent'[x] = sent[x]
         /\ sent'[m] # Never
<1>1. sent' = IF sent[m] = Never THEN [sent EXCEPT ![m] = today] ELSE sent
  BY DEF Receive
<1>2. today # Never /\ sent \in [Messages -> 0..Never]
  BY LimitAssumption DEF RetentionInv, TypeOK, Never
<1>3. sent'[m] # Never /\ \A x \in Messages : sent[x] # Never => sent'[x] = sent[x]
  BY <1>1, <1>2
<1>4. CASE UNCHANGED work
  BY <1>3, <1>4 DEF Holders
<1>5. CASE ~UNCHANGED work
  <2>1. PICK w \in Workers, r \in rows' :
          /\ ~r.out /\ r.msg = m
          /\ work' = [work EXCEPT ![w] = [Idle EXCEPT !.pc = "claim", !.msg = m, !.id = r.id]]
    BY <1>5 DEF Receive
  <2> DEFINE t == [Idle EXCEPT !.pc = "claim", !.msg = m, !.id = r.id]
  <2>2. t.pc = "claim" /\ t.msg = m /\ t.id = r.id
    BY DEF Idle
  <2>3. work' = [work EXCEPT ![w] = t]
    BY <2>1
  <2> HIDE DEF t
  <2>4. \A v \in Workers : v # w => work'[v] = work[v]
    BY <2>3 DEF RetentionInv, TypeOK
  <2>5. work'[w] = t
    BY <2>3 DEF RetentionInv, TypeOK
  <2>6. r.id \in 1..ids' /\ \A q \in rows' : q.id = r.id => q = r
    BY LimitAssumption DEF RetentionInv, TypeOK, Row, Ids
  <2>7. AboutOf(w)'
    <3>1. /\ sent'[t.msg] # Never /\ t.id \in 1..ids'
          /\ \A q \in rows' : q.id = t.id => ~q.out /\ q.msg = t.msg
      BY <1>3, <2>1, <2>2, <2>6
    <3>2. QED
      BY <2>2, <2>5, <3>1 DEF AboutOf
  <2>8. \A x \in Messages : \A v \in Holders(x)' : v \in Holders(x) /\ work'[v] = work[v]
    BY <2>2, <2>3, HoldersShrink
  <2>9. \A v \in Workers :
          \/ work'[v] = work[v]
          \/ /\ work'[v].pc = "claim" /\ AboutOf(v)'
             /\ \E q \in rows' : ~q.out /\ q.msg = m /\ work'[v].id = q.id
    BY <2>1, <2>2, <2>4, <2>5, <2>7
  <2>10. QED
    BY <1>3, <2>8, <2>9
<1>6. QED
  BY <1>4, <1>5

\* A webhook finds the message stored.
LEMMA RepeatedAnswer ==
  ASSUME RetentionInv, RetentionInv', AnswerInv, NEW m \in Messages, Receive(m), Inbound(m) # {}
  PROVE  AnswerInv'
<1>1. PICK i \in rows : ~i.out /\ i.msg = m
  BY DEF Inbound
<1>2. sent[m] # Never
  BY <1>1 DEF AnswerInv, Dated
<1>3. /\ UNCHANGED <<rows, ids, user, today, overdue, job, sent, copies>>
      /\ today - sent[m] <= RedeliveryDays
  BY <1>2 DEF Receive, operators, clock, table
<1>4. Unsent'
  BY <1>3 DEF AnswerInv, Unsent
<1>5. SameShape /\ Fated' /\ \A x : Outs(x)' = Outs(x) /\ Inbound(x)' = Inbound(x)
  BY <1>3, Unmoved
<1>6. \A v \in Workers : AboutOf(v)'
  <2>1. \A s \in rows' : s.id > ids \/ \E r \in rows : s.id = r.id /\ s.out = r.out /\ s.msg = r.msg
    BY <1>3
  <2>2. ids <= ids'
    BY <1>3 DEF RetentionInv, TypeOK
  <2>3. QED
    BY <1>3, <2>1, <2>2, Handed, AboutKeeps
<1>7. ASSUME NEW r \in rows, ~r.out, r.msg = m PROVE ~Expired(r, today, RecordDays)
  <2>1. sent[m] <= r.day
    BY <1>7 DEF AnswerInv, Dated
  <2>2. today \in Nat /\ sent[m] \in Nat /\ r.day \in Nat
    BY LimitAssumption DEF RetentionInv, TypeOK, Row, Never
  <2>3. QED
    BY <1>3, <2>1, <2>2, PolicyAssumption DEF Expired
<1>8. \A x \in Messages \ overdue : \A q \in Inbound(x)' : Expired(q, today, RecordDays) =>
         /\ q \in rows
         /\ \A v \in Workers : work'[v].pc # "idle" /\ work'[v].id = q.id =>
               work[v].pc # "idle" /\ work[v].id = q.id
  <2>1. SUFFICES ASSUME NEW x \in Messages \ overdue, NEW q \in rows, q \in Inbound(x),
                        Expired(q, today, RecordDays), NEW v \in Workers,
                        work'[v].pc # "idle", work'[v].id = q.id, work'[v] # work[v]
        PROVE  FALSE
    BY <1>5 DEF Inbound
  <2>2. PICK r \in rows : ~r.out /\ r.msg = m /\ work'[v].id = r.id
    BY <1>3, <2>1, Handed
  <2>3. r = q
    BY <2>1, <2>2 DEF RetentionInv, TypeOK
  <2>4. QED
    BY <1>7, <2>1, <2>2, <2>3
<1>9. \A x \in Messages \ overdue : Once(x)'
  BY <1>3, <1>5, Handed, OncesKept
<1>10. QED
  BY <1>3, <1>4, <1>5, <1>6, <1>8, <1>9, MoveStep

\* A webhook stores the message.
LEMMA StoredAnswer ==
  ASSUME RetentionInv, RetentionInv', AnswerInv, NEW m \in Messages, Receive(m), Inbound(m) = {}
  PROVE  AnswerInv'
<1> DEFINE n == NewRow(FALSE, m, "received", 0, 0)
<1>1. /\ rows' = rows \cup {n} /\ ids' = ids + 1
      /\ UNCHANGED <<user, today, overdue, job, copies>> /\ user
      /\ sent[m] = Never \/ today - sent[m] <= RedeliveryDays
      /\ sent' = IF sent[m] = Never THEN [sent EXCEPT ![m] = today] ELSE sent
  BY DEF Receive, Insert, operators, clock
<1>2. /\ n.id = ids + 1 /\ ~n.out /\ n.msg = m /\ n.day = today /\ n.reply = 0
      /\ n.fate = "none"
  BY DEF NewRow
<1> HIDE DEF n
<1>3. /\ ids \in Nat /\ today \in 0..MaxDays /\ today # Never
      /\ sent \in [Messages -> 0..Never] /\ today \in Nat
      /\ \A x \in Messages : sent[x] \in Nat
      /\ \A r \in rows : r.id \in Nat /\ r.id <= ids /\ r.day \in Nat /\ r.msg \in Messages
  BY LimitAssumption DEF RetentionInv, TypeOK, Never, Row, Ids
<1>4. /\ \A x \in Messages : sent[x] # Never => sent'[x] = sent[x]
      /\ \A x \in Messages : x # m => sent'[x] = sent[x]
      /\ sent'[m] # Never
  BY <1>1, <1>3
<1>5. sent'[m] <= today
  <2>1. CASE sent[m] = Never
    BY <1>1, <1>3, <2>1
  <2>2. CASE sent[m] # Never
    BY <1>4, <2>2 DEF AnswerInv, Timed
  <2>3. QED
    BY <2>1, <2>2
<1>6. Dated'
  <2>1. SUFFICES ASSUME NEW q \in rows'
        PROVE /\ q.day <= today
              /\ sent'[q.msg] # Never
              /\ ~q.out => q.reply = 0 /\ sent'[q.msg] <= q.day
              /\ q.reply # 0 =>
                   \E r \in rows' : r.id = q.reply /\ ~r.out /\ r.msg = q.msg /\ r.day <= q.day
    BY <1>1 DEF Dated
  <2>2. CASE q \in rows
    BY <1>1, <1>3, <1>4, <2>2 DEF AnswerInv, Dated
  <2>3. CASE q = n
    BY <1>2, <1>3, <1>4, <1>5, <2>3
  <2>4. QED
    BY <1>1, <2>2, <2>3
<1>7. Fated'
  BY <1>1, <1>2 DEF AnswerInv, Fated
<1>8. Unsent' /\ Timed'
  BY <1>1, <1>4, <1>5 DEF AnswerInv, Unsent, Timed
<1>9. \A v \in Workers : AboutOf(v)'
  <2>1. \A s \in rows' : s.id > ids \/ \E r \in rows : s.id = r.id /\ s.out = r.out /\ s.msg = r.msg
    BY <1>1, <1>2, <1>3
  <2>2. ids <= ids'
    BY <1>1, <1>3
  <2>3. QED
    BY <1>4, <2>1, <2>2, Handed, AboutKeeps
<1>10. /\ \A x \in Messages : Outs(x)' = Outs(x)
       /\ \A x \in Messages : x # m => Inbound(x)' = Inbound(x)
       /\ Inbound(m)' = {n}
  <2>1. \A x : Outs(x)' = Outs(x)
    BY <1>1, <1>2 DEF Outs
  <2>2. \A x : x # m => Inbound(x)' = Inbound(x)
    BY <1>1, <1>2 DEF Inbound
  <2>3. Inbound(m)' = {n}
    BY <1>1, <1>2 DEF Inbound
  <2>4. QED
    BY <2>1, <2>2, <2>3
<1>11. ASSUME NEW x \in Messages \ overdue, x # m
       PROVE  Single(x)' /\ Known(x)' /\ SettledInTime(x)' /\ Once(x)'
  <2>1. Single(x) /\ Known(x) /\ SettledInTime(x) /\ Once(x)
    BY DEF AnswerInv
  <2>2. Single(x)'
    BY <1>1, <1>2, <1>11, <2>1 DEF Single
  <2>3. Known(x)'
    BY <1>1, <1>4, <1>10, <1>11, <2>1 DEF Known
  <2>4. SettledInTime(x)'
    <3>1. SUFFICES ASSUME NEW q \in Inbound(x), Expired(q, today, RecordDays)
          PROVE  Settled(q) /\ \A v \in Workers : work'[v].pc # "idle" => work'[v].id # q.id
      BY <1>1, <1>10, <1>11 DEF SettledInTime, Expired, Settled
    <3>2. Settled(q) /\ \A v \in Workers : work[v].pc # "idle" => work[v].id # q.id
      BY <2>1, <3>1 DEF SettledInTime
    <3>3. \A v \in Workers, r \in rows' : ~r.out /\ r.msg = m /\ work'[v].id = r.id => work'[v].id # q.id
      BY <1>1, <1>11, <3>1 DEF Inbound, RetentionInv, TypeOK
    <3>4. QED
      BY <3>2, <3>3, Handed
  <2>5. Once(x)'
    BY <1>1, <1>10, <1>11, <2>1, Handed, OnceKept
  <2>6. QED
    BY <2>2, <2>3, <2>4, <2>5
<1>12. ASSUME m \notin overdue
       PROVE  Single(m)' /\ Known(m)' /\ SettledInTime(m)' /\ Once(m)'
  <2>1. sent[m] = Never
    <3>1. Known(m)
      BY <1>12 DEF AnswerInv
    <3>2. sent[m] \in Nat /\ today \in Nat /\ RedeliveryDays \in Nat
      BY <1>3, PolicyAssumption
    <3>3. ~(today - sent[m] <= RedeliveryDays /\ sent[m] + RedeliveryDays < today)
      BY <3>2
    <3>4. QED
      BY <1>1, <3>1, <3>3 DEF Known
  <2>2. \A r \in rows : r.msg # m
    BY <2>1 DEF AnswerInv, Dated
  <2>3. Outs(m) = {} /\ Holders(m) = {} /\ copies[m] = 0
    <3>1. Outs(m) = {}
      BY <2>2 DEF Outs
    <3>2. Holders(m) = {}
      BY <2>1 DEF Holders, AnswerInv, AboutOf
    <3>3. copies[m] = 0
      BY <2>1 DEF AnswerInv, Unsent
    <3>4. QED
      BY <3>1, <3>2, <3>3
  <2>4. Single(m)'
    BY <1>1, <1>2, <2>2 DEF Single
  <2>5. Known(m)'
    BY <1>10 DEF Known
  <2>6. SettledInTime(m)'
    <3>1. ~(n.day < today - RecordDays)
      BY <1>2, <1>3, PolicyAssumption
    <3>2. QED
      BY <1>1, <1>10, <3>1 DEF SettledInTime, Expired
  <2>7. Once(m)'
    <3>1. Holders(m)' = {}
      BY <2>3, Handed
    <3>2. copies'[m] = 0 /\ Outs(m)' = {}
      BY <1>1, <1>10, <2>3
    <3>3. QED
      BY <3>1, <3>2 DEF Once
  <2>8. QED
    BY <2>4, <2>5, <2>6, <2>7
<1>13. \A x \in Messages \ overdue : Single(x)' /\ Known(x)' /\ SettledInTime(x)' /\ Once(x)'
  BY <1>11, <1>12
<1>14. QED
  BY <1>1, <1>6, <1>7, <1>8, <1>9, <1>13 DEF AnswerInv

-----------------------------------------------------------------------------
(***************************************************************************)
(* Steps that write on replies                                             *)
(***************************************************************************)

\* Only the answer to one message is touched.
LEMMA OthersKept ==
  ASSUME AnswerInv, NEW m, NEW x \in Messages \ overdue, x # m,
         Outs(x)' = Outs(x), Inbound(x)' # {} => Inbound(x) # {},
         \A v \in Workers : work'[v] = work[v] \/ work'[v].msg = m,
         copies'[x] = copies[x]
  PROVE  Once(x)'
<1>1. Once(x)
  BY DEF AnswerInv
<1>2. \A w \in Holders(x)' : w \in Holders(x) /\ work'[w] = work[w]
  BY DEF Holders
<1>3. QED
  BY <1>1, <1>2, OnceKept

\* A reply becomes s.
LEMMA OutboundChange ==
  ASSUME RetentionInv, AnswerInv, NEW r \in rows, NEW s, Alike(s, r), r.out,
         s.fate # "none" => s.status \in {"sent", "delivered"},
         s.fate = "failed" => s.status = "sent",
         rows' = Replaced(s)
  PROVE  /\ SameShape /\ Fated' /\ rows' = (rows \ {r}) \cup {s}
         /\ \A m : Inbound(m)' = Inbound(m)
         /\ \A m : m # r.msg => Outs(m)' = Outs(m)
         /\ r.msg \notin overdue => Outs(r.msg) = {r} /\ Outs(r.msg)' = {s}
<1>1. SameShape /\ rows' = (rows \ {r}) \cup {s}
  BY Change DEF RetentionInv
<1>2. s.out /\ s.msg = r.msg
  BY DEF Alike
<1>3. Fated'
  BY <1>1, <1>2 DEF AnswerInv, Fated
<1>4. \A m : Inbound(m)' = Inbound(m)
  BY <1>1, <1>2 DEF Inbound
<1>5. \A m : m # r.msg => Outs(m)' = Outs(m)
  BY <1>1, <1>2 DEF Outs
<1>6. ASSUME r.msg \notin overdue PROVE Outs(r.msg) = {r} /\ Outs(r.msg)' = {s}
  <2>1. r.msg \in Messages
    BY DEF RetentionInv, TypeOK, Row
  <2>2. Single(r.msg)
    BY <1>6, <2>1 DEF AnswerInv
  <2>3. Outs(r.msg) = {r}
    BY <2>2 DEF Single, Outs
  <2>4. Outs(r.msg)' = {s}
    BY <1>1, <1>2, <2>3 DEF Outs
  <2>5. QED
    BY <2>3, <2>4
<1>7. QED
  BY <1>1, <1>3, <1>4, <1>5, <1>6

\* The reply a worker finds or holds is one to its message.
LEMMA ReplyOf ==
  ASSUME RetentionInv, AnswerInv, NEW w \in Workers, work[w].pc # "idle", NEW r \in rows,
         r \in Replies(work[w].id) \/
           (r.id = work[w].out /\ work[w].pc \in {"send", "markSent", "markFailed", "markUnknown"})
  PROVE  r.out /\ r.msg = work[w].msg /\ r.id \in 1..ids
<1>1. AboutOf(w)
  BY DEF AnswerInv
<1>2. r.id \in 1..ids /\ ids \in Nat
  BY LimitAssumption DEF RetentionInv, TypeOK, Row, Ids
<1>3. CASE r \in Replies(work[w].id)
  <2>1. r.out /\ r.reply = work[w].id
    BY <1>3 DEF Replies
  <2>2. r.reply # 0
    BY <1>1, <1>2, <2>1 DEF AboutOf
  <2>3. PICK p \in rows : p.id = r.reply /\ p.msg = r.msg
    BY <2>2 DEF AnswerInv, Dated
  <2>4. p.msg = work[w].msg
    BY <1>1, <2>1, <2>3 DEF AboutOf
  <2>5. QED
    BY <1>2, <2>1, <2>3, <2>4
<1>4. CASE r.id = work[w].out /\ work[w].pc \in {"send", "markSent", "markFailed", "markUnknown"}
  BY <1>1, <1>2, <1>4 DEF AboutOf
<1>5. QED
  BY <1>3, <1>4

\* The reservation is inserted: there was none, and so no answer either.
LEMMA InsertAnswer ==
  ASSUME RetentionInv, RetentionInv', AnswerInv, NEW w \in Workers, work[w].pc = "reserve",
         Replies(work[w].id) = {}, WithId(work[w].id) # {},
         Insert(NewRow(TRUE, work[w].msg, "sending", 1, work[w].id)),
         work' = [work EXCEPT ![w].pc = "send", ![w].out = ids + 1],
         UNCHANGED <<operators, clock, meta>>
  PROVE  AnswerInv'
<1>6. PICK m \in Messages : m = work[w].msg
  BY DEF RetentionInv, Busy
<1> DEFINE n == NewRow(TRUE, m, "sending", 1, work[w].id)
           t == [work[w] EXCEPT !.pc = "send", !.out = ids + 1]
<1>1. /\ rows' = rows \cup {n} /\ ids' = ids + 1
      /\ UNCHANGED <<user, today, overdue, job, sent, copies>>
  BY <1>6 DEF Insert, operators, clock, meta
<1>2. /\ n.id = ids + 1 /\ n.out /\ n.msg = m /\ n.day = today /\ n.reply = work[w].id
      /\ n.fate = "none" /\ n.status = "sending"
  BY DEF NewRow
<1>3. work[w] \in Task /\ work \in [Workers -> Task]
  BY DEF RetentionInv, TypeOK
<1>4. t.pc = "send" /\ t.out = ids + 1 /\ t.msg = m /\ t.id = work[w].id
  BY <1>3, <1>6 DEF Task
<1>5. \A v \in Workers : work'[v] = IF v = w THEN t ELSE work[v]
  BY <1>3
<1> HIDE DEF n, t
<1>7. PICK r \in rows : r.id = work[w].id
  BY DEF WithId
<1>8. /\ ids \in Nat /\ work[w].id \in 1..ids /\ sent[m] # Never
      /\ ~r.out /\ r.msg = m /\ r.day <= today
      /\ \A q \in rows : q.id \in Nat /\ q.id <= ids
  BY <1>6, <1>7, LimitAssumption DEF AnswerInv, AboutOf, Dated, RetentionInv, TypeOK, Row, Ids
<1>9. Dated'
  <2>1. SUFFICES ASSUME NEW q \in rows'
        PROVE /\ q.day <= today
              /\ sent[q.msg] # Never
              /\ ~q.out => q.reply = 0 /\ sent[q.msg] <= q.day
              /\ q.reply # 0 =>
                   \E p \in rows' : p.id = q.reply /\ ~p.out /\ p.msg = q.msg /\ p.day <= q.day
    BY <1>1 DEF Dated
  <2>2. CASE q \in rows
    BY <1>1, <2>2 DEF AnswerInv, Dated
  <2>3. CASE q = n
    BY <1>1, <1>2, <1>7, <1>8, <2>3 DEF RetentionInv, TypeOK
  <2>4. QED
    BY <1>1, <2>2, <2>3
<1>10. Fated'
  BY <1>1, <1>2 DEF AnswerInv, Fated
<1>11. Unsent' /\ Timed'
  BY <1>1 DEF AnswerInv, Unsent, Timed
<1>12. \A v \in Workers : AboutOf(v)'
  <2>1. \A s \in rows' : s.id > ids \/ \E p \in rows : s.id = p.id /\ s.out = p.out /\ s.msg = p.msg
    BY <1>1, <1>2, <1>8
  <2>2. ids <= ids'
    BY <1>1, <1>8
  <2>3. \A v \in Workers : v # w => AboutOf(v)'
    BY <1>1, <1>5, <2>1, <2>2, AboutKeeps
  <2>4. t.id \in 1..ids' /\ t.out \in 1..ids'
    BY <1>1, <1>4, <1>8
  <2>5. \A s \in rows' : s.id = t.id => ~s.out /\ s.msg = m
    <3>1. \A s \in rows : s.id = t.id => s = r
      BY <1>4, <1>7 DEF RetentionInv, TypeOK
    <3>2. n.id # t.id
      BY <1>2, <1>4, <1>8
    <3>3. QED
      BY <1>1, <1>8, <3>1, <3>2
  <2>6. \A s \in rows' : s.id = t.out => s.out /\ s.msg = m
    <3>1. \A s \in rows : s.id # t.out
      BY <1>4, <1>8
    <3>2. QED
      BY <1>1, <1>2, <3>1
  <2>7. AboutOf(w)'
    BY <1>1, <1>4, <1>5, <1>8, <2>4, <2>5, <2>6 DEF AboutOf
  <2>8. QED
    BY <2>3, <2>7
<1>13. /\ \A x : Inbound(x)' = Inbound(x)
       /\ \A x : x # m => Outs(x)' = Outs(x)
       /\ Outs(m)' = Outs(m) \cup {n}
  <2>1. \A x : Inbound(x)' = Inbound(x)
    BY <1>1, <1>2 DEF Inbound
  <2>2. \A x : x # m => Outs(x)' = Outs(x)
    BY <1>1, <1>2 DEF Outs
  <2>3. Outs(m)' = Outs(m) \cup {n}
    BY <1>1, <1>2 DEF Outs
  <2>4. QED
    BY <2>1, <2>2, <2>3
<1>14. ASSUME NEW x \in Messages \ overdue PROVE Known(x)' /\ SettledInTime(x)'
  <2>1. Known(x) /\ SettledInTime(x)
    BY DEF AnswerInv
  <2>2. Known(x)'
    BY <1>1, <1>13, <2>1 DEF Known
  <2>3. \A v \in Workers : work'[v].pc # "idle" => work[v].pc # "idle" /\ work'[v].id = work[v].id
    BY <1>4, <1>5
  <2>4. SettledInTime(x)'
    <3>1. SUFFICES ASSUME NEW q \in Inbound(x), Expired(q, today, RecordDays)
          PROVE  Settled(q) /\ \A v \in Workers : work'[v].pc # "idle" => work'[v].id # q.id
      BY <1>1, <1>13 DEF SettledInTime, Expired, Settled
    <3>2. Settled(q) /\ \A v \in Workers : work[v].pc # "idle" => work[v].id # q.id
      BY <2>1, <3>1 DEF SettledInTime
    <3>3. QED
      BY <2>3, <3>2
  <2>5. QED
    BY <2>2, <2>4
<1>15. ASSUME NEW x \in Messages \ overdue, x # m PROVE Single(x)' /\ Once(x)'
  <2>1. Single(x)
    BY DEF AnswerInv
  <2>2. Single(x)'
    BY <1>1, <1>2, <1>15, <2>1 DEF Single
  <2>3. Once(x)'
    <3>1. \A v \in Workers : work'[v] = work[v] \/ work'[v].msg = m
      BY <1>4, <1>5
    <3>2. QED
      BY <1>1, <1>13, <1>15, <3>1, OthersKept
  <2>4. QED
    BY <2>2, <2>3
<1>16. ASSUME m \notin overdue PROVE Single(m)' /\ Once(m)'
  <2>1. Single(m) /\ Once(m)
    BY <1>6, <1>16 DEF AnswerInv
  <2>2. Outs(m) = {}
    <3>1. \A q \in rows : q.out /\ q.msg = m => q.reply = r.id
      BY <1>7, <1>8, <2>1 DEF Single
    <3>2. QED
      BY <1>7, <3>1 DEF Outs, Replies
  <2>3. copies[m] = 0 /\ Holders(m) = {}
    <3>1. r \in Inbound(m)
      BY <1>7, <1>8 DEF Inbound
    <3>2. QED
      BY <2>1, <2>2, <3>1 DEF Once
  <2>4. Single(m)'
    <3>1. SUFFICES ASSUME NEW p \in rows', NEW q \in rows', p.msg = m, q.msg = m
          PROVE  /\ (p.out <=> q.out) => p = q
                 /\ p.out /\ ~q.out => p.reply = q.id
      BY DEF Single
    <3>2. \A s \in rows' : s.msg = m => (s = n /\ s.out) \/ (s = r /\ ~s.out)
      <4>1. \A s \in rows : s.msg = m => ~s.out
        BY <2>2 DEF Outs
      <4>2. \A s \in rows : s.msg = m /\ ~s.out => s = r
        BY <1>7, <1>8, <2>1 DEF Single
      <4>3. QED
        BY <1>1, <1>2, <4>1, <4>2
    <3>3. QED
      BY <1>2, <1>7, <3>1, <3>2
  <2>5. Holders(m)' = {w}
    <3>1. w \in Holders(m)'
      BY <1>4, <1>5 DEF Holders
    <3>2. \A v \in Holders(m)' : v # w => v \in Holders(m)
      BY <1>5 DEF Holders
    <3>3. QED
      BY <2>3, <3>1, <3>2
  <2>6. Outs(m)' = {n} /\ copies'[m] = 0
    BY <1>1, <1>13, <2>2, <2>3
  <2>7. Once(m)'
    BY <1>2, <2>5, <2>6 DEF Once
  <2>8. QED
    BY <2>4, <2>7
<1>17. QED
  BY <1>1, <1>9, <1>10, <1>11, <1>12, <1>14, <1>15, <1>16 DEF AnswerInv

\* A failed reply is tried again: it had not reached the user, and nobody was at it.
LEMMA RetryAnswer ==
  ASSUME RetentionInv, RetentionInv', AnswerInv, NEW w \in Workers, work[w].pc = "reserve",
         NEW r \in Replies(work[w].id), RetryMatches(r),
         rows' = Replaced([r EXCEPT !.status = "sending", !.attempts = @ + 1, !.content = TRUE]),
         work' = [work EXCEPT ![w].pc = "send", ![w].out = r.id],
         UNCHANGED <<ids, operators, clock, meta>>
  PROVE  AnswerInv'
<1>7. PICK m \in Messages : m = work[w].msg
  BY DEF RetentionInv, Busy
<1> DEFINE s == [r EXCEPT !.status = "sending", !.attempts = @ + 1, !.content = TRUE]
           t == [work[w] EXCEPT !.pc = "send", !.out = r.id]
<1>1. UNCHANGED <<ids, user, today, overdue, job, sent, copies>>
  BY DEF operators, clock, meta
<1>2. r \in rows /\ r \in Row /\ r.out /\ r.msg = m /\ r.id \in 1..ids /\ r.status = "failed"
  BY <1>7, ReplyOf DEF Replies, RetentionInv, TypeOK, RetryMatches
<1>3. Alike(s, r) /\ s.fate = r.fate /\ s.status = "sending"
  BY <1>2 DEF Row, Alike
<1>4. work[w] \in Task /\ work \in [Workers -> Task]
  BY DEF RetentionInv, TypeOK
<1>5. t.pc = "send" /\ t.out = r.id /\ t.msg = m /\ t.id = work[w].id
  BY <1>4, <1>7 DEF Task
<1>6. \A v \in Workers : work'[v] = IF v = w THEN t ELSE work[v]
  BY <1>4
<1> HIDE DEF s, t
<1>8. s.fate = "none"
  BY <1>2, <1>3 DEF AnswerInv, Fated
<1>9. /\ SameShape /\ Fated' /\ rows' = (rows \ {r}) \cup {s}
      /\ \A x : Inbound(x)' = Inbound(x)
      /\ \A x : x # m => Outs(x)' = Outs(x)
      /\ m \notin overdue => Outs(m) = {r} /\ Outs(m)' = {s}
  <2>1. rows' = Replaced(s)
    BY DEF s
  <2>2. s.fate # "none" => s.status \in {"sent", "delivered"}
    BY <1>8
  <2>3. s.fate = "failed" => s.status = "sent"
    BY <1>8
  <2>4. QED
    BY <1>2, <1>3, <2>1, <2>2, <2>3, OutboundChange
<1>10. Unsent'
  BY <1>1 DEF AnswerInv, Unsent
<1>11. \A v \in Workers : v # w => AboutOf(v)'
  <2>1. \A q \in rows' : q.id > ids \/ \E p \in rows : q.id = p.id /\ q.out = p.out /\ q.msg = p.msg
    BY <1>9 DEF SameShape, Alike
  <2>2. ids <= ids'
    BY <1>1 DEF RetentionInv, TypeOK
  <2>3. QED
    BY <1>1, <1>6, <2>1, <2>2, AboutKeeps
<1>12. AboutOf(w)'
  <2>1. /\ sent[m] # Never /\ work[w].id \in 1..ids
        /\ \A q \in rows : q.id = work[w].id => ~q.out /\ q.msg = m
    BY <1>7 DEF AnswerInv, AboutOf
  <2>2. \A q \in rows' : q.id = t.id => ~q.out /\ q.msg = m
    BY <1>5, <1>9, <2>1 DEF SameShape, Alike
  <2>3. \A q \in rows' : q.id = t.out => q.out /\ q.msg = m
    <3>1. \A q \in rows : q.id = r.id => q = r
      BY <1>2 DEF RetentionInv, TypeOK
    <3>2. QED
      BY <1>2, <1>3, <1>5, <1>9, <3>1 DEF Alike
  <2>4. /\ sent'[t.msg] # Never
        /\ t.id \in 1..ids' /\ t.out \in 1..ids'
        /\ \A q \in rows' : q.id = t.id => ~q.out /\ q.msg = t.msg
        /\ \A q \in rows' : q.id = t.out => q.out /\ q.msg = t.msg
    BY <1>1, <1>2, <1>5, <1>6, <2>1, <2>2, <2>3
  <2>5. work'[w] = t
    BY <1>6
  <2>6. QED
    BY <2>4, <2>5 DEF AboutOf
<1>13. \A x \in Messages \ overdue : \A q \in Inbound(x)' : Expired(q, today, RecordDays) =>
          /\ q \in rows
          /\ \A v \in Workers : work'[v].pc # "idle" /\ work'[v].id = q.id =>
                work[v].pc # "idle" /\ work[v].id = q.id
  BY <1>5, <1>6, <1>9 DEF Inbound
<1>14. ASSUME NEW x \in Messages \ overdue, x # m PROVE Once(x)'
  <2>1. \A v \in Workers : work'[v] = work[v] \/ work'[v].msg = m
    BY <1>5, <1>6
  <2>2. QED
    BY <1>1, <1>9, <1>14, <2>1, OthersKept
<1>15. ASSUME m \notin overdue PROVE Once(m)'
  <2>1. Once(m) /\ Outs(m) = {r} /\ Outs(m)' = {s}
    BY <1>7, <1>9, <1>15 DEF AnswerInv
  <2>2. copies[m] = 0 /\ Holders(m) = {}
    BY <1>2, <2>1 DEF Once
  <2>3. Holders(m)' = {w}
    <3>1. w \in Holders(m)'
      BY <1>5, <1>6 DEF Holders
    <3>2. \A v \in Holders(m)' : v # w => v \in Holders(m)
      BY <1>6 DEF Holders
    <3>3. QED
      BY <2>2, <3>1, <3>2
  <2>4. QED
    BY <1>1, <1>3, <2>1, <2>2, <2>3 DEF Once
<1>16. \A v \in Workers : AboutOf(v)'
  BY <1>11, <1>12
<1>17. \A x \in Messages \ overdue : Once(x)'
  BY <1>14, <1>15
<1>18. QED
  BY <1>1, <1>9, <1>10, <1>13, <1>16, <1>17, MoveStep

\* The worker finds a reply that is not to be tried again.
LEMMA FoundAnswer ==
  ASSUME RetentionInv, RetentionInv', AnswerInv, NEW w \in Workers, work[w].pc = "reserve",
         NEW r \in Replies(work[w].id), NEW pc \in {"finish", "markUnknown"},
         work' = [work EXCEPT ![w].pc = pc, ![w].out = r.id],
         UNCHANGED <<table, operators, clock, meta>>
  PROVE  AnswerInv'
<1>0. PICK m \in Messages : m = work[w].msg
  BY DEF RetentionInv, Busy
<1> DEFINE t == [work[w] EXCEPT !.pc = pc, !.out = r.id]
<1>1. UNCHANGED <<rows, ids, user, today, overdue, job, sent, copies>>
  BY DEF table, operators, clock, meta
<1>2. r \in rows /\ r.out /\ r.msg = m /\ r.id \in 1..ids
  BY <1>0, ReplyOf DEF Replies
<1>3. work[w] \in Task /\ work \in [Workers -> Task]
  BY DEF RetentionInv, TypeOK
<1>4. t.pc = pc /\ t.out = r.id /\ t.msg = m /\ t.id = work[w].id
  BY <1>0, <1>3 DEF Task
<1>5. work' = [work EXCEPT ![w] = t] /\ \A v \in Workers : work'[v] = IF v = w THEN t ELSE work[v]
  BY <1>3
<1> HIDE DEF t
<1>6. SameShape /\ Fated' /\ \A x : Outs(x)' = Outs(x) /\ Inbound(x)' = Inbound(x)
  BY <1>1, Unmoved
<1>7. Unsent'
  BY <1>1 DEF AnswerInv, Unsent
<1>8. \A v \in Workers : v # w => AboutOf(v)'
  <2>1. \A q \in rows' : q.id > ids \/ \E p \in rows : q.id = p.id /\ q.out = p.out /\ q.msg = p.msg
    BY <1>1
  <2>2. ids <= ids'
    BY <1>1 DEF RetentionInv, TypeOK
  <2>3. QED
    BY <1>1, <1>5, <2>1, <2>2, AboutKeeps
<1>9. AboutOf(w)'
  <2>1. /\ sent[m] # Never /\ work[w].id \in 1..ids
        /\ \A q \in rows : q.id = work[w].id => ~q.out /\ q.msg = m
    BY <1>0 DEF AnswerInv, AboutOf
  <2>2. \A q \in rows' : q.id = t.id => ~q.out /\ q.msg = m
    BY <1>1, <1>4, <2>1
  <2>3. \A q \in rows' : q.id = t.out => q.out /\ q.msg = m
    <3>1. \A q \in rows : q.id = r.id => q = r
      BY <1>2 DEF RetentionInv, TypeOK
    <3>2. QED
      BY <1>1, <1>2, <1>4, <3>1
  <2>4. /\ sent'[t.msg] # Never
        /\ t.id \in 1..ids' /\ t.out \in 1..ids'
        /\ \A q \in rows' : q.id = t.id => ~q.out /\ q.msg = t.msg
        /\ \A q \in rows' : q.id = t.out => q.out /\ q.msg = t.msg
    BY <1>1, <1>2, <1>4, <1>5, <2>1, <2>2, <2>3
  <2>5. work'[w] = t
    BY <1>5
  <2>6. QED
    BY <2>4, <2>5 DEF AboutOf
<1>10. \A x \in Messages \ overdue : \A q \in Inbound(x)' : Expired(q, today, RecordDays) =>
          /\ q \in rows
          /\ \A v \in Workers : work'[v].pc # "idle" /\ work'[v].id = q.id =>
                work[v].pc # "idle" /\ work[v].id = q.id
  BY <1>1, <1>4, <1>5 DEF Inbound
<1>11. \A x \in Messages \ overdue : Once(x)'
  BY <1>1, <1>4, <1>5, <1>6, HoldersShrink, OncesKept
<1>12. \A v \in Workers : AboutOf(v)'
  BY <1>8, <1>9
<1>13. QED
  BY <1>1, <1>6, <1>7, <1>10, <1>11, <1>12, MoveStep

LEMMA ReserveAnswer ==
  ASSUME RetentionInv, RetentionInv', AnswerInv, NEW w \in Workers, Reserve(w)
  PROVE  AnswerInv'
<1>1. work[w].pc = "reserve" /\ UNCHANGED <<operators, clock, meta>>
  BY DEF Reserve, At
<1>2. CASE InsertReply(w)
  <2>1. CASE user /\ WithId(work[w].id) # {}
    BY <1>1, <1>2, <2>1, InsertAnswer DEF InsertReply
  <2>2. CASE ~(user /\ WithId(work[w].id) # {})
    <3>1. Goto(w, "fail") /\ UNCHANGED table
      BY <1>2, <2>2 DEF InsertReply
    <3>2. PICK t : Advances(w, t) /\ t.pc = "fail"
      BY <1>1, <3>1, GotoAdvances
    <3>3. UNCHANGED <<ids, operators, clock, meta>> /\ rows' = rows
      BY <1>1, <3>1 DEF table
    <3>4. QED
      BY <3>2, <3>3, PlainStep
  <2>3. QED
    BY <2>1, <2>2
<1>3. ASSUME NEW r \in Replies(work[w].id), ReuseReply(w, r)
      PROVE  AnswerInv'
  <2>1. CASE RetryMatches(r)
    BY <1>1, <1>3, <2>1, RetryAnswer DEF ReuseReply
  <2>2. CASE ~RetryMatches(r)
    <3>1. PICK pc \in {"finish", "markUnknown"} :
            work' = [work EXCEPT ![w].pc = pc, ![w].out = r.id]
      BY <1>3, <2>2 DEF ReuseReply
    <3>2. UNCHANGED <<table, operators, clock, meta>>
      BY <1>1, <1>3, <2>2 DEF ReuseReply, table
    <3>3. QED
      BY <1>1, <3>1, <3>2, FoundAnswer
  <2>3. QED
    BY <2>1, <2>2
<1>4. QED
  BY <1>2, <1>3 DEF Reserve

\* Whoever sends carries the only answer, and there was none before.
LEMMA SentAnswer ==
  ASSUME RetentionInv, RetentionInv', AnswerInv, NEW w \in Workers, work[w].pc = "send",
         NEW t, work' = [work EXCEPT ![w] = t],
         t.pc \in {"markSent", "markFailed", "markUnknown"},
         t.msg = work[w].msg, t.id = work[w].id, t.out = work[w].out,
         UNCHANGED <<table, operators, clock, sent>>,
         \/ copies' = copies
         \/ /\ copies' = [copies EXCEPT ![work[w].msg] = @ + 1]
            /\ t.pc = "markUnknown" \/ (t.pc = "markSent" /\ t.fate = "delivered")
  PROVE  AnswerInv'
<1>1. UNCHANGED <<rows, ids, user, today, overdue, job, sent>> /\ Advances(w, t)
  BY DEF table, operators, clock, Advances
<1>2. PICK m \in Messages : m = work[w].msg
  BY DEF RetentionInv, Busy
<1>3. \A v \in Workers : work'[v] = IF v = w THEN t ELSE work[v]
  BY DEF RetentionInv, TypeOK
<1>4. copies \in [Messages -> Nat] /\ sent[m] # Never
  BY <1>2 DEF RetentionInv, TypeOK, AnswerInv, AboutOf
<1>5. /\ \A x \in Messages : x # m => copies'[x] = copies[x]
      /\ \/ copies'[m] = copies[m]
         \/ copies'[m] = copies[m] + 1 /\ (t.pc = "markUnknown" \/ (t.pc = "markSent" /\ t.fate = "delivered"))
  BY <1>2, <1>4
<1>6. SameShape /\ Fated' /\ \A x : Outs(x)' = Outs(x) /\ Inbound(x)' = Inbound(x)
  BY <1>1, Unmoved
<1>7. Unsent'
  BY <1>1, <1>4, <1>5 DEF AnswerInv, Unsent
<1>8. ASSUME NEW x \in Messages \ overdue, x # m PROVE Once(x)'
  <2>1. \A v \in Workers : work'[v] = work[v] \/ work'[v].msg = m
    BY <1>2, <1>3
  <2>2. QED
    BY <1>5, <1>6, <1>8, <2>1, OthersKept
<1>9. ASSUME m \notin overdue PROVE Once(m)'
  <2>1. Once(m) /\ w \in Holders(m)
    BY <1>2, <1>9 DEF AnswerInv, Holders
  <2>2. copies[m] = 0 /\ Holders(m) = {w}
    BY <2>1 DEF Once
  <2>3. Holders(m)' = IF t.pc \in {"markSent", "markFailed"} THEN {w} ELSE {}
    BY <1>2, <1>3, <2>2 DEF Holders
  <2>4. \A q \in Outs(m) : q.status \in {"sending", "delivery_unknown"} /\ q.fate # "failed"
    BY <2>1 DEF Once, AnswerInv, Fated, Outs
  <2>5. Inbound(m) # {} => Outs(m) # {}
    BY <2>1 DEF Once
  <2>6. copies'[m] <= 1
    BY <1>5, <2>2
  <2>7. \A v \in Holders(m)' : copies'[m] = 0 \/ (work'[v].pc = "markSent" /\ work'[v].fate = "delivered")
    <3>1. copies'[m] = 0 \/ t.pc = "markUnknown" \/ (t.pc = "markSent" /\ t.fate = "delivered")
      BY <1>5, <2>2
    <3>2. QED
      BY <1>3, <2>3, <3>1
  <2>8. \A v, u \in Holders(m)' : v = u
    BY <2>3
  <2>9. /\ \A v \in Holders(m)', q \in Outs(m)' : q.status \in {"sending", "delivery_unknown"}
        /\ Inbound(m)' # {} /\ Outs(m)' = {} => copies'[m] = 0 /\ Holders(m)' = {}
        /\ \A q \in Outs(m)' : q.status = "failed" \/ q.fate = "failed" => copies'[m] = 0
    BY <1>6, <2>4, <2>5
  <2>10. QED
    BY <2>6, <2>7, <2>8, <2>9 DEF Once
<1>10. \A x \in Messages \ overdue : Once(x)'
  BY <1>8, <1>9
<1>11. QED
  BY <1>1, <1>6, <1>7, <1>10, ProgressStep

LEMMA SendAnswer ==
  ASSUME RetentionInv, RetentionInv', AnswerInv, NEW w \in Workers, Send(w)
  PROVE  AnswerInv'
<1>1. work[w].pc = "send" /\ UNCHANGED <<table, operators, clock, sent>>
  BY DEF Send, At
<1>2. work[w] \in Task /\ work \in [Workers -> Task]
  BY DEF RetentionInv, TypeOK
<1>3. ASSUME NEW f \in Fates, NEW answered \in BOOLEAN,
             copies' = IF f = "delivered" THEN [copies EXCEPT ![work[w].msg] = @ + 1] ELSE copies,
             work' = IF answered THEN [work EXCEPT ![w].pc = "markSent", ![w].fate = f]
                                 ELSE [work EXCEPT ![w].pc = "markUnknown"]
      PROVE  AnswerInv'
  <2>1. CASE answered = TRUE
    <3> DEFINE t == [work[w] EXCEPT !.pc = "markSent", !.fate = f]
    <3>1. t.pc = "markSent" /\ t.fate = f /\ t.msg = work[w].msg /\ t.id = work[w].id /\ t.out = work[w].out
      BY <1>2 DEF Task
    <3>2. work' = [work EXCEPT ![w] = t]
      BY <1>3, <2>1
    <3> HIDE DEF t
    <3>3. QED
      BY <1>1, <1>3, <3>1, <3>2, SentAnswer
  <2>2. CASE answered = FALSE
    <3> DEFINE t == [work[w] EXCEPT !.pc = "markUnknown"]
    <3>1. t.pc = "markUnknown" /\ t.msg = work[w].msg /\ t.id = work[w].id /\ t.out = work[w].out
      BY <1>2 DEF Task
    <3>2. work' = [work EXCEPT ![w] = t]
      BY <1>3, <2>2
    <3> HIDE DEF t
    <3>3. QED
      BY <1>1, <1>3, <3>1, <3>2, SentAnswer
  <2>3. QED
    BY <2>1, <2>2
<1>4. CASE Goto(w, "markUnknown") /\ UNCHANGED copies
  <2> DEFINE t == [work[w] EXCEPT !.pc = "markUnknown"]
  <2>1. t.pc = "markUnknown" /\ t.msg = work[w].msg /\ t.id = work[w].id /\ t.out = work[w].out
    BY <1>2 DEF Task
  <2>2. work' = [work EXCEPT ![w] = t]
    BY <1>4 DEF Goto
  <2> HIDE DEF t
  <2>3. QED
    BY <1>1, <1>4, <2>1, <2>2, SentAnswer
<1>5. ASSUME NEW permanent \in BOOLEAN,
             work' = [work EXCEPT ![w].pc = "markFailed", ![w].permanent = permanent],
             UNCHANGED copies
      PROVE  AnswerInv'
  <2> DEFINE t == [work[w] EXCEPT !.pc = "markFailed", !.permanent = permanent]
  <2>1. t.pc = "markFailed" /\ t.msg = work[w].msg /\ t.id = work[w].id /\ t.out = work[w].out
    BY <1>2 DEF Task
  <2>2. work' = [work EXCEPT ![w] = t]
    BY <1>5
  <2> HIDE DEF t
  <2>3. QED
    BY <1>1, <1>5, <2>1, <2>2, SentAnswer
<1>6. QED
  BY <1>3, <1>4, <1>5 DEF Send

\* Whoever carried the answer records what became of it, and carries it no longer.
LEMMA RecordedAnswer ==
  ASSUME RetentionInv, RetentionInv', AnswerInv, NEW w \in Workers,
         work[w].pc \in {"markSent", "markFailed"},
         NEW t, Advances(w, t), t.pc \in {"finish", "fail"},
         NEW r \in rows, r.id = work[w].out, r.status = "sending",
         NEW s, Alike(s, r), rows' = Replaced(s),
         \/ work[w].pc = "markSent" /\ s.status = "sent" /\ s.fate = work[w].fate
         \/ work[w].pc = "markFailed" /\ s.status = "failed" /\ s.fate = r.fate,
         UNCHANGED <<ids, operators, clock, meta>>
  PROVE  AnswerInv'
<1>1. UNCHANGED <<ids, user, today, overdue, job, sent, copies>>
  BY DEF operators, clock, meta
<1>2. PICK m \in Messages : m = work[w].msg
  BY DEF RetentionInv, Busy
<1>3. \A v \in Workers : work'[v] = IF v = w THEN t ELSE work[v]
  BY DEF Advances, RetentionInv, TypeOK
<1>4. r.out /\ r.msg = m /\ r.fate = "none"
  BY <1>2, ReplyOf DEF AnswerInv, Fated
<1>5. /\ SameShape /\ Fated' /\ rows' = (rows \ {r}) \cup {s}
      /\ \A x : Inbound(x)' = Inbound(x)
      /\ \A x : x # m => Outs(x)' = Outs(x)
      /\ m \notin overdue => Outs(m) = {r} /\ Outs(m)' = {s}
  <2>1. s.fate # "none" => s.status \in {"sent", "delivered"}
    BY <1>4
  <2>2. s.fate = "failed" => s.status = "sent"
    BY <1>4
  <2>3. QED
    BY <1>4, <2>1, <2>2, OutboundChange
<1>6. Unsent'
  BY <1>1 DEF AnswerInv, Unsent
<1>7. \A q \in rows' : q \in rows \/ q.out
  BY <1>4, <1>5 DEF Alike
<1>8. ASSUME NEW x \in Messages \ overdue, x # m PROVE Once(x)'
  <2>1. \A v \in Workers : v # w => work'[v] = work[v]
    BY <1>3
  <2>2. Once(x)
    BY DEF AnswerInv
  <2>3. \A v \in Holders(x)' : v \in Holders(x) /\ work'[v] = work[v]
    BY <1>3 DEF Holders
  <2>4. QED
    BY <1>1, <1>5, <1>8, <2>2, <2>3, OnceKept
<1>9. ASSUME m \notin overdue PROVE Once(m)'
  <2>1. Once(m) /\ w \in Holders(m) /\ Outs(m)' = {s}
    BY <1>2, <1>5, <1>9 DEF AnswerInv, Holders
  <2>2. Holders(m) = {w}
    BY <2>1 DEF Once
  <2>3. Holders(m)' = {}
    BY <1>3, <2>2 DEF Holders
  <2>4. s.status = "failed" \/ s.fate = "failed" => copies[m] = 0
    BY <1>4, <2>1 DEF Once
  <2>5. QED
    BY <1>1, <2>1, <2>3, <2>4 DEF Once
<1>10. \A x \in Messages \ overdue : Once(x)'
  BY <1>8, <1>9
<1>11. QED
  BY <1>1, <1>5, <1>6, <1>7, <1>10, ProgressStep

LEMMA MarkSentAnswer ==
  ASSUME RetentionInv, RetentionInv', AnswerInv, NEW w \in Workers, MarkSent(w)
  PROVE  AnswerInv'
<1>1. work[w].pc = "markSent" /\ UNCHANGED <<ids, operators, clock, meta>>
  BY DEF MarkSent, At
<1>2. CASE Goto(w, "markUnknown") /\ UNCHANGED rows
  <2>1. PICK t : Advances(w, t) /\ t.pc = "markUnknown"
    BY <1>1, <1>2, GotoAdvances
  <2>2. QED
    BY <1>1, <1>2, <2>1, PlainStep
<1>3. ASSUME NEW r \in WithId(work[w].out), r.status = "sending",
             rows' = Replaced([r EXCEPT !.status = "sent", !.fate = work[w].fate]),
             Goto(w, "finish")
      PROVE  AnswerInv'
  <2>1. PICK t : Advances(w, t) /\ t.pc = "finish"
    BY <1>1, <1>3, GotoAdvances
  <2> DEFINE s == [r EXCEPT !.status = "sent", !.fate = work[w].fate]
  <2>2. r \in rows /\ r.id = work[w].out /\ r \in Row
    BY DEF WithId, RetentionInv, TypeOK
  <2>3. Alike(s, r) /\ s.status = "sent" /\ s.fate = work[w].fate
    BY <2>2 DEF Row, Alike
  <2>4. rows' = Replaced(s)
    BY <1>3
  <2> HIDE DEF s
  <2>5. QED
    BY <1>1, <1>3, <2>1, <2>2, <2>3, <2>4, RecordedAnswer
<1>4. QED
  BY <1>2, <1>3 DEF MarkSent

\* setOutbound finds the reply in one of the statuses, or changes nothing.
LEMMA SetOutboundRows ==
  ASSUME RetentionInv, NEW w \in Workers, NEW from, NEW status, SetOutbound(w, from, status)
  PROVE  \/ rows' = rows
         \/ \E r \in rows : r.id = work[w].out /\ r.status \in from /\
              \E s : Alike(s, r) /\ s.status = status /\ s.fate = r.fate /\ rows' = Replaced(s)
<1> DEFINE F(p) == [p EXCEPT !.status = status]
<1>1. rows' = {IF p.id = work[w].out /\ p.status \in from THEN F(p) ELSE p : p \in rows}
  BY DEF SetOutbound
<1>2. \A p \in rows : Alike(F(p), p) /\ F(p).status = status /\ F(p).fate = p.fate
  BY DEF RetentionInv, TypeOK, Row, Alike
<1> HIDE DEF F
<1>3. CASE \A p \in rows : ~(p.id = work[w].out /\ p.status \in from)
  BY <1>1, <1>3
<1>4. CASE \E p \in rows : p.id = work[w].out /\ p.status \in from
  <2>1. PICK r \in rows : r.id = work[w].out /\ r.status \in from
    BY <1>4
  <2>2. \A p \in rows : p.id = work[w].out /\ p.status \in from <=> p.id = r.id
    BY <2>1 DEF RetentionInv, TypeOK
  <2>3. F(r).id = r.id /\ \A p \in rows : p.id = r.id => p = r
    BY <1>2 DEF Alike, RetentionInv, TypeOK
  <2>4. rows' = Replaced(F(r))
    BY <1>1, <2>2, <2>3 DEF Replaced
  <2>5. QED
    BY <1>2, <2>1, <2>4
<1>5. QED
  BY <1>3, <1>4

LEMMA MarkFailedAnswer ==
  ASSUME RetentionInv, RetentionInv', AnswerInv, NEW w \in Workers, MarkFailed(w)
  PROVE  AnswerInv'
<1>1. /\ work[w].pc = "markFailed" /\ UNCHANGED <<ids, operators, clock, meta>>
      /\ SetOutbound(w, {"sending"}, "failed")
  BY DEF MarkFailed, SetOutbound, At
<1>2. PICK t : Advances(w, t) /\ t.pc = "fail"
  BY <1>1, GotoAdvances DEF MarkFailed
<1>3. CASE rows' = rows
  BY <1>1, <1>2, <1>3, PlainStep
<1>4. CASE rows' # rows
  <2>1. PICK r \in rows : r.id = work[w].out /\ r.status \in {"sending"} /\
              \E s : Alike(s, r) /\ s.status = "failed" /\ s.fate = r.fate /\ rows' = Replaced(s)
    BY <1>1, <1>4, SetOutboundRows
  <2>2. PICK s : Alike(s, r) /\ s.status = "failed" /\ s.fate = r.fate /\ rows' = Replaced(s)
    BY <2>1
  <2>3. QED
    BY <1>1, <1>2, <2>1, <2>2, RecordedAnswer
<1>5. QED
  BY <1>3, <1>4

\* A delivery that is declared unknown is not tried again.
LEMMA MarkUnknownAnswer ==
  ASSUME RetentionInv, RetentionInv', AnswerInv, NEW w \in Workers, MarkUnknown(w)
  PROVE  AnswerInv'
<1>1. /\ work[w].pc = "markUnknown" /\ UNCHANGED <<ids, operators, clock, meta>>
      /\ SetOutbound(w, {"sending", "failed"}, "delivery_unknown")
  BY DEF MarkUnknown, SetOutbound, At
<1>2. PICK t : Advances(w, t) /\ t.pc = "finish"
  BY <1>1, GotoAdvances DEF MarkUnknown
<1>3. CASE rows' = rows
  BY <1>1, <1>2, <1>3, PlainStep
<1>4. CASE rows' # rows
  <2>1. PICK r \in rows : r.id = work[w].out /\ r.status \in {"sending", "failed"} /\
              \E s : Alike(s, r) /\ s.status = "delivery_unknown" /\ s.fate = r.fate /\ rows' = Replaced(s)
    BY <1>1, <1>4, SetOutboundRows
  <2>2. PICK s : Alike(s, r) /\ s.status = "delivery_unknown" /\ s.fate = r.fate /\ rows' = Replaced(s)
    BY <2>1
  <2>3. r.out /\ r.fate = "none"
    BY <1>1, <2>1, ReplyOf DEF AnswerInv, Fated
  <2>4. UNCHANGED <<ids, user, today, overdue, job, sent, copies>>
    BY <1>1 DEF operators, clock, meta
  <2>5. /\ SameShape /\ Fated' /\ rows' = (rows \ {r}) \cup {s}
        /\ \A x : Inbound(x)' = Inbound(x)
    BY <2>2, <2>3, OutboundChange
  <2>6. Unsent'
    BY <2>4 DEF AnswerInv, Unsent
  <2>7. s.out /\ s.msg = r.msg
    BY <2>2, <2>3 DEF Alike
  <2>8. \A q \in rows' : q \in rows \/ q.out
    BY <2>5, <2>7
  <2>9. work' = [work EXCEPT ![w] = t]
    BY <1>2 DEF Advances
  <2>10. \A x \in Messages : \A v \in Holders(x)' : v \in Holders(x) /\ work'[v] = work[v]
    BY <1>2, <2>9, HoldersShrink
  <2>11. ASSUME NEW x \in Messages \ overdue PROVE Once(x)'
    <3>1. \A q \in Outs(x)' : \E p \in Outs(x) :
            (q.status = p.status \/ q.status = "delivery_unknown") /\ q.fate = p.fate
      BY <2>2, <2>3, <2>5, <2>7 DEF Outs
    <3>2. Outs(x)' = {} => Outs(x) = {}
      BY <2>3, <2>5, <2>7 DEF Outs
    <3>3. Once(x)
      BY DEF AnswerInv
    <3>4. QED
      BY <2>4, <2>5, <2>10, <3>1, <3>2, <3>3, OnceKept
  <2>12. QED
    BY <1>2, <2>4, <2>5, <2>6, <2>8, <2>11, ProgressStep
<1>5. QED
  BY <1>3, <1>4

\* Meta reports on a reply it has accepted: one that failed has not reached the user.
LEMMA StatusAnswer ==
  ASSUME RetentionInv, RetentionInv', AnswerInv, NEW r \in rows, DeliveryStatus(r)
  PROVE  AnswerInv'
<1>1. UNCHANGED <<ids, user, today, overdue, job, sent, copies, work>>
  BY DEF DeliveryStatus, operators, clock, meta
<1>2. r \in Row /\ r.fate # "none" /\ r.out /\ r.status = "sent"
  BY DEF DeliveryStatus, RetentionInv, TypeOK, AnswerInv, Fated
<1>3. PICK m \in Messages : m = r.msg
  BY <1>2 DEF Row
<1>4. \E s : /\ Alike(s, r) /\ rows' = Replaced(s)
             /\ \/ r.fate = "delivered" /\ s.status = "delivered" /\ s.fate = "delivered"
                \/ r.fate = "failed" /\ s.status = "failed" /\ s.fate = "none"
  <2>1. CASE r.fate = "delivered" /\ rows' = Replaced([r EXCEPT !.status = "delivered"])
    <3> DEFINE s == [r EXCEPT !.status = "delivered"]
    <3>1. Alike(s, r) /\ s.status = "delivered" /\ s.fate = r.fate
      BY <1>2 DEF Row, Alike
    <3>2. rows' = Replaced(s)
      BY <2>1
    <3> HIDE DEF s
    <3>3. QED
      BY <2>1, <3>1, <3>2
  <2>2. CASE r.fate = "failed" /\ rows' = Replaced([r EXCEPT !.status = "failed", !.fate = "none"])
    <3> DEFINE s == [r EXCEPT !.status = "failed", !.fate = "none"]
    <3>1. Alike(s, r) /\ s.status = "failed" /\ s.fate = "none"
      BY <1>2 DEF Row, Alike
    <3>2. rows' = Replaced(s)
      BY <2>2
    <3> HIDE DEF s
    <3>3. QED
      BY <2>2, <3>1, <3>2
  <2>3. QED
    BY <2>1, <2>2 DEF DeliveryStatus
<1>5. PICK s : /\ Alike(s, r) /\ rows' = Replaced(s)
               /\ \/ r.fate = "delivered" /\ s.status = "delivered" /\ s.fate = "delivered"
                  \/ r.fate = "failed" /\ s.status = "failed" /\ s.fate = "none"
  BY <1>4
<1>6. /\ SameShape /\ Fated' /\ rows' = (rows \ {r}) \cup {s}
      /\ \A x : Inbound(x)' = Inbound(x)
      /\ \A x : x # m => Outs(x)' = Outs(x)
      /\ m \notin overdue => Outs(m) = {r} /\ Outs(m)' = {s}
  <2>1. s.fate # "none" => s.status \in {"sent", "delivered"}
    BY <1>5
  <2>2. s.fate = "failed" => s.status = "sent"
    BY <1>5
  <2>3. QED
    BY <1>2, <1>3, <1>5, <2>1, <2>2, OutboundChange
<1>7. Unsent'
  BY <1>1 DEF AnswerInv, Unsent
<1>8. \A v \in Workers : AboutOf(v)'
  <2>1. \A q \in rows' : q.id > ids \/ \E p \in rows : q.id = p.id /\ q.out = p.out /\ q.msg = p.msg
    BY <1>6 DEF SameShape, Alike
  <2>2. ids <= ids'
    BY <1>1 DEF RetentionInv, TypeOK
  <2>3. QED
    BY <1>1, <2>1, <2>2, AboutKeeps
<1>9. \A x \in Messages \ overdue : \A q \in Inbound(x)' : Expired(q, today, RecordDays) =>
         /\ q \in rows
         /\ \A v \in Workers : work'[v].pc # "idle" /\ work'[v].id = q.id =>
               work[v].pc # "idle" /\ work[v].id = q.id
  BY <1>1, <1>6 DEF Inbound
<1>10. ASSUME NEW x \in Messages \ overdue, x # m PROVE Once(x)'
  BY <1>1, <1>6, <1>10, OthersKept
<1>11. ASSUME m \notin overdue PROVE Once(m)'
  <2>1. Once(m) /\ Outs(m) = {r} /\ Outs(m)' = {s}
    BY <1>6, <1>11 DEF AnswerInv
  <2>2. Holders(m) = {} /\ Holders(m)' = {}
    BY <1>1, <1>2, <2>1 DEF Once, Holders
  <2>3. r.fate = "failed" => copies[m] = 0
    BY <2>1 DEF Once
  <2>4. QED
    BY <1>1, <1>5, <2>1, <2>2, <2>3 DEF Once
<1>12. \A x \in Messages \ overdue : Once(x)'
  BY <1>10, <1>11
<1>13. QED
  BY <1>1, <1>6, <1>7, <1>8, <1>9, <1>12, MoveStep

-----------------------------------------------------------------------------
(***************************************************************************)
(* Steps of the job, the operators and the clock                           *)
(***************************************************************************)

\* s is what the purge of the ids in gone leaves of q.
Left(s, q, gone) ==
  /\ s.id = q.id /\ s.out = q.out /\ s.msg = q.msg /\ s.day = q.day
  /\ s.status = q.status /\ s.attempts = q.attempts /\ s.fate = q.fate
  /\ s.reply = IF q.reply \in gone THEN 0 ELSE q.reply

\* The purge takes the rows that are due, whole, and the references to them.
LEMMA PurgedRows ==
  ASSUME RetentionInv, Purge
  PROVE  \E gone :
           /\ \A q \in rows : q.id \in gone <=> Purgeable(q, job.now)
           /\ \A s \in rows' : \E q \in rows : q.id \notin gone /\ Left(s, q, gone)
           /\ \A q \in rows : q.id \notin gone => \E s \in rows' : Left(s, q, gone)
<1> DEFINE gone == IdsOf({r \in rows : Purgeable(r, job.now)})
           G(q) == [q EXCEPT !.reply = IF @ \in gone THEN 0 ELSE @]
           F(q) == [q EXCEPT !.content = @ /\ q.id \notin job.minimized]
<1>1. \A q \in rows : q.id \in gone <=> Purgeable(q, job.now)
  BY DEF IdsOf, RetentionInv, TypeOK
<1>2. rows' = {F(p) : p \in {G(q) : q \in {r \in rows : r.id \notin gone}}}
  BY DEF Purge, Without
<1>3. ASSUME NEW q \in rows PROVE Left(F(G(q)), q, gone)
  <2>1. q \in Row
    BY DEF RetentionInv, TypeOK
  <2> HIDE DEF gone
  <2>2. PICK n : n = IF q.reply \in gone THEN 0 ELSE q.reply
    OBVIOUS
  <2>3. G(q) = [q EXCEPT !.reply = n]
    BY <2>2
  <2>4. PICK p : p = G(q)
    OBVIOUS
  <2>5. /\ DOMAIN p = DOMAIN q /\ p.id = q.id /\ p.out = q.out /\ p.msg = q.msg /\ p.day = q.day
        /\ p.status = q.status /\ p.attempts = q.attempts /\ p.fate = q.fate /\ p.reply = n
    BY <2>1, <2>3, <2>4 DEF Row
  <2>6. PICK b : b = (p.content /\ p.id \notin job.minimized)
    OBVIOUS
  <2>7. F(p) = [p EXCEPT !.content = b]
    BY <2>6
  <2>8. /\ F(p).id = p.id /\ F(p).out = p.out /\ F(p).msg = p.msg /\ F(p).day = p.day
        /\ F(p).status = p.status /\ F(p).attempts = p.attempts /\ F(p).fate = p.fate
        /\ F(p).reply = p.reply
    BY <2>1, <2>3, <2>4, <2>7 DEF Row
  <2> HIDE DEF F, G
  <2>9. QED
    BY <2>2, <2>4, <2>5, <2>8 DEF Left
<1> HIDE DEF gone, F, G
<1>4. \A s \in rows' : \E q \in rows : q.id \notin gone /\ Left(s, q, gone)
  BY <1>2, <1>3
<1>5. \A q \in rows : q.id \notin gone => \E s \in rows' : Left(s, q, gone)
  BY <1>2, <1>3
<1>6. QED
  BY <1>1, <1>4, <1>5

\* A reply goes only with its message, and a message only once Meta no longer
\* repeats it and nobody works on it.
LEMMA PurgeAnswer ==
  ASSUME RetentionInv, RetentionInv', AnswerInv, Purge
  PROVE  AnswerInv'
<1>1. /\ UNCHANGED <<ids, user, today, overdue, sent, copies, work>>
      /\ job.pc = "purge" /\ job'.pc = "idle"
  BY DEF Purge, clock, meta, NoJob
<1>2. PICK gone :
        /\ \A q \in rows : q.id \in gone <=> Purgeable(q, job.now)
        /\ \A s \in rows' : \E q \in rows : q.id \notin gone /\ Left(s, q, gone)
        /\ \A q \in rows : q.id \notin gone => \E s \in rows' : Left(s, q, gone)
  BY PurgedRows
<1>3. /\ today \in Nat /\ job.now \in Nat /\ job.now <= today
      /\ RecordDays \in Nat /\ RedeliveryDays \in Nat /\ RedeliveryDays <= RecordDays
      /\ \A x \in Messages : sent[x] \in Nat
      /\ \A q \in rows : q.day \in Nat /\ q.id \in Nat /\ q.id # 0 /\ q.msg \in Messages
  BY <1>1, LimitAssumption, PolicyAssumption
  DEF RetentionInv, TypeOK, AnswerInv, Timed, Row, Ids, Never
<1>4. \A q \in rows : q.id \in gone =>
         Terminal(q) /\ Expired(q, job.now, RecordDays) /\ Expired(q, today, RecordDays)
  BY <1>2, <1>3 DEF Purgeable, Expired
<1>5. Dated'
  <2>1. SUFFICES ASSUME NEW s \in rows'
        PROVE /\ s.day <= today
              /\ sent[s.msg] # Never
              /\ ~s.out => s.reply = 0 /\ sent[s.msg] <= s.day
              /\ s.reply # 0 =>
                   \E p \in rows' : p.id = s.reply /\ ~p.out /\ p.msg = s.msg /\ p.day <= s.day
    BY <1>1 DEF Dated
  <2>2. PICK q \in rows : q.id \notin gone /\ Left(s, q, gone)
    BY <1>2
  <2>3. /\ q.day <= today
        /\ sent[q.msg] # Never
        /\ ~q.out => q.reply = 0 /\ sent[q.msg] <= q.day
        /\ q.reply # 0 => \E r \in rows : r.id = q.reply /\ ~r.out /\ r.msg = q.msg /\ r.day <= q.day
    BY DEF AnswerInv, Dated
  <2>4. ASSUME s.reply # 0
        PROVE  \E p \in rows' : p.id = s.reply /\ ~p.out /\ p.msg = s.msg /\ p.day <= s.day
    <3>1. q.reply # 0 /\ s.reply = q.reply /\ q.reply \notin gone
      BY <2>2, <2>4 DEF Left
    <3>2. PICK r \in rows : r.id = q.reply /\ ~r.out /\ r.msg = q.msg /\ r.day <= q.day
      BY <2>3, <3>1
    <3>3. PICK p \in rows' : Left(p, r, gone)
      BY <1>2, <3>1, <3>2
    <3>4. QED
      BY <2>2, <3>1, <3>2, <3>3 DEF Left
  <2>5. QED
    BY <2>2, <2>3, <2>4 DEF Left
<1>6. Fated'
  BY <1>2 DEF AnswerInv, Fated, Left
<1>7. Unsent' /\ Timed'
  BY <1>1 DEF AnswerInv, Unsent, Timed
<1>8. \A v \in Workers : AboutOf(v)'
  <2>1. \A q \in rows' : q.id > ids \/ \E p \in rows : q.id = p.id /\ q.out = p.out /\ q.msg = p.msg
    BY <1>2 DEF Left
  <2>2. ids <= ids'
    BY <1>1 DEF RetentionInv, TypeOK
  <2>3. QED
    BY <1>1, <2>1, <2>2, AboutKeeps
<1>9. ASSUME NEW m \in Messages \ overdue
      PROVE  Single(m)' /\ Known(m)' /\ SettledInTime(m)' /\ Once(m)'
  <2>1. Single(m) /\ Known(m) /\ SettledInTime(m) /\ Once(m)
    BY DEF AnswerInv
  <2>2. Single(m)'
    <3>1. SUFFICES ASSUME NEW q \in rows', NEW r \in rows', q.msg = m, r.msg = m
          PROVE  /\ (q.out <=> r.out) => q = r
                 /\ q.out /\ ~r.out => q.reply = r.id
      BY DEF Single
    <3>2. PICK p \in rows : p.id \notin gone /\ Left(q, p, gone)
      BY <1>2
    <3>3. PICK s \in rows : s.id \notin gone /\ Left(r, s, gone)
      BY <1>2
    <3>4. /\ (p.out <=> s.out) => p = s
          /\ p.out /\ ~s.out => p.reply = s.id
      BY <2>1, <3>1, <3>2, <3>3 DEF Single, Left
    <3>5. q.id = r.id => q = r
      BY DEF RetentionInv, TypeOK
    <3>6. QED
      BY <3>2, <3>3, <3>4, <3>5 DEF Left
  <2>3. Known(m)'
    <3>1. SUFFICES ASSUME sent[m] # Never, user
          PROVE  Inbound(m)' # {} \/ sent[m] + RedeliveryDays < today
      BY <1>1 DEF Known
    <3>2. CASE Inbound(m) = {}
      BY <2>1, <3>1, <3>2 DEF Known
    <3>3. CASE Inbound(m) # {}
      <4>1. PICK r \in rows : ~r.out /\ r.msg = m
        BY <3>3 DEF Inbound
      <4>2. CASE r.id \notin gone
        BY <1>2, <4>1, <4>2 DEF Inbound, Left
      <4>3. CASE r.id \in gone
        <5>1. r.day < today - RecordDays /\ sent[m] <= r.day
          BY <1>4, <4>1, <4>3 DEF Expired, AnswerInv, Dated
        <5>2. QED
          BY <1>3, <5>1
      <4>4. QED
        BY <4>2, <4>3
    <3>4. QED
      BY <3>2, <3>3
  <2>4. SettledInTime(m)'
    <3>1. SUFFICES ASSUME NEW s \in Inbound(m)', Expired(s, today, RecordDays)
          PROVE  Settled(s) /\ \A w \in Workers : work[w].pc # "idle" => work[w].id # s.id
      BY <1>1 DEF SettledInTime, Expired, Settled
    <3>2. PICK q \in rows : q.id \notin gone /\ Left(s, q, gone)
      BY <1>2 DEF Inbound
    <3>3. q \in Inbound(m) /\ Expired(q, today, RecordDays)
      BY <3>1, <3>2 DEF Inbound, Left, Expired
    <3>4. Settled(q) /\ \A w \in Workers : work[w].pc # "idle" => work[w].id # q.id
      BY <2>1, <3>3 DEF SettledInTime
    <3>5. QED
      BY <3>2, <3>4 DEF Left, Settled
  <2>5. ASSUME NEW s \in Inbound(m)', Outs(m)' = {}
        PROVE  Inbound(m) # {} /\ Outs(m) = {}
    <3>1. PICK r \in rows : r.id \notin gone /\ Left(s, r, gone)
      BY <1>2 DEF Inbound
    <3>2. ~r.out /\ r.msg = m
      BY <3>1 DEF Inbound, Left
    <3>3. ASSUME NEW q \in Outs(m) PROVE FALSE
      <4>1. q \in rows /\ q.out /\ q.msg = m
        BY DEF Outs
      <4>2. q.id \in gone
        BY <1>2, <2>5, <4>1 DEF Outs, Left
      <4>3. q.reply = r.id
        BY <2>1, <3>2, <4>1 DEF Single
      <4>4. PICK p \in rows : p.id = q.reply /\ p.day <= q.day
        BY <1>3, <4>1, <4>3 DEF AnswerInv, Dated
      <4>5. p = r
        BY <4>3, <4>4 DEF RetentionInv, TypeOK
      <4>6. q.day < job.now - RecordDays /\ q.day < today - RecordDays
        BY <1>4, <4>1, <4>2 DEF Expired
      <4>7. r.day < job.now - RecordDays /\ r.day < today - RecordDays
        BY <1>3, <4>1, <4>4, <4>5, <4>6
      <4>8. Settled(r)
        BY <2>1, <3>2, <4>7 DEF SettledInTime, Inbound, Expired
      <4>9. Purgeable(r, job.now)
        BY <3>2, <4>7, <4>8 DEF Purgeable, Terminal, Settled, Expired
      <4>10. QED
        BY <1>2, <3>1, <4>9
    <3>4. QED
      BY <3>2, <3>3 DEF Inbound
  <2>6. \A s \in Outs(m)' : \E q \in Outs(m) : s.status = q.status /\ s.fate = q.fate
    BY <1>2 DEF Outs, Left
  <2>7. \A w \in Holders(m)' : w \in Holders(m)
    BY <1>1 DEF Holders
  <2>8. Once(m)'
    BY <1>1, <2>1, <2>5, <2>6, <2>7, OnceKept
  <2>9. QED
    BY <2>2, <2>3, <2>4, <2>8
<1>10. QED
  BY <1>1, <1>5, <1>6, <1>7, <1>8, <1>9 DEF AnswerInv

\* Nothing is left, and nothing will be.
LEMMA ErasedAnswer ==
  ASSUME RetentionInv, RetentionInv', AnswerInv, EraseUser \/ EraseClient
  PROVE  AnswerInv'
<1>1. UNCHANGED <<ids, today, overdue, sent, copies, work, job>> /\ user' = FALSE
  BY DEF EraseUser, EraseClient, clock, meta
<1>2. rows' = {}
  BY <1>1 DEF RetentionInv, Gone
<1>3. Dated' /\ Fated' /\ Unsent' /\ Timed'
  BY <1>1, <1>2 DEF AnswerInv, Dated, Fated, Unsent, Timed
<1>4. \A v \in Workers : AboutOf(v)'
  <2>1. ids <= ids'
    BY <1>1 DEF RetentionInv, TypeOK
  <2>2. QED
    BY <1>1, <1>2, <2>1, AboutKeeps
<1>5. ASSUME NEW m \in Messages \ overdue
      PROVE  Single(m)' /\ Known(m)' /\ SettledInTime(m)' /\ Once(m)'
  <2>1. Outs(m)' = {} /\ Inbound(m)' = {}
    BY <1>2 DEF Outs, Inbound
  <2>2. Once(m) /\ \A w \in Holders(m)' : w \in Holders(m)
    BY <1>1 DEF AnswerInv, Holders
  <2>3. Once(m)'
    BY <1>1, <2>1, <2>2, OnceKept
  <2>4. Single(m)' /\ Known(m)' /\ SettledInTime(m)'
    BY <1>1, <1>2, <2>1 DEF Single, Known, SettledInTime
  <2>5. QED
    BY <2>3, <2>4
<1>6. QED
  BY <1>1, <1>3, <1>4, <1>5 DEF AnswerInv

\* What is stored, and who works on it, stays as it is for a day.
LEMMA QuietAnswer ==
  ASSUME AnswerInv, UNCHANGED <<table, user, work, meta, clock>>, Timed'
  PROVE  AnswerInv'
<1>1. UNCHANGED <<rows, ids, user, work, sent, copies, today, overdue>>
  BY DEF table, meta, clock
<1>2. Dated' /\ Fated' /\ Unsent' /\ \A w \in Workers : AboutOf(w)'
  BY <1>1 DEF AnswerInv, Dated, Fated, Unsent, AboutOf
<1>3. ASSUME NEW m \in Messages \ overdue
      PROVE  Single(m)' /\ Known(m)' /\ SettledInTime(m)' /\ Once(m)'
  <2>1. Single(m) /\ Known(m) /\ SettledInTime(m) /\ Once(m)
    BY DEF AnswerInv
  <2>2. Outs(m)' = Outs(m) /\ Inbound(m)' = Inbound(m) /\ Holders(m)' = Holders(m)
    BY <1>1 DEF Outs, Inbound, Holders
  <2>3. Single(m)' /\ Known(m)'
    BY <1>1, <2>1, <2>2 DEF Single, Known
  <2>4. SettledInTime(m)'
    BY <1>1, <2>1, <2>2 DEF SettledInTime, Expired, Settled
  <2>5. Once(m)'
    BY <1>1, <2>1, <2>2 DEF Once
  <2>6. QED
    BY <2>3, <2>4, <2>5
<1>4. QED
  BY <1>1, <1>2, <1>3 DEF AnswerInv

LEMMA OperatorAnswer ==
  ASSUME RetentionInv, AnswerInv,
         \/ BeginJob \/ Minimize \/ JobFails
         \/ BeginErasure \/ EraseMessages \/ ErasureFails \/ ChangeHold
  PROVE  AnswerInv'
<1>1. UNCHANGED <<table, user, work, meta, clock>>
  BY DEF BeginJob, Minimize, JobFails, BeginErasure, EraseMessages, ErasureFails, ChangeHold
<1>2. job'.pc # "idle" => job'.now <= today
  <2>1. CASE BeginJob
    <3>1. today \in Nat
      BY LimitAssumption DEF RetentionInv, TypeOK
    <3>2. QED
      BY <2>1, <3>1 DEF BeginJob, NoJob
  <2>2. CASE Minimize
    <3>1. job'.now = job.now /\ job.pc # "idle"
      BY <2>2, Transactions DEF Minimize
    <3>2. QED
      BY <3>1 DEF AnswerInv, Timed
  <2>3. CASE JobFails
    BY <2>3 DEF JobFails, NoJob
  <2>4. CASE BeginErasure \/ EraseMessages \/ ErasureFails \/ ChangeHold
    <3>1. job' = job
      BY <2>4 DEF BeginErasure, EraseMessages, ErasureFails, ChangeHold
    <3>2. QED
      BY <3>1 DEF AnswerInv, Timed
  <2>5. QED
    BY <2>1, <2>2, <2>3, <2>4
<1>3. Timed'
  BY <1>1, <1>2 DEF AnswerInv, Timed, meta, clock
<1>4. QED
  BY <1>1, <1>3, QuietAnswer

\* At midnight nobody works, and what is not settled is given up as overdue.
LEMMA TickAnswer ==
  ASSUME RetentionInv, AnswerInv, Tick
  PROVE  AnswerInv'
<1>1. /\ UNCHANGED <<rows, ids, user, work, sent, copies, job>> /\ today' = today + 1
      /\ \A w \in Workers : work[w].pc = "idle"
      /\ overdue' = overdue \cup
           {r.msg : r \in {q \in rows : ~q.out /\ ~Settled(q) /\ Expired(q, today + 1, RecordDays)}}
  BY DEF Tick, table, operators, meta, At
<1>2. /\ today \in Nat /\ today <= today' /\ RedeliveryDays \in Nat /\ job.now \in Nat
      /\ \A q \in rows : q.day \in Nat
      /\ \A m \in Messages : sent[m] \in Nat
  BY <1>1, LimitAssumption, PolicyAssumption DEF RetentionInv, TypeOK, Row, Never
<1>3. Dated'
  <2>1. \A q \in rows : q.day <= today => q.day <= today'
    BY <1>1, <1>2
  <2>2. QED
    BY <1>1, <2>1 DEF AnswerInv, Dated
<1>4. Fated' /\ Unsent' /\ \A w \in Workers : AboutOf(w)'
  BY <1>1 DEF AnswerInv, Fated, Unsent, AboutOf
<1>5. Timed'
  <2>1. (job.now <= today => job.now <= today') /\ \A m \in Messages : sent[m] <= today => sent[m] <= today'
    BY <1>1, <1>2
  <2>2. QED
    BY <1>1, <2>1 DEF AnswerInv, Timed
<1>6. ASSUME NEW m \in Messages \ overdue'
      PROVE  Single(m)' /\ Known(m)' /\ SettledInTime(m)' /\ Once(m)'
  <2>1. Single(m) /\ Known(m) /\ Once(m)
    BY <1>1 DEF AnswerInv
  <2>2. Outs(m)' = Outs(m) /\ Inbound(m)' = Inbound(m) /\ Holders(m)' = Holders(m)
    BY <1>1 DEF Outs, Inbound, Holders
  <2>3. Single(m)' /\ Once(m)'
    BY <1>1, <2>1, <2>2 DEF Single, Once
  <2>4. Known(m)'
    <3>1. sent[m] + RedeliveryDays < today => sent[m] + RedeliveryDays < today'
      BY <1>1, <1>2
    <3>2. QED
      BY <1>1, <2>1, <2>2, <3>1 DEF Known
  <2>5. SettledInTime(m)'
    <3>1. \A r \in Inbound(m) : Expired(r, today + 1, RecordDays) => Settled(r)
      BY <1>1, <1>6 DEF Inbound
    <3>2. QED
      BY <1>1, <2>2, <3>1 DEF SettledInTime, Expired, Settled
  <2>6. QED
    BY <2>3, <2>4, <2>5
<1>7. QED
  BY <1>3, <1>4, <1>5, <1>6 DEF AnswerInv

LEMMA InitAnswer == Init => AnswerInv
<1>1. SUFFICES ASSUME Init PROVE AnswerInv
  OBVIOUS
<1>2. Dated /\ Fated /\ Unsent /\ Timed /\ \A w \in Workers : AboutOf(w)
  BY <1>1 DEF Init, Dated, Fated, Unsent, Timed, AboutOf, Idle, NoJob
<1>3. ASSUME NEW m \in Messages PROVE Single(m) /\ Known(m) /\ SettledInTime(m) /\ Once(m)
  <2>1. rows = {} /\ sent[m] = Never /\ copies[m] = 0 /\ Holders(m) = {}
    BY <1>1 DEF Init, Holders, Idle
  <2>2. QED
    BY <2>1 DEF Single, Known, SettledInTime, Inbound, Outs, Once
<1>4. QED
  BY <1>2, <1>3 DEF AnswerInv

LEMMA NextAnswer == RetentionInv /\ AnswerInv /\ [Next]_vars => AnswerInv'
<1>1. SUFFICES ASSUME RetentionInv, AnswerInv, [Next]_vars PROVE AnswerInv'
  OBVIOUS
<1>2. RetentionInv'
  BY <1>1, NextInv
<1>3. CASE UNCHANGED vars
  <2>1. UNCHANGED <<table, user, work, meta, clock>> /\ Timed'
    BY <1>1, <1>3 DEF vars, table, meta, clock, AnswerInv, Timed
  <2>2. QED
    BY <1>1, <2>1, QuietAnswer
<1>4. CASE \E m \in Messages : Receive(m)
  BY <1>1, <1>2, <1>4, RepeatedAnswer, StoredAnswer
<1>5. ASSUME NEW w \in Workers, Recover(w) \/ Work(w) \/ Crash(w)
      PROVE  AnswerInv'
  <2>1. CASE Recover(w)
    BY <1>1, <1>2, <2>1, RecoverAnswer
  <2>2. CASE Crash(w) \/ Interrupted(w)
    BY <1>1, <1>2, <2>2, StopAnswer
  <2>3. CASE Claim(w) \/ Reserve(w) \/ Send(w)
    BY <1>1, <1>2, <2>3, ClaimAnswer, ReserveAnswer, SendAnswer
  <2>4. CASE MarkSent(w) \/ MarkFailed(w) \/ MarkUnknown(w)
    BY <1>1, <1>2, <2>4, MarkSentAnswer, MarkFailedAnswer, MarkUnknownAnswer
  <2>5. CASE Ignore(w) \/ Finish(w) \/ Fail(w)
    <3>1. work[w].pc # "idle" /\ \E status, attempts : SetInbound(w, status, attempts)
      BY <2>5 DEF Ignore, Finish, Fail, At
    <3>2. QED
      BY <1>1, <1>2, <3>1, SettleAnswer
  <2>6. QED
    BY <1>5, <2>1, <2>2, <2>3, <2>4, <2>5 DEF Work
<1>6. CASE \E r \in rows : DeliveryStatus(r)
  BY <1>1, <1>2, <1>6, StatusAnswer
<1>7. CASE Purge \/ EraseUser \/ EraseClient \/ Tick
  BY <1>1, <1>2, <1>7, PurgeAnswer, ErasedAnswer, TickAnswer
<1>8. CASE \/ BeginJob \/ Minimize \/ JobFails
           \/ BeginErasure \/ EraseMessages \/ ErasureFails \/ ChangeHold
  BY <1>1, <1>8, OperatorAnswer
<1>9. QED
  BY <1>1, <1>3, <1>4, <1>5, <1>6, <1>7, <1>8 DEF Next

\* Webhooks, workers, recovery and the outbox (message-processor.ts) and the
\* retention job (migrations/005) together answer a message once, over the whole
\* life of its records, if recovery has settled it before they expire.
THEOREM OnceSafety == Spec => []AnsweredOnce
<1>1. AnswerInv => AnsweredOnce
  BY DEF AnswerInv, Once, AnsweredOnce
<1>2. RetentionInv /\ AnswerInv /\ [Next]_vars => AnswerInv'
  BY NextAnswer
<1>3. QED
  BY <1>1, <1>2, InitAnswer, TableSafety, PTL DEF Spec

=============================================================================
