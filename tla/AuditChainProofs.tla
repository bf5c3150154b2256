--------------------------- MODULE AuditChainProofs ---------------------------
(***************************************************************************)
(* Theorems about AuditChain and its verifier, for every number of clients, *)
(* operators and lifecycle jobs, and every retention.                      *)
(***************************************************************************)
EXTENDS AuditVerifier, TLAPS

\* A process at rest is a transaction of the type.
LEMMA IdleTxType == IdleTx \in Tx
  BY LimitAssumption DEF IdleTx, Tx, Place, Hashes, Link, NoEvent

\* Every step of a transaction leaves it a transaction.
LEMMA TxType ==
  ASSUME TypeOK, NEW p \in Processes
  PROVE  /\ \A pc \in Place : Goto(p, pc) => tx' \in [Processes -> Tx]
         /\ End(p) => tx' \in [Processes -> Tx]
         /\ \A pc \in Place, about \in BOOLEAN : Begin(p, pc, about) =>
              tx' \in [Processes -> Tx] /\ begun' \in 0..MaxTransactions
         /\ LockChain(p) => tx' \in [Processes -> Tx]
         /\ ReserveSequence(p) => tx' \in [Processes -> Tx]
         /\ BeginPurge(p) => tx' \in [Processes -> Tx]
         /\ FindBoundary(p) => tx' \in [Processes -> Tx]
<1>1. ASSUME NEW pc \in Place, Goto(p, pc)
      PROVE  tx' \in [Processes -> Tx]
  <2>1. [tx[p] EXCEPT !.pc = pc] \in Tx
    BY DEF TypeOK, Tx
  <2>2. QED
    BY <1>1, <2>1 DEF Goto, TypeOK
<1>2. ASSUME End(p)
      PROVE  tx' \in [Processes -> Tx]
  BY <1>2, IdleTxType DEF End, TypeOK
<1>3. ASSUME NEW pc \in Place, NEW about \in BOOLEAN, Begin(p, pc, about)
      PROVE  tx' \in [Processes -> Tx] /\ begun' \in 0..MaxTransactions
  <2>1. begun + 1 \in Hashes
    BY <1>3, LimitAssumption DEF Begin, TypeOK, Hashes
  <2>2. [IdleTx EXCEPT !.pc = pc, !.hash = begun + 1, !.about = about] \in Tx
    BY <2>1, IdleTxType DEF Tx
  <2>3. QED
    BY <1>3, <2>1, <2>2 DEF Begin, TypeOK, Hashes
<1>4. ASSUME LockChain(p)
      PROVE  tx' \in [Processes -> Tx]
  <2>0. tx[p] \in Tx /\ last.hash \in Hashes
    BY DEF TypeOK, Link
  <2>1. [tx[p] EXCEPT !.pc = "sequence", !.prev = last.hash] \in Tx
    BY <2>0 DEF Tx, Place
  <2>2. tx' = [tx EXCEPT ![p] = [tx[p] EXCEPT !.pc = "sequence", !.prev = last.hash]]
    BY <1>4 DEF LockChain, TypeOK
  <2>3. QED
    BY <2>1, <2>2 DEF TypeOK
<1>5. ASSUME ReserveSequence(p)
      PROVE  tx' \in [Processes -> Tx]
  <2>0. sequence + 1 \in Nat
    BY DEF TypeOK
  <2>1. [tx[p] EXCEPT !.pc = "insert", !.seq = sequence + 1, !.day = today] \in Tx
    BY <2>0 DEF TypeOK, Tx, Place
  <2>2. tx' = [tx EXCEPT ![p] = [tx[p] EXCEPT !.pc = "insert", !.seq = sequence + 1, !.day = today]]
    BY <1>5 DEF ReserveSequence, TypeOK
  <2>3. QED
    BY <2>1, <2>2 DEF TypeOK
<1>6. ASSUME BeginPurge(p)
      PROVE  tx' \in [Processes -> Tx]
  <2>1. [IdleTx EXCEPT !.pc = "boundary", !.day = today] \in Tx
    BY IdleTxType DEF TypeOK, Tx, Place
  <2>2. QED
    BY <1>6, <2>1 DEF BeginPurge, TypeOK
<1>7. ASSUME FindBoundary(p)
      PROVE  tx' \in [Processes -> Tx]
  <2>1. CASE End(p)
    BY <1>2, <2>1
  <2>2. CASE ~End(p)
    <3>1. PICK e \in events :
            tx' = [tx EXCEPT ![p].pc = "purge", ![p].through = LinkOf(e)]
      BY <1>7, <2>2 DEF FindBoundary, ExpiredPrefix
    <3>2. LinkOf(e) \in Link
      BY DEF TypeOK, Event, Link, LinkOf, Hashes
    <3>3. [tx[p] EXCEPT !.pc = "purge", !.through = LinkOf(e)] \in Tx
      BY <3>2 DEF TypeOK, Tx, Place
    <3>4. tx' = [tx EXCEPT ![p] = [tx[p] EXCEPT !.pc = "purge", !.through = LinkOf(e)]]
      BY <3>1 DEF TypeOK
    <3>5. QED
      BY <3>3, <3>4 DEF TypeOK
  <2>3. QED
    BY <2>1, <2>2
<1>8. QED
  BY <1>1, <1>2, <1>3, <1>4, <1>5, <1>6, <1>7

\* Every variable keeps its type, whatever the step.
LEMMA TypeStep ==
  ASSUME TypeOK, [Next]_vars
  PROVE  TypeOK'
<1> USE DEF log, service, bounds
<1>1. ASSUME NEW p \in Processes, NEW about \in BOOLEAN,
             \/ Record(p, about) \/ Whitelist(p) \/ ChangeHold(p) \/ EraseUser(p)
             \/ EraseClient(p)
      PROVE  TypeOK'
  <2>1. PICK pc \in Place, a \in BOOLEAN : Begin(p, pc, a)
    BY <1>1 DEF Record, Whitelist, ChangeHold, EraseUser, EraseClient, Place
  <2>2. tx' \in [Processes -> Tx] /\ begun' \in 0..MaxTransactions
    BY <2>1, TxType
  <2>3. QED
    BY <2>1, <2>2 DEF Begin, TypeOK
<1>2. ASSUME NEW p \in Processes, BeginPurge(p) \/ FindBoundary(p) \/ LockChain(p)
      PROVE  TypeOK'
  <2>1. tx' \in [Processes -> Tx]
    BY <1>2, TxType
  <2>2. QED
    BY <1>2, <2>1 DEF BeginPurge, FindBoundary, LockChain, TypeOK
<1>3. ASSUME NEW p \in Processes,
             \/ LockAdvisory(p) \/ LockUser(p) \/ InsertEvent(p)
             \/ LockEventsTable(p) \/ LockChainTable(p)
      PROVE  TypeOK'
  <2>1. End(p) \/ \E pc \in Place : Goto(p, pc)
    BY <1>3 DEF LockAdvisory, LockUser, InsertEvent, LockEventsTable, LockChainTable, Place
  <2>2. tx' \in [Processes -> Tx]
    BY <2>1, TxType
  <2>3. QED
    BY <1>3, <2>2 DEF LockAdvisory, LockUser, InsertEvent, LockEventsTable, LockChainTable,
                      TypeOK
<1>4. ASSUME NEW p \in Processes, ReserveSequence(p)
      PROVE  TypeOK'
  <2>1. tx' \in [Processes -> Tx]
    BY <1>4, TxType
  <2>2. sequence' \in Nat
    BY <1>4 DEF ReserveSequence, TypeOK
  <2>3. QED
    BY <1>4, <2>1, <2>2 DEF ReserveSequence, TypeOK
<1>5. ASSUME NEW p \in Processes, Commit(p)
      PROVE  TypeOK'
  <2>1. tx' \in [Processes -> Tx]
    BY <1>5, TxType DEF Commit
  <2>2. NewEvent(tx[p]) \in Event /\ LinkOf(tx[p]) \in Link
    BY DEF TypeOK, Tx, NewEvent, LinkOf, Event, Link
  <2>3. user' \in BOOLEAN
    BY <1>5 DEF Commit
  <2>4. hold' \in BOOLEAN
    BY <1>5 DEF Commit, TypeOK
  <2>5. QED
    BY <1>5, <2>1, <2>2, <2>3, <2>4 DEF Commit, TypeOK
<1>6. ASSUME NEW p \in Processes, Abort(p) \/ BreakDeadlock(p)
      PROVE  TypeOK'
  <2>1. tx' \in [Processes -> Tx]
    BY <1>6, TxType DEF Abort, BreakDeadlock
  <2>2. aborts' \in 0..MaxAborts
    BY <1>6, LimitAssumption DEF Abort, BreakDeadlock, TypeOK
  <2>3. QED
    BY <1>6, <2>1, <2>2 DEF Abort, BreakDeadlock, TypeOK
<1>7. ASSUME NEW p \in Processes, Erase(p) \/ Purge(p)
      PROVE  TypeOK'
  <2>1. tx' \in [Processes -> Tx]
    BY <1>7, TxType DEF Erase, Purge
  <2>2. NoEvent \in Link /\ tx[p].through \in Link
    BY LimitAssumption DEF NoEvent, Link, Hashes, TypeOK, Tx
  <2>3. CASE Erase(p)
    BY <2>1, <2>2, <2>3 DEF Erase, TypeOK
  <2>4. CASE Purge(p)
    BY <2>1, <2>2, <2>4 DEF Purge, TypeOK
  <2>5. QED
    BY <1>7, <2>3, <2>4
<1>8. CASE Tick
  BY <1>8, LimitAssumption DEF Tick, TypeOK
<1>9. CASE UNCHANGED vars
  BY <1>9 DEF vars, TypeOK
<1>10. QED
  BY <1>1, <1>2, <1>3, <1>4, <1>5, <1>6, <1>7, <1>8, <1>9 DEF Next, Proceed

-----------------------------------------------------------------------------
(***************************************************************************)
(* Steps that leave the log and the hold alone                             *)
(***************************************************************************)

OnlyTx(p) ==
  /\ UNCHANGED <<events, anchor, last, sequence, hold, user, today>>
  /\ \A q \in Processes \ {p} : tx'[q] = tx[q]

InPlace(p) ==
  /\ At(p, "chain") \/ Appending(p) => p \in Writers
  /\ At(p, "user") => p \in Admins \cup UserErasers
  /\ At(p, "advisory") => p \in UserErasers \cup Holders \cup Erasers
  /\ tx[p].pc \in {"events table", "chain table", "erase"} => p \in Erasers
  /\ tx[p].pc \in {"boundary", "purge"} => p \in Purgers

\* What a transaction may become: it takes a lock only when nobody has it, and
\* a boundary only when there is one.
Orderly(p) ==
  /\ InPlace(p)'
  /\ HoldsAdvisory(p)' =>
       \/ HoldsAdvisory(p)
       \/ (\A q \in Processes : ~HoldsAdvisory(q)) /\ (p \in Holders \/ ~hold)
  /\ Appending(p)' =>
       \/ /\ Appending(p)
          /\ tx'[p].prev = tx[p].prev /\ tx'[p].seq = tx[p].seq
          /\ tx'[p].pc \in {"insert", "commit"} => tx[p].pc \in {"insert", "commit"}
       \/ /\ tx'[p].pc = "sequence" /\ tx'[p].prev = last.hash
          /\ \A q \in Processes \ {p} : ~HoldsChain(q) /\ ~HoldsChainTable(q)
  /\ HoldsChainTable(p)' => \A q \in Processes \ {p} : ~HoldsChain(q)
  /\ tx'[p].day <= today
  /\ tx'[p].pc = "purge" =>
       /\ \E e \in events : tx'[p].through = LinkOf(e)
       /\ \A e \in events : e.seq <= tx'[p].through.seq => ~Recent(e, tx'[p].day)

LogParts == Roles /\ OneAdvisory /\ OneWriter /\ Numbered /\ PurgeSound

\* A step that changes one transaction in an orderly way, and nothing else the
\* log depends on, keeps every part.
LEMMA OrderlyStep ==
  ASSUME TypeOK, LogParts, TypeOK', NEW p \in Processes, OnlyTx(p), Orderly(p)
  PROVE  LogParts'
<1>1. Roles'
  BY DEF LogParts, Roles, OnlyTx, Orderly, InPlace, At, Appending
<1>2. OneAdvisory'
  BY DEF LogParts, OneAdvisory, OnlyTx, Orderly, HoldsAdvisory, At
<1>3. OneWriter'
  BY DEF LogParts, OneWriter, OnlyTx, Orderly, HoldsChain, HoldsChainTable, Appending, At
<1>4. Numbered'
  BY DEF LogParts, Numbered, OnlyTx
<1>5. PurgeSound'
  BY DEF LogParts, PurgeSound, OnlyTx, Orderly, At, Recent, LinkOf
<1>6. QED
  BY <1>1, <1>2, <1>3, <1>4, <1>5 DEF LogParts

\* A transaction ends without a trace, wherever it was.
LEMMA EndStep ==
  ASSUME TypeOK, NEW p \in Processes, End(p),
         UNCHANGED <<events, anchor, last, sequence, hold, user, today>>
  PROVE  OnlyTx(p) /\ Orderly(p)
<1>1. tx'[p] = IdleTx /\ \A q \in Processes \ {p} : tx'[q] = tx[q]
  BY DEF End, TypeOK
<1>2. tx'[p].pc = "idle" /\ tx'[p].day = 0
  BY <1>1 DEF IdleTx
<1>3. 0 <= today
  BY LimitAssumption DEF TypeOK
<1>4. QED
  BY <1>1, <1>2, <1>3 DEF OnlyTx, Orderly, InPlace, At, Appending, HoldsAdvisory, HoldsChainTable

\* A transaction runs its next statement and keeps what it has read.
LEMMA GotoStep ==
  ASSUME TypeOK, NEW p \in Processes, NEW pc \in Place, Goto(p, pc)
  PROVE  /\ tx'[p].pc = pc /\ tx'[p].prev = tx[p].prev /\ tx'[p].seq = tx[p].seq
         /\ tx'[p].day = tx[p].day
         /\ \A q \in Processes \ {p} : tx'[q] = tx[q]
  BY DEF Goto, TypeOK, Tx

\* A transaction begins without any lock.
LEMMA BeginStep ==
  ASSUME TypeOK, NEW p \in Processes, NEW about \in BOOLEAN,
         \/ Record(p, about) \/ Whitelist(p) \/ ChangeHold(p) \/ EraseUser(p)
         \/ EraseClient(p)
  PROVE  OnlyTx(p) /\ Orderly(p)
<1>1. PICK pc \in {"chain", "user", "advisory"}, a \in BOOLEAN :
        /\ Begin(p, pc, a)
        /\ pc = "chain" => p \in Recorders
        /\ pc = "user" => p \in Admins
        /\ pc = "advisory" => p \in UserErasers \cup Holders \cup Erasers
  BY DEF Record, Whitelist, ChangeHold, EraseUser, EraseClient
<1>2. tx' = [tx EXCEPT ![p] = [IdleTx EXCEPT !.pc = pc, !.hash = begun + 1, !.about = a]]
  BY <1>1 DEF Begin
<1>3. tx'[p].pc = pc /\ tx'[p].day = 0 /\ \A q \in Processes \ {p} : tx'[q] = tx[q]
  BY <1>2 DEF IdleTx, TypeOK
<1>4. UNCHANGED <<events, anchor, last, sequence, hold, user, today>>
  BY <1>1 DEF Begin, log, service
<1>5. 0 <= today
  BY LimitAssumption DEF TypeOK
<1>6. HoldsAdvisory(p)' = FALSE
  BY <1>1, <1>3, ProcessAssumption DEF HoldsAdvisory, At
<1>7. QED
  BY <1>1, <1>3, <1>4, <1>5, <1>6
  DEF OnlyTx, Orderly, InPlace, At, Appending, HoldsChainTable, Writers

\* The statements that take a lock, look for the user or insert take nothing
\* another transaction holds.
LEMMA StatementStep ==
  ASSUME TypeOK, LogParts, NEW p \in Processes,
         \/ LockAdvisory(p) \/ LockUser(p) \/ InsertEvent(p)
         \/ LockEventsTable(p) \/ LockChainTable(p)
  PROVE  OnlyTx(p) /\ Orderly(p)
<1>1. UNCHANGED <<events, anchor, last, sequence, hold, user, today>>
  BY DEF LockAdvisory, LockUser, InsertEvent, LockEventsTable, LockChainTable, log, service
<1>2. CASE End(p)
  BY <1>1, <1>2, EndStep
<1>3. CASE ~End(p)
  <2>1. PICK pc \in Place :
          /\ Goto(p, pc)
          /\ \/ /\ At(p, "advisory") /\ pc = "chain" /\ p \in Holders
                /\ \A q \in Processes \ {p} : ~HoldsAdvisory(q)
             \/ /\ At(p, "advisory") /\ pc = "user" /\ p \in UserErasers /\ ~hold
                /\ \A q \in Processes \ {p} : ~HoldsAdvisory(q)
             \/ /\ At(p, "advisory") /\ pc = "events table" /\ p \in Erasers /\ ~hold
                /\ \A q \in Processes \ {p} : ~HoldsAdvisory(q)
             \/ At(p, "user") /\ pc = "chain"
             \/ At(p, "insert") /\ pc = "commit"
             \/ At(p, "events table") /\ pc = "chain table"
             \/ /\ At(p, "chain table") /\ pc = "erase"
                /\ \A q \in Processes \ {p} : ~HoldsChain(q)
    <3>1. CASE LockAdvisory(p)
      <4>1. \A q \in Processes \ {p} : ~HoldsAdvisory(q)
        BY <3>1 DEF LockAdvisory, Free, Blockers
      <4>2. \/ p \in Holders /\ Goto(p, "chain")
            \/ p \in UserErasers /\ ~hold /\ Goto(p, "user")
            \/ p \in Erasers /\ ~hold /\ Goto(p, "events table")
        BY <1>3, <3>1 DEF LockAdvisory
      <4>3. QED
        BY <3>1, <4>1, <4>2 DEF LockAdvisory, Place
    <3>2. CASE LockUser(p)
      BY <1>3, <3>2 DEF LockUser, Place
    <3>3. CASE InsertEvent(p)
      BY <1>3, <3>3 DEF InsertEvent, Place
    <3>4. CASE LockEventsTable(p)
      BY <3>4 DEF LockEventsTable, Place
    <3>5. CASE LockChainTable(p)
      <4>1. \A q \in Processes \ {p} : ~HoldsChain(q)
        BY <3>5 DEF LockChainTable, Free, Blockers
      <4>2. QED
        BY <3>5, <4>1 DEF LockChainTable, Place
    <3>6. QED
      BY <3>1, <3>2, <3>3, <3>4, <3>5
  <2>2. /\ tx'[p].pc = pc /\ tx'[p].prev = tx[p].prev /\ tx'[p].seq = tx[p].seq
        /\ tx'[p].day = tx[p].day
        /\ \A q \in Processes \ {p} : tx'[q] = tx[q]
    BY <2>1, GotoStep
  <2>3. InPlace(p)'
    <3>1. InPlace(p)
      BY DEF LogParts, Roles, InPlace
    <3>2. At(p, "user") => p \in Writers
      BY <3>1 DEF InPlace, Writers
    <3>3. pc = "chain" \/ pc = "commit" => p \in Writers
      BY <2>1, <3>1, <3>2 DEF InPlace, Appending, At, Writers
    <3>4. pc \in {"events table", "chain table", "erase"} => p \in Erasers
      BY <2>1, <3>1 DEF InPlace, At
    <3>5. QED
      BY <2>1, <2>2, <3>3, <3>4 DEF InPlace, At, Appending
  <2>4. HoldsAdvisory(p)' =>
          \/ HoldsAdvisory(p)
          \/ (\A q \in Processes : ~HoldsAdvisory(q)) /\ (p \in Holders \/ ~hold)
    BY <2>1, <2>2 DEF HoldsAdvisory, At
  <2>5. tx'[p].day <= today
    <3>1. ~At(p, "idle")
      BY <2>1 DEF At
    <3>2. QED
      BY <2>2, <3>1 DEF LogParts, PurgeSound
  <2>6. QED
    BY <1>1, <2>1, <2>2, <2>3, <2>4, <2>5
    DEF OnlyTx, Orderly, At, Appending, HoldsChain, HoldsChainTable
<1>4. QED
  BY <1>2, <1>3

\* The row lock on the chain state leaves one transaction with the present tail.
LEMMA LockChainStep ==
  ASSUME TypeOK, LogParts, NEW p \in Processes, LockChain(p)
  PROVE  OnlyTx(p) /\ Orderly(p)
<1>1. UNCHANGED <<events, anchor, last, sequence, hold, user, today>>
  BY DEF LockChain, log, service
<1>2. tx' = [tx EXCEPT ![p] = [tx[p] EXCEPT !.pc = "sequence", !.prev = last.hash]]
  BY DEF LockChain, TypeOK
<1>3. /\ tx'[p].pc = "sequence" /\ tx'[p].prev = last.hash /\ tx'[p].day = tx[p].day
      /\ \A q \in Processes \ {p} : tx'[q] = tx[q]
  BY <1>2 DEF TypeOK, Tx
<1>4. \A q \in Processes \ {p} : ~HoldsChain(q) /\ ~HoldsChainTable(q)
  BY DEF LockChain, Free, Blockers
<1>5. At(p, "chain") /\ p \in Writers /\ tx[p].day <= today
  BY DEF LockChain, LogParts, Roles, PurgeSound, At
<1>6. QED
  BY <1>1, <1>3, <1>4, <1>5
  DEF OnlyTx, Orderly, InPlace, At, Appending, HoldsAdvisory, HoldsChainTable

\* The job starts when nobody has the advisory lock and there is no hold.
LEMMA BeginPurgeStep ==
  ASSUME TypeOK, NEW p \in Processes, BeginPurge(p)
  PROVE  OnlyTx(p) /\ Orderly(p)
<1>1. UNCHANGED <<events, anchor, last, sequence, hold, user, today>>
  BY DEF BeginPurge, log, service
<1>2. /\ tx'[p].pc = "boundary" /\ tx'[p].day = today
      /\ \A q \in Processes \ {p} : tx'[q] = tx[q]
  BY DEF BeginPurge, TypeOK, IdleTx
<1>3. today <= today
  BY LimitAssumption DEF TypeOK
<1>4. QED
  BY <1>1, <1>2, <1>3
  DEF OnlyTx, Orderly, InPlace, At, Appending, HoldsAdvisory, HoldsChainTable, BeginPurge

\* The boundary is a committed event, and nothing up to it is recent.
LEMMA FindBoundaryStep ==
  ASSUME TypeOK, LogParts, NEW p \in Processes, FindBoundary(p)
  PROVE  OnlyTx(p) /\ Orderly(p)
<1>1. UNCHANGED <<events, anchor, last, sequence, hold, user, today>>
  BY DEF FindBoundary, log, service
<1>2. CASE End(p)
  BY <1>1, <1>2, EndStep
<1>3. CASE ~End(p)
  <2>1. PICK e \in ExpiredPrefix(tx[p].day) :
          tx' = [tx EXCEPT ![p].pc = "purge", ![p].through = LinkOf(e)]
    BY <1>3 DEF FindBoundary
  <2>2. tx' = [tx EXCEPT ![p] = [tx[p] EXCEPT !.pc = "purge", !.through = LinkOf(e)]]
    BY <2>1 DEF TypeOK
  <2>3. /\ tx'[p].pc = "purge" /\ tx'[p].through = LinkOf(e) /\ tx'[p].day = tx[p].day
        /\ \A q \in Processes \ {p} : tx'[q] = tx[q]
    BY <2>2 DEF TypeOK, Tx
  <2>4. e \in events
    BY DEF ExpiredPrefix
  <2>5. \A f \in events : f.seq <= e.seq => ~Recent(f, tx[p].day)
    <3>1. \A f \in events : f.seq \in Nat
      BY DEF TypeOK, Event
    <3>2. \A f \in events : Recent(f, tx[p].day) => e.seq < f.seq
      BY DEF ExpiredPrefix
    <3>3. QED
      BY <2>4, <3>1, <3>2
  <2>6. At(p, "boundary") /\ p \in Purgers /\ tx[p].day <= today
    BY DEF FindBoundary, LogParts, Roles, PurgeSound, At
  <2>7. LinkOf(e).seq = e.seq
    BY DEF LinkOf
  <2>8. QED
    BY <1>1, <2>3, <2>4, <2>5, <2>6, <2>7
    DEF OnlyTx, Orderly, InPlace, At, Appending, HoldsAdvisory, HoldsChainTable
<1>4. QED
  BY <1>2, <1>3

-----------------------------------------------------------------------------
(***************************************************************************)
(* The steps that change the log or the clock                              *)
(***************************************************************************)

\* nextval moves the sequence past every event and every reserved number.
LEMMA ReserveSequenceStep ==
  ASSUME TypeOK, LogParts, NEW p \in Processes, ReserveSequence(p)
  PROVE  LogParts'
<1>1. UNCHANGED <<events, anchor, last, hold, today>> /\ sequence' = sequence + 1
  BY DEF ReserveSequence, service
<1>2. tx' = [tx EXCEPT ![p] = [tx[p] EXCEPT !.pc = "insert", !.seq = sequence + 1, !.day = today]]
  BY DEF ReserveSequence, TypeOK
<1>3. /\ tx'[p].pc = "insert" /\ tx'[p].prev = tx[p].prev /\ tx'[p].seq = sequence + 1
      /\ tx'[p].day = today
      /\ \A q \in Processes \ {p} : tx'[q] = tx[q]
  BY <1>2 DEF TypeOK, Tx
<1>4. tx[p].pc = "sequence"
  BY DEF ReserveSequence, At
<1>5. sequence \in Nat /\ last.seq \in Nat /\ today \in Nat /\ \A q \in Processes : tx[q].seq \in Nat
  BY LimitAssumption DEF TypeOK, Link, Tx
<1>6. Roles'
  BY <1>3, <1>4 DEF LogParts, Roles, At, Appending
<1>7. OneAdvisory'
  BY <1>1, <1>3, <1>4 DEF LogParts, OneAdvisory, HoldsAdvisory, At
<1>8. OneWriter'
  <2>1. last.seq <= sequence
    BY DEF LogParts, Numbered
  <2>2. ASSUME NEW q \in Processes, Appending(q)'
        PROVE  /\ tx'[q].prev = last'.hash
               /\ \A r \in Processes : HoldsChain(r)' \/ HoldsChainTable(r)' => r = q
    BY <1>1, <1>3, <1>4, <2>2
    DEF LogParts, OneWriter, Appending, HoldsChain, HoldsChainTable, At
  <2>3. ASSUME NEW q \in Processes, tx'[q].pc \in {"insert", "commit"}
        PROVE  last'.seq < tx'[q].seq /\ tx'[q].seq <= sequence'
    <3>1. CASE q = p
      BY <1>1, <1>3, <1>5, <2>1, <3>1
    <3>2. CASE q # p
      BY <1>1, <1>3, <1>5, <2>3, <3>2 DEF LogParts, OneWriter, Appending
    <3>3. QED
      BY <3>1, <3>2
  <2>4. QED
    BY <2>2, <2>3 DEF OneWriter
<1>9. Numbered'
  BY <1>1, <1>5 DEF LogParts, Numbered
<1>10. PurgeSound'
  BY <1>1, <1>3, <1>5 DEF LogParts, PurgeSound, At, Recent, LinkOf
<1>11. QED
  BY <1>6, <1>7, <1>8, <1>9, <1>10 DEF LogParts

\* An event that commits comes after all the others, and after what a purge in
\* progress removes.
LEMMA CommitStep ==
  ASSUME TypeOK, LogParts, NEW p \in Processes, Commit(p)
  PROVE  LogParts'
<1> DEFINE new == NewEvent(tx[p])
<1>1. /\ events' = events \cup {new} /\ last' = LinkOf(tx[p])
      /\ UNCHANGED <<anchor, sequence, today>>
  BY DEF Commit
<1>2. tx'[p] = IdleTx /\ \A q \in Processes \ {p} : tx'[q] = tx[q]
  BY DEF Commit, End, TypeOK
<1>3. tx'[p].pc = "idle"
  BY <1>2 DEF IdleTx
<1>4. Appending(p) /\ tx[p].pc = "commit" /\ p \in Writers
  BY DEF Commit, At, Appending, LogParts, Roles
<1>5. last.seq < tx[p].seq /\ tx[p].seq <= sequence
  BY <1>4 DEF LogParts, OneWriter
<1>6. \A q \in Processes \ {p} : ~Appending(q) /\ ~HoldsChainTable(q)
  BY <1>4 DEF LogParts, OneWriter, HoldsChain
<1>7. new.seq = tx[p].seq /\ last'.seq = tx[p].seq
  BY <1>1 DEF NewEvent, LinkOf
<1>8. /\ sequence \in Nat /\ last.seq \in Nat /\ anchor.seq \in Nat /\ tx[p].seq \in Nat
      /\ \A e \in events : e.seq \in Nat
  BY DEF TypeOK, Link, Tx, Event
<1>9. Roles'
  BY <1>2, <1>3 DEF LogParts, Roles, At, Appending
<1>10. OneAdvisory'
  <2>1. CASE p \in Holders
    <3>1. HoldsAdvisory(p)
      BY <1>4, <2>1 DEF HoldsAdvisory
    <3>2. \A q \in Processes : ~HoldsAdvisory(q)'
      BY <1>2, <1>3, <3>1 DEF LogParts, OneAdvisory, HoldsAdvisory
    <3>3. QED
      BY <3>2 DEF OneAdvisory
  <2>2. CASE p \notin Holders
    <3>1. hold' = hold
      BY <2>2 DEF Commit
    <3>2. QED
      BY <1>2, <1>3, <3>1 DEF LogParts, OneAdvisory, HoldsAdvisory
  <2>3. QED
    BY <2>1, <2>2
<1>11. OneWriter'
  BY <1>2, <1>3, <1>6 DEF OneWriter, Appending
<1>12. Numbered'
  <2>1. anchor'.seq <= last'.seq /\ last'.seq <= sequence'
    BY <1>1, <1>5, <1>7, <1>8 DEF LogParts, Numbered
  <2>2. \A e \in events : anchor.seq < e.seq /\ e.seq <= last.seq
    BY DEF LogParts, Numbered
  <2>3. anchor.seq < new.seq
    BY <1>5, <1>7, <1>8 DEF LogParts, Numbered
  <2>4. \A e \in events' : anchor'.seq < e.seq /\ e.seq <= last'.seq
    BY <1>1, <1>5, <1>7, <1>8, <2>2, <2>3
  <2>5. \A e \in events : e.seq < new.seq
    BY <1>5, <1>7, <1>8, <2>2
  <2>6. \A e, f \in events : e.seq = f.seq => e = f
    BY DEF LogParts, Numbered
  <2>7. \A e, f \in events' : e.seq = f.seq => e = f
    BY <1>1, <1>7, <1>8, <2>5, <2>6
  <2>8. QED
    BY <2>1, <2>4, <2>7 DEF Numbered
<1>13. PurgeSound'
  <2>1. ASSUME NEW q \in Processes, q # p, tx[q].pc = "purge"
        PROVE  \A e \in events' : e.seq <= tx[q].through.seq => ~Recent(e, tx[q].day)
    <3>1. PICK f \in events : tx[q].through = LinkOf(f)
      BY <2>1 DEF LogParts, PurgeSound, At
    <3>2. tx[q].through.seq = f.seq /\ f.seq <= last.seq
      BY <3>1 DEF LinkOf, LogParts, Numbered
    <3>3. ~(new.seq <= tx[q].through.seq)
      BY <1>5, <1>7, <1>8, <3>2
    <3>4. \A e \in events : e.seq <= tx[q].through.seq => ~Recent(e, tx[q].day)
      BY <2>1 DEF LogParts, PurgeSound, At
    <3>5. QED
      BY <1>1, <3>3, <3>4
  <2>2. \A q \in Processes : q # p /\ tx[q].pc # "idle" => tx[q].day <= today
    BY DEF LogParts, PurgeSound, At
  <2>3. \A q \in Processes : q # p /\ tx[q].pc = "purge" =>
          \E e \in events : tx[q].through = LinkOf(e)
    BY DEF LogParts, PurgeSound, At
  <2>4. QED
    BY <1>1, <1>2, <1>3, <2>1, <2>2, <2>3 DEF PurgeSound, At, Recent, LinkOf
<1>14. QED
  BY <1>9, <1>10, <1>11, <1>12, <1>13 DEF LogParts

\* An erasure holds the tables alone, so no transaction is left with a link of
\* the chain it removes.
LEMMA EraseStep ==
  ASSUME TypeOK, LogParts, NEW p \in Processes, Erase(p)
  PROVE  LogParts'
<1>1. /\ events' = {} /\ anchor' = NoEvent /\ last' = NoEvent /\ sequence' = 0
      /\ hold' = FALSE /\ today' = today
  BY DEF Erase
<1>2. tx'[p] = IdleTx /\ \A q \in Processes \ {p} : tx'[q] = tx[q]
  BY DEF Erase, End, TypeOK
<1>3. tx'[p].pc = "idle"
  BY <1>2 DEF IdleTx
<1>4. tx[p].pc = "erase" /\ HoldsChainTable(p) /\ HoldsAdvisory(p)
  BY DEF Erase, At, HoldsChainTable, HoldsAdvisory, LogParts, Roles
<1>5. \A q \in Processes : ~Appending(q)
  BY <1>4 DEF LogParts, OneWriter, Appending
<1>6. \A q \in Processes \ {p} : tx[q].pc # "purge"
  BY <1>4 DEF LogParts, OneAdvisory, Roles, HoldsAdvisory
<1>7. Roles'
  BY <1>2, <1>3 DEF LogParts, Roles, At, Appending
<1>8. OneAdvisory'
  BY <1>1, <1>2, <1>3 DEF LogParts, OneAdvisory, HoldsAdvisory, At
<1>9. OneWriter'
  BY <1>2, <1>3, <1>5 DEF OneWriter, Appending
<1>10. Numbered'
  BY <1>1 DEF Numbered, NoEvent
<1>11. PurgeSound'
  BY <1>1, <1>2, <1>3, <1>6 DEF LogParts, PurgeSound, At
<1>12. QED
  BY <1>7, <1>8, <1>9, <1>10, <1>11 DEF LogParts

\* A purge moves the anchor to an event of the chain and keeps what follows it.
LEMMA PurgeStep ==
  ASSUME TypeOK, LogParts, NEW p \in Processes, Purge(p)
  PROVE  LogParts'
<1>1. /\ events' = {e \in events : e.seq > tx[p].through.seq} /\ anchor' = tx[p].through
      /\ UNCHANGED <<last, sequence, hold, today>>
  BY DEF Purge, service
<1>2. tx'[p] = IdleTx /\ \A q \in Processes \ {p} : tx'[q] = tx[q]
  BY DEF Purge, End, TypeOK
<1>3. tx'[p].pc = "idle"
  BY <1>2 DEF IdleTx
<1>4. tx[p].pc = "purge" /\ HoldsAdvisory(p)
  BY DEF Purge, At, HoldsAdvisory, LogParts, Roles
<1>5. \A q \in Processes \ {p} : tx[q].pc # "purge"
  BY <1>4 DEF LogParts, OneAdvisory, Roles, HoldsAdvisory
<1>6. PICK b \in events : tx[p].through = LinkOf(b)
  BY <1>4 DEF LogParts, PurgeSound, At
<1>7. tx[p].through.seq = b.seq /\ b.seq <= last.seq
  BY <1>6 DEF LinkOf, LogParts, Numbered
<1>8. Roles'
  BY <1>2, <1>3 DEF LogParts, Roles, At, Appending
<1>9. OneAdvisory'
  BY <1>1, <1>2, <1>3 DEF LogParts, OneAdvisory, HoldsAdvisory, At
<1>10. OneWriter'
  BY <1>1, <1>2, <1>3 DEF LogParts, OneWriter, Appending, HoldsChain, HoldsChainTable, At
<1>11. Numbered'
  <2>1. \A e \in events : anchor.seq < e.seq /\ e.seq <= last.seq
    BY DEF LogParts, Numbered
  <2>2. \A e \in events' : e \in events /\ anchor'.seq < e.seq
    BY <1>1, <1>7 DEF TypeOK, Event
  <2>3. \A e, f \in events' : e.seq = f.seq => e = f
    BY <2>2 DEF LogParts, Numbered
  <2>4. anchor'.seq <= last'.seq /\ last'.seq <= sequence'
    BY <1>1, <1>7 DEF LogParts, Numbered
  <2>5. QED
    BY <1>1, <2>1, <2>2, <2>3, <2>4 DEF Numbered
<1>12. PurgeSound'
  BY <1>1, <1>2, <1>3, <1>5 DEF LogParts, PurgeSound, At
<1>13. QED
  BY <1>8, <1>9, <1>10, <1>11, <1>12 DEF LogParts

\* The day changes under transactions that keep the day they have read.
LEMMA TickStep ==
  ASSUME TypeOK, LogParts, Tick
  PROVE  LogParts'
<1>1. UNCHANGED <<events, anchor, last, sequence, hold, tx>> /\ today' = today + 1
  BY DEF Tick, log, service
<1>2. PurgeSound'
  <2>1. \A p \in Processes : tx[p].day \in Nat /\ today \in Nat
    BY LimitAssumption DEF TypeOK, Tx
  <2>2. QED
    BY <1>1, <2>1 DEF LogParts, PurgeSound, At, Recent, LinkOf
<1>3. QED
  BY <1>1, <1>2
  DEF LogParts, Roles, OneAdvisory, OneWriter, Numbered, At, Appending, HoldsAdvisory,
      HoldsChain, HoldsChainTable

\* A step that is none of the four above changes one transaction only.
LEMMA QuietStep ==
  ASSUME TypeOK, LogParts, Next
  PROVE  \/ \E p \in Processes : OnlyTx(p) /\ Orderly(p)
         \/ \E p \in Processes : ReserveSequence(p) \/ Commit(p) \/ Erase(p) \/ Purge(p)
         \/ Tick
<1>1. ASSUME NEW p \in Processes, Abort(p) \/ BreakDeadlock(p)
      PROVE  OnlyTx(p) /\ Orderly(p)
  BY <1>1, EndStep DEF Abort, BreakDeadlock, log, service
<1>2. QED
  BY <1>1, BeginStep, StatementStep, LockChainStep, BeginPurgeStep, FindBoundaryStep
  DEF Next, Proceed

\* The parts of LogInv that ChainIntact rests on hold after every step.
LEMMA PartsStep ==
  ASSUME TypeOK, LogParts, [Next]_vars
  PROVE  LogParts'
<1>1. TypeOK'
  BY TypeStep
<1>2. CASE Next
  BY <1>1, <1>2, QuietStep, OrderlyStep, ReserveSequenceStep, CommitStep, EraseStep, PurgeStep,
     TickStep
<1>3. CASE UNCHANGED vars
  BY <1>3
  DEF vars, LogParts, Roles, OneAdvisory, OneWriter, Numbered, PurgeSound, At, Appending,
      HoldsAdvisory, HoldsChain, HoldsChainTable, Recent, LinkOf
<1>4. QED
  BY <1>2, <1>3

-----------------------------------------------------------------------------
(***************************************************************************)
(* The chain                                                               *)
(***************************************************************************)

\* No committed event lies at or below the anchor, so the chain is all of them.
LEMMA WholeLog ==
  ASSUME Numbered
  PROVE  {e \in events : e.seq > anchor.seq} = events
  BY DEF Numbered

\* An event appended by the one writer follows the tail it has read.
LEMMA CommitChain ==
  ASSUME TypeOK, LogParts, NEW p \in Processes, Commit(p), Verifies(anchor, events, last)
  PROVE  Verifies(anchor, events', last')
<1> DEFINE new == NewEvent(tx[p])
<1>1. events' = events \cup {new} /\ last' = LinkOf(tx[p])
  BY DEF Commit
<1>2. /\ new.seq = tx[p].seq /\ new.prev = tx[p].prev /\ LinkOf(new) = last'
  BY <1>1 DEF NewEvent, LinkOf
<1>3. tx[p].prev = last.hash /\ last.seq < tx[p].seq
  BY DEF LogParts, OneWriter, Commit, Appending, At
<1>4. /\ last.seq \in Nat /\ tx[p].seq \in Nat
      /\ \A e \in events : e.seq \in Nat /\ e.seq <= last.seq
  BY DEF TypeOK, Link, Tx, Event, LogParts, Numbered
<1>5. \A e \in events : e.seq < new.seq
  BY <1>2, <1>3, <1>4
<1>6. ASSUME NEW e \in events
      PROVE  Linked(anchor, events', e)
  <2>1. Linked(anchor, events, e)
    BY DEF Verifies
  <2>2. e.seq \in Nat /\ new.seq \in Nat /\ e.seq < new.seq
    BY <1>2, <1>4, <1>5
  <2>3. CASE e.prev = anchor.hash /\ \A f \in events : e.seq <= f.seq
    <3>1. \A f \in events' : e.seq <= f.seq
      BY <1>1, <2>2, <2>3
    <3>2. QED
      BY <2>3, <3>1 DEF Linked
  <2>4. CASE \E f \in events :
               /\ f.seq < e.seq /\ f.hash = e.prev
               /\ \A g \in events : g.seq <= f.seq \/ e.seq <= g.seq
    <3>1. PICK f \in events :
            /\ f.seq < e.seq /\ f.hash = e.prev
            /\ \A g \in events : g.seq <= f.seq \/ e.seq <= g.seq
      BY <2>4
    <3>2. \A g \in events' : g.seq <= f.seq \/ e.seq <= g.seq
      BY <1>1, <2>2, <3>1
    <3>3. f \in events'
      BY <1>1
    <3>4. QED
      BY <3>1, <3>2, <3>3 DEF Linked
  <2>5. QED
    BY <2>1, <2>3, <2>4 DEF Linked
<1>7. Linked(anchor, events', new)
  <2>1. CASE events = {}
    <3>1. new.prev = anchor.hash
      BY <1>2, <1>3, <2>1 DEF Verifies, IsTail
    <3>2. \A f \in events' : new.seq <= f.seq
      BY <1>1, <1>2, <1>4, <2>1
    <3>3. QED
      BY <3>1, <3>2 DEF Linked
  <2>2. CASE events # {}
    <3>1. PICK f \in events : last = LinkOf(f) /\ \A g \in events : g.seq <= f.seq
      BY <2>2 DEF Verifies, IsTail
    <3>2. f.hash = new.prev /\ f.seq < new.seq
      BY <1>2, <1>3, <1>5, <3>1 DEF LinkOf
    <3>3. \A g \in events' : g.seq <= f.seq \/ new.seq <= g.seq
      BY <1>1, <1>2, <1>4, <3>1
    <3>4. f \in events'
      BY <1>1
    <3>5. QED
      BY <3>2, <3>3, <3>4 DEF Linked
  <2>3. QED
    BY <2>1, <2>2
<1>8. IsTail(anchor, events', last')
  <2>1. new \in events'
    BY <1>1
  <2>2. \A f \in events' : f.seq <= new.seq
    BY <1>1, <1>2, <1>4, <1>5
  <2>3. QED
    BY <1>2, <2>1, <2>2 DEF IsTail
<1>9. QED
  BY <1>1, <1>6, <1>7, <1>8 DEF Verifies

\* What a purge keeps follows the event it anchors.
LEMMA PurgeChain ==
  ASSUME TypeOK, LogParts, NEW p \in Processes, Purge(p), Verifies(anchor, events, last)
  PROVE  Verifies(anchor', events', last')
<1>1. /\ events' = {e \in events : e.seq > tx[p].through.seq} /\ anchor' = tx[p].through
      /\ last' = last
  BY DEF Purge
<1>2. PICK b \in events : tx[p].through = LinkOf(b)
  BY DEF Purge, LogParts, PurgeSound
<1>3. anchor'.seq = b.seq /\ anchor'.hash = b.hash
  BY <1>1, <1>2 DEF LinkOf
<1>4. events' = {e \in events : e.seq > b.seq}
  BY <1>1, <1>3
<1>5. \A e \in events : e.seq \in Nat
  BY DEF TypeOK, Event
<1>6. \A e, f \in events : e.seq = f.seq => e = f
  BY DEF LogParts, Numbered
<1>7. ASSUME NEW e \in events'
      PROVE  Linked(anchor', events', e)
  <2>1. Linked(anchor, events, e) /\ e \in events /\ b.seq < e.seq
    BY <1>4, <1>5 DEF Verifies
  <2>2. PICK f \in events :
          /\ f.seq < e.seq /\ f.hash = e.prev
          /\ \A g \in events : g.seq <= f.seq \/ e.seq <= g.seq
    BY <1>5, <2>1 DEF Linked
  <2>3. b.seq <= f.seq
    BY <1>5, <2>1, <2>2
  <2>4. CASE f = b
    <3>1. \A g \in events' : e.seq <= g.seq
      BY <1>4, <1>5, <2>2, <2>4
    <3>2. QED
      BY <1>3, <2>2, <2>4, <3>1 DEF Linked
  <2>5. CASE f # b
    <3>1. f \in events'
      BY <1>4, <1>5, <1>6, <2>3, <2>5
    <3>2. QED
      BY <1>4, <2>2, <3>1 DEF Linked
  <2>6. QED
    BY <2>4, <2>5
<1>8. IsTail(anchor', events', last')
  <2>1. PICK t \in events : last = LinkOf(t) /\ \A f \in events : f.seq <= t.seq
    BY DEF Verifies, IsTail
  <2>2. CASE t = b
    <3>1. events' = {}
      BY <1>4, <1>5, <2>1, <2>2
    <3>2. QED
      BY <1>1, <1>2, <2>1, <2>2, <3>1 DEF IsTail
  <2>3. CASE t # b
    <3>1. t \in events'
      BY <1>4, <1>5, <1>6, <2>1, <2>3
    <3>2. QED
      BY <1>1, <1>4, <2>1, <3>1 DEF IsTail
  <2>4. QED
    BY <2>2, <2>3
<1>9. QED
  BY <1>7, <1>8 DEF Verifies

\* No step breaks the chain.
LEMMA ChainStep ==
  ASSUME TypeOK, LogParts, Verifies(anchor, events, last), [Next]_vars
  PROVE  Verifies(anchor, events, last)'
<1>1. CASE UNCHANGED <<events, anchor, last>>
  BY <1>1 DEF Verifies, Linked, IsTail, LinkOf
<1>2. ASSUME NEW p \in Processes, Commit(p)
      PROVE  Verifies(anchor, events, last)'
  <2>1. anchor' = anchor
    BY <1>2 DEF Commit
  <2>2. Verifies(anchor, events', last')
    BY <1>2, CommitChain
  <2>3. QED
    BY <2>1, <2>2
<1>3. ASSUME NEW p \in Processes, Purge(p)
      PROVE  Verifies(anchor, events, last)'
  BY <1>3, PurgeChain
<1>4. ASSUME NEW p \in Processes, Erase(p)
      PROVE  Verifies(anchor, events, last)'
  BY <1>4 DEF Erase, Verifies, IsTail
<1>5. CASE Next
  <2>1. \A p \in Processes : OnlyTx(p) \/ ReserveSequence(p) => UNCHANGED <<events, anchor, last>>
    BY DEF OnlyTx, ReserveSequence
  <2>2. Tick => UNCHANGED <<events, anchor, last>>
    BY DEF Tick, log
  <2>3. QED
    BY <1>1, <1>2, <1>3, <1>4, <1>5, <2>1, <2>2, QuietStep
<1>6. CASE UNCHANGED vars
  BY <1>1, <1>6 DEF vars
<1>7. QED
  BY <1>5, <1>6

-----------------------------------------------------------------------------
(***************************************************************************)
(* Theorems                                                                *)
(***************************************************************************)

\* The service starts with an empty log.
LEMMA InitLog == Init => LogInv
<1> SUFFICES ASSUME Init PROVE LogInv
  OBVIOUS
<1>1. \A p \in Processes : tx[p] = IdleTx /\ tx[p].pc = "idle"
  BY DEF Init, IdleTx
<1>2. TypeOK
  <2>1. NoEvent \in Link
    BY LimitAssumption DEF NoEvent, Link, Hashes
  <2>2. tx \in [Processes -> Tx]
    BY IdleTxType DEF Init
  <2>3. /\ events \subseteq Event /\ sequence \in Nat /\ today \in 0..MaxDays
        /\ begun \in 0..MaxTransactions /\ aborts \in 0..MaxAborts
    BY LimitAssumption DEF Init
  <2>4. user \in BOOLEAN /\ hold \in BOOLEAN /\ decommissioned \in BOOLEAN
    BY DEF Init
  <2>5. anchor \in Link /\ last \in Link
    BY <2>1 DEF Init
  <2>6. QED
    BY <2>2, <2>3, <2>4, <2>5 DEF TypeOK
<1>3. LogParts
  <2>1. \A p \in Processes :
          /\ ~Appending(p) /\ ~HoldsAdvisory(p) /\ tx[p].pc \notin {"chain", "user", "purge"}
          /\ tx[p].pc \notin {"events table", "chain table", "erase", "boundary", "advisory"}
    BY <1>1 DEF Appending, HoldsAdvisory
  <2>2. Roles /\ OneAdvisory /\ OneWriter
    BY <2>1 DEF Roles, OneAdvisory, OneWriter, At
  <2>3. Numbered
    BY DEF Init, Numbered, NoEvent
  <2>4. PurgeSound
    BY <1>1, <2>1 DEF PurgeSound, At
  <2>5. QED
    BY <2>2, <2>3, <2>4 DEF LogParts
<1>4. ChainIntact
  BY DEF Init, ChainIntact, Verifies, IsTail
<1>5. QED
  BY <1>2, <1>3, <1>4 DEF LogInv, LogParts

\* LogInv is inductive.
LEMMA LogInvStep == LogInv /\ [Next]_vars => LogInv'
<1> SUFFICES ASSUME LogInv, [Next]_vars PROVE LogInv'
  OBVIOUS
<1>1. TypeOK /\ LogParts
  BY DEF LogInv, LogParts
<1>2. TypeOK' /\ LogParts'
  BY <1>1, TypeStep, PartsStep
<1>3. Verifies(anchor, events, last)
  BY <1>1, WholeLog DEF LogInv, LogParts, ChainIntact
<1>4. Verifies(anchor, events, last)'
  BY <1>1, <1>3, ChainStep
<1>5. ChainIntact'
  <2>1. {e \in events' : e.seq > anchor'.seq} = events'
    BY <1>2 DEF LogParts, Numbered
  <2>2. QED
    BY <1>4, <2>1 DEF ChainIntact
<1>6. QED
  BY <1>2, <1>5 DEF LogInv, LogParts

\* The type invariant, the discipline of the locks and the chain itself hold in
\* every reachable state.
THEOREM LogSafety == Spec => []LogInv
  BY InitLog, LogInvStep, PTL DEF Spec

\* verify-audit-log, run on one snapshot, accepts the log in every reachable
\* state: appends, rollbacks, purges and erasures keep one chain from the
\* retained anchor to the recorded tail.
THEOREM ChainSafety == Spec => []ChainIntact
<1>1. LogInv => ChainIntact
  BY DEF LogInv
<1>2. QED
  BY <1>1, LogSafety, PTL

\* Under a legal hold no event and no user is deleted.
THEOREM HoldSafety == Spec => HoldFreezes
<1>1. ASSUME LogInv, [Next]_vars
      PROVE  [hold => events \subseteq events' /\ (user => user')]_vars
  <2>1. TypeOK /\ LogParts
    BY <1>1 DEF LogInv, LogParts
  <2>2. ASSUME NEW p \in Processes, p \in UserErasers \/ p \in Erasers \/ p \in Purgers,
               HoldsAdvisory(p)
        PROVE  ~hold
    BY <2>1, <2>2, ProcessAssumption DEF LogParts, OneAdvisory
  <2>3. ASSUME NEW p \in Processes, Commit(p), hold
        PROVE  events \subseteq events' /\ (user => user')
    <3>1. p \notin UserErasers
      BY <2>2, <2>3 DEF Commit, HoldsAdvisory, At
    <3>2. events \subseteq events'
      BY <2>3 DEF Commit
    <3>3. user => user'
      BY <2>3, <3>1, Zenon DEF Commit
    <3>4. QED
      BY <3>2, <3>3
  <2>4. ASSUME NEW p \in Processes, Erase(p) \/ Purge(p)
        PROVE  ~hold
    <3>1. (p \in Erasers \/ p \in Purgers) /\ HoldsAdvisory(p)
      BY <2>1, <2>4 DEF Erase, Purge, HoldsAdvisory, At, LogParts, Roles
    <3>2. QED
      BY <2>2, <3>1
  <2>5. ASSUME NEW p \in Processes, OnlyTx(p) \/ ReserveSequence(p)
        PROVE  events \subseteq events' /\ (user => user')
    BY <2>5 DEF OnlyTx, ReserveSequence, service
  <2>6. CASE Tick
    BY <2>6 DEF Tick, log, service
  <2>7. CASE Next
    BY <2>1, <2>3, <2>4, <2>5, <2>6, <2>7, QuietStep
  <2>8. QED
    BY <1>1, <2>7 DEF vars
<1>2. QED
  BY <1>1, LogSafety, PTL DEF Spec, HoldFreezes

\* Retention removes expired events only, whatever day or event arrives between
\* the statements of the job.
THEOREM RetentionSafety == Spec => RecentKept
<1> DEFINE Kept == \A e \in events \ events' :
                     \/ ~Recent(e, today)
                     \/ events' = {} /\ anchor' = NoEvent /\ last' = NoEvent
<1>1. ASSUME LogInv, [Next]_vars
      PROVE  [Kept]_vars
  <2>1. TypeOK /\ LogParts
    BY <1>1 DEF LogInv, LogParts
  <2>2. ASSUME NEW p \in Processes, Purge(p)
        PROVE  Kept
    <3>1. ASSUME NEW e \in events \ events'
          PROVE  ~Recent(e, today)
      <4>1. e.seq \in Nat /\ tx[p].through.seq \in Nat
        BY <2>1 DEF TypeOK, Event, Tx, Link
      <4>2. e.seq <= tx[p].through.seq
        BY <2>2, <3>1, <4>1 DEF Purge
      <4>3. ~Recent(e, tx[p].day) /\ tx[p].day <= today
        BY <2>1, <2>2, <4>2 DEF Purge, LogParts, PurgeSound, At
      <4>4. e.day \in Nat /\ tx[p].day \in Nat /\ today \in Nat /\ AuditDays \in Nat
        BY <2>1, LimitAssumption DEF TypeOK, Event, Tx
      <4>5. QED
        BY <4>3, <4>4 DEF Recent
    <3>2. QED
      BY <3>1
  <2>3. ASSUME NEW p \in Processes, Erase(p)
        PROVE  Kept
    BY <2>3 DEF Erase
  <2>4. ASSUME NEW p \in Processes, OnlyTx(p) \/ ReserveSequence(p) \/ Commit(p)
        PROVE  Kept
    BY <2>4 DEF OnlyTx, ReserveSequence, Commit
  <2>5. CASE Tick
    BY <2>5 DEF Tick, log
  <2>6. CASE Next
    BY <2>1, <2>2, <2>3, <2>4, <2>5, <2>6, QuietStep
  <2>7. CASE UNCHANGED vars
    BY <2>7
  <2>8. QED
    BY <1>1, <2>6, <2>7
<1>2. QED
  BY <1>1, LogSafety, PTL DEF Spec, RecentKept

-----------------------------------------------------------------------------
(***************************************************************************)
(* The verifier                                                            *)
(***************************************************************************)

\* The rows behind the anchor, which the verifier's second query is for.
Beyond == {e \in events : e.seq > anchor.seq}

Check == [pc : {"idle", "events", "state", "verified", "broken"}, anchor : Link,
          rows : SUBSET Event, changed : BOOLEAN]

\* What a run has read is what is there, as long as nobody has changed the log;
\* so it ends with a verdict against the chain only if somebody has.
Watching ==
  /\ check \in Check
  /\ Running /\ ~check.changed =>
       check.anchor = anchor /\ (check.pc = "state" => check.rows = Beyond)
  /\ AlarmMeansChange

LEMMA InUseWatches ==
  ASSUME LogInv, Watching, InUse
  PROVE  Watching'
<1> DEFINE changes == Running /\ <<events, anchor, last>>' # <<events, anchor, last>>
<1>1. check \in Check /\ check' = [check EXCEPT !.changed = check.changed \/ changes]
  BY DEF InUse, Watching
<1>2. check.changed \in BOOLEAN
  BY <1>1 DEF Check
<1>3. CASE check.changed \/ changes
  <2>1. (check.changed \/ changes) = TRUE
    BY <1>3, <1>2
  <2>2. check' = [check EXCEPT !.changed = TRUE]
    BY <1>1, <2>1
  <2> HIDE DEF changes
  <2>3. check' \in Check /\ check'.changed = TRUE
    BY <1>1, <2>2 DEF Check
  <2> QED BY <2>3 DEF Watching, AlarmMeansChange
<1>4. CASE ~(check.changed \/ changes)
  <2>1. (check.changed \/ changes) = FALSE
    BY <1>4
  <2>2. check' = [check EXCEPT !.changed = FALSE]
    BY <1>1, <2>1
  <2>3. ~check.changed /\ (Running => events' = events /\ anchor' = anchor)
    BY <1>4
  <2> HIDE DEF changes
  <2>4. check' \in Check /\ check'.changed = FALSE /\ check'.pc = check.pc
        /\ check'.anchor = check.anchor /\ check'.rows = check.rows
    BY <1>1, <2>2 DEF Check
  <2>5. AlarmMeansChange'
    BY <2>3, <2>4 DEF Watching, AlarmMeansChange
  <2>6. Running => Beyond' = Beyond
    BY <2>3 DEF Beyond
  <2>7. Running' = Running
    BY <2>4 DEF Running
  <2>8. Running' /\ ~check'.changed =>
          check'.anchor = anchor' /\ (check'.pc = "state" => check'.rows = Beyond')
    BY <2>3, <2>4, <2>6, <2>7 DEF Watching
  <2> QED BY <2>4, <2>5, <2>8 DEF Watching
<1> QED BY <1>3, <1>4

\* A run over a log that is whole finds it whole.
LEMMA ReadsWatch ==
  ASSUME LogInv, Watching, ReadAnchor \/ ReadEvents \/ ReadState
  PROVE  Watching'
<1>1. check \in Check /\ events' = events /\ anchor' = anchor /\ last' = last
  BY DEF Watching, ReadAnchor, ReadEvents, ReadState, vars
<1>2. events \subseteq Event /\ anchor \in Link /\ NoEvent \in Link
  BY LimitAssumption DEF LogInv, TypeOK, Link, NoEvent, Hashes
<1>3. CASE ReadAnchor
  <2>1. NewCheck \in Check /\ NewCheck.pc = "idle" /\ NewCheck.changed = FALSE
    BY <1>2 DEF NewCheck, Check
  <2>2. check' \in Check /\ check'.pc = "events" /\ check'.anchor = anchor
    BY <1>2, <1>3, <2>1 DEF ReadAnchor, Check
  <2> QED BY <2>2, <1>1 DEF Watching, AlarmMeansChange
<1>4. CASE ReadEvents
  <2> DEFINE read == {e \in events : e.seq > check.anchor.seq}
  <2>1. read \in SUBSET Event
    BY <1>2
  <2>2. check' = [check EXCEPT !.pc = "state", !.rows = read]
    BY <1>4 DEF ReadEvents
  <2>3. check.anchor = anchor => read = Beyond
    BY DEF Beyond
  <2> HIDE DEF read
  <2>4. check' \in Check /\ check'.pc = "state" /\ check'.anchor = check.anchor
        /\ check'.rows = read /\ check'.changed = check.changed
    BY <1>1, <2>1, <2>2 DEF Check
  <2>5. Running /\ Beyond' = Beyond
    BY <1>1, <1>4 DEF ReadEvents, Running, Beyond
  <2> QED BY <2>3, <2>4, <2>5, <1>1 DEF Watching, AlarmMeansChange
<1>5. CASE ReadState
  <2>1. check.pc = "state" /\ Running
    BY <1>5 DEF ReadState, Running
  <2>2. CASE Verifies(check.anchor, check.rows, last)
    <3>1. check' = [check EXCEPT !.pc = "verified"]
      BY <1>5, <2>2 DEF ReadState
    <3>2. check' \in Check /\ check'.pc = "verified"
      BY <1>1, <3>1 DEF Check
    <3> QED BY <3>2 DEF Watching, AlarmMeansChange, Running
  <2>3. CASE ~Verifies(check.anchor, check.rows, last)
    <3>1. check' = [check EXCEPT !.pc = "broken"]
      BY <1>5, <2>3 DEF ReadState
    <3>2. check' \in Check /\ check'.pc = "broken" /\ check'.changed = check.changed
      BY <1>1, <3>1 DEF Check
    <3>3. check.changed
      <4> SUFFICES ASSUME ~check.changed PROVE FALSE
        OBVIOUS
      <4>1. check.anchor = anchor /\ check.rows = Beyond
        BY <2>1 DEF Watching
      <4>2. Verifies(anchor, Beyond, last)
        BY DEF LogInv, ChainIntact, Beyond
      <4> QED BY <4>1, <4>2, <2>3
    <3> QED BY <3>2, <3>3 DEF Watching, AlarmMeansChange, Running
  <2> QED BY <2>2, <2>3
<1> QED BY <1>3, <1>4, <1>5

\* The verifier never sounds a false alarm: over a log nobody touched while it
\* read, whatever appends, aborts, retention and erasures have left of it, its
\* three queries fit together (verify-audit-log.ts).
THEOREM AlarmSafety == CheckedSpec => []AlarmMeansChange
<1>1. CheckedInit => LogInv /\ Watching
  <2> SUFFICES ASSUME CheckedInit PROVE LogInv /\ Watching
    OBVIOUS
  <2>1. LogInv
    BY InitLog DEF CheckedInit
  <2>2. NewCheck \in Check /\ NewCheck.pc = "idle"
    BY LimitAssumption DEF NewCheck, Check, NoEvent, Link, Hashes
  <2> QED BY <2>1, <2>2 DEF CheckedInit, Watching, AlarmMeansChange, Running
<1>2. LogInv /\ Watching /\ [CheckedNext]_<<vars, check>> => (LogInv /\ Watching)'
  <2> SUFFICES ASSUME LogInv, Watching, [CheckedNext]_<<vars, check>> PROVE LogInv' /\ Watching'
    OBVIOUS
  <2>1. [Next]_vars
    BY DEF CheckedNext, InUse, ReadAnchor, ReadEvents, ReadState
  <2>2. LogInv'
    BY <2>1, LogInvStep
  <2>3. CASE UNCHANGED <<vars, check>>
    <3>1. check' = check /\ events' = events /\ anchor' = anchor
      BY <2>3 DEF vars
    <3>2. Running' = Running /\ Beyond' = Beyond /\ AlarmMeansChange' = AlarmMeansChange
      BY <3>1 DEF Running, Beyond, AlarmMeansChange
    <3> QED BY <2>2, <3>1, <3>2 DEF Watching
  <2> QED BY <2>2, <2>3, InUseWatches, ReadsWatch DEF CheckedNext
<1>3. LogInv /\ Watching => AlarmMeansChange
  BY DEF Watching
<1> QED BY <1>1, <1>2, <1>3, PTL DEF CheckedSpec
=============================================================================
