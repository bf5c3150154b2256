------------------------------ MODULE AuditChain ------------------------------
(***************************************************************************)
(* The hash-chained audit log and the transactions that write or shorten   *)
(* it: appendAuditEvent (src/messages/audit.repository.ts) inside          *)
(* AuditRepository.record, the whitelist update, the erasure of a user and *)
(* the legal-hold switch; the retention function of migration 005; and the *)
(* erasure of the client's data.                                           *)
(*                                                                         *)
(* A step is one statement of a transaction.  The locks PostgreSQL keeps   *)
(* until the end of a transaction are read off the place it has reached,   *)
(* and its writes appear when it commits.  Of the users the model has one, *)
(* known by its id: a user whitelisted anew gets another id, and           *)
(* transactions about different users meet only on the chain's own row.    *)
(***************************************************************************)
EXTENDS Integers, FiniteSets

CONSTANTS
  Recorders,        \* clients of AuditRepository.record
  Admins,           \* clients of upsertWhitelistedUser
  UserErasers,      \* runs of erase-user-data
  Holders,          \* runs of set-legal-hold
  Erasers,          \* runs of erase-client-data
  Purgers,          \* replicas and operators that run the lifecycle job
  AuditDays,        \* audit retention
  MaxDays,          \* bound: the last day
  MaxTransactions,  \* bound: transactions begun, those of Purgers apart
  MaxAborts         \* bound: transactions that fail for no reason of their own

Writers == Recorders \cup Admins \cup UserErasers \cup Holders
Processes == Writers \cup Erasers \cup Purgers

ASSUME ProcessAssumption ==
  /\ Recorders \cap (Admins \cup UserErasers \cup Holders \cup Erasers \cup Purgers) = {}
  /\ Admins \cap (UserErasers \cup Holders \cup Erasers \cup Purgers) = {}
  /\ UserErasers \cap (Holders \cup Erasers \cup Purgers) = {}
  /\ Holders \cap (Erasers \cup Purgers) = {}
  /\ Erasers \cap Purgers = {}

ASSUME LimitAssumption ==
  /\ AuditDays \in Nat \ {0}
  /\ MaxDays \in Nat
  /\ MaxTransactions \in Nat
  /\ MaxAborts \in Nat

VARIABLES
  events,          \* committed rows of audit_events
  anchor,          \* the row of audit_chain_anchors, NoEvent if there is none
  last,            \* last_sequence and last_hash of audit_chain_state
  sequence,        \* audit_events_sequence_seq, which no rollback takes back
  user,            \* does the user's row exist?
  hold,            \* legal_hold_at IS NOT NULL
  decommissioned,  \* decommissioned_at IS NOT NULL
  tx,              \* tx[p]: the transaction of process p
  today,           \* the database's clock, in days
  begun,           \* transactions begun so far
  aborts           \* transactions aborted so far

log == <<events, anchor, last, sequence>>
service == <<user, hold, decommissioned>>
bounds == <<begun, aborts>>
vars == <<events, anchor, last, sequence, user, hold, decommissioned, tx, today,
          begun, aborts>>

\* An HMAC covers the event's random id, its sequence and the previous hash: no
\* two are equal.  It is named by the number of the transaction that made it.
Hashes == 0..MaxTransactions

Event == [seq : Nat, prev : Hashes, hash : Hashes, day : 0..MaxDays]
Link == [seq : Nat, hash : Hashes]
NoEvent == [seq |-> 0, hash |-> 0]
LinkOf(e) == [seq |-> e.seq, hash |-> e.hash]

\* The statement a transaction is about to run.
Place ==
  {"idle", "advisory", "user", "chain", "sequence", "insert", "commit",
   "events table", "chain table", "erase", "boundary", "purge"}

\* about: the event names the user; through: the boundary a purge has found.
Tx == [pc : Place, hash : Hashes, seq : Nat, prev : Hashes, day : 0..MaxDays,
       about : BOOLEAN, through : Link]

IdleTx == [pc |-> "idle", hash |-> 0, seq |-> 0, prev |-> 0, day |-> 0,
           about |-> FALSE, through |-> NoEvent]

At(p, pc) == tx[p].pc = pc
Goto(p, pc) == tx' = [tx EXCEPT ![p].pc = pc]
End(p) == tx' = [tx EXCEPT ![p] = IdleTx]

-----------------------------------------------------------------------------
(***************************************************************************)
(* Locks                                                                   *)
(***************************************************************************)

Appending(p) == tx[p].pc \in {"sequence", "insert", "commit"}

\* FOR UPDATE on the singleton of audit_chain_state.
HoldsChain(p) == Appending(p)

\* The lock on the users table that its statements leave behind.
UsesUsers(p) == p \in Admins \cup UserErasers /\ (At(p, "chain") \/ Appending(p))

\* FOR UPDATE on the user's row, or the row's deletion.
HoldsUser(p) == user /\ UsesUsers(p)

\* FOR KEY SHARE on it, taken by the foreign key of an inserted event.
SharesUser(p) == p \in Recorders /\ tx[p].about /\ At(p, "commit")

\* The advisory lock named data-lifecycle.
HoldsAdvisory(p) ==
  p \in UserErasers \cup Holders \cup Erasers \cup Purgers /\ tx[p].pc \notin {"idle", "advisory"}

\* LOCK TABLE takes its tables one after the other, audit_events first.
HoldsEventsTable(p) == tx[p].pc \in {"chain table", "erase"}
HoldsChainTable(p) == At(p, "erase")

\* Whom the next statement of p has to wait for.
Blockers(p) ==
  {q \in Processes \ {p} :
     \/ At(p, "advisory") /\ HoldsAdvisory(q)
     \/ At(p, "user") /\ (HoldsUser(q) \/ SharesUser(q) \/ HoldsChainTable(q))
     \/ At(p, "chain") /\ (HoldsChain(q) \/ HoldsChainTable(q))
     \/ At(p, "insert") /\ (HoldsEventsTable(q) \/ (tx[p].about /\ HoldsUser(q)))
     \/ At(p, "events table") /\ At(q, "commit")
     \/ At(p, "chain table") /\ (HoldsChain(q) \/ UsesUsers(q))}

Free(p) == Blockers(p) = {}

\* A set of transactions each of which waits for another one of the set.
Deadlocked(S) == S # {} /\ \A p \in S : Blockers(p) \cap S # {}

-----------------------------------------------------------------------------
(***************************************************************************)
(* Appending an event                                                      *)
(***************************************************************************)

Begin(p, pc, about) ==
  /\ At(p, "idle")
  /\ begun < MaxTransactions
  /\ begun' = begun + 1
  /\ tx' = [tx EXCEPT ![p] = [IdleTx EXCEPT !.pc = pc, !.hash = begun + 1, !.about = about]]
  /\ UNCHANGED <<log, service, today, aborts>>

\* AuditRepository.record, about the user or about nobody.
Record(p, about) == p \in Recorders /\ Begin(p, "chain", about)

\* upsertUser and the command-line whitelist.
Whitelist(p) == p \in Admins /\ Begin(p, "user", TRUE)

\* SELECT ... FOR UPDATE on the user's row, then the row's own writes.  Without
\* the row an erasure stops, and the whitelist inserts a user of another id.
LockUser(p) ==
  /\ At(p, "user")
  /\ Free(p)
  /\ IF p \in UserErasers /\ ~user THEN End(p) ELSE Goto(p, "chain")
  /\ UNCHANGED <<log, service, today, bounds>>

\* Fault: the chain's row is read without FOR UPDATE.
LockChainUnlocked(p) ==
  /\ At(p, "chain")
  /\ tx' = [tx EXCEPT ![p].pc = "sequence", ![p].prev = last.hash]
  /\ UNCHANGED <<log, service, today, bounds>>

LockChain(p) ==
  /\ At(p, "chain")
  /\ Free(p)
  /\ tx' = [tx EXCEPT ![p].pc = "sequence", ![p].prev = last.hash]
  /\ UNCHANGED <<log, service, today, bounds>>

\* nextval and clock_timestamp.
ReserveSequence(p) ==
  /\ At(p, "sequence")
  /\ sequence' = sequence + 1
  /\ tx' = [tx EXCEPT ![p].pc = "insert", ![p].seq = sequence + 1, ![p].day = today]
  /\ UNCHANGED <<events, anchor, last, service, today, bounds>>

\* The foreign key looks the user up; the insert fails if the row is gone.
InsertEvent(p) ==
  /\ At(p, "insert")
  /\ Free(p)
  /\ IF p \in Recorders /\ tx[p].about /\ ~user THEN End(p) ELSE Goto(p, "commit")
  /\ UNCHANGED <<log, service, today, bounds>>

NewEvent(t) == [seq |-> t.seq, prev |-> t.prev, hash |-> t.hash, day |-> t.day]

\* The update of audit_chain_state and the COMMIT, with what else was written.
Commit(p) ==
  /\ At(p, "commit")
  /\ events' = events \cup {NewEvent(tx[p])}
  /\ last' = LinkOf(tx[p])
  /\ user' = (user /\ p \notin UserErasers)
  /\ hold' = IF p \in Holders THEN ~hold ELSE hold
  /\ End(p)
  /\ UNCHANGED <<anchor, sequence, decommissioned, today, bounds>>

\* A statement fails, or the client dies: ROLLBACK.
Abort(p) ==
  /\ ~At(p, "idle")
  /\ aborts < MaxAborts
  /\ aborts' = aborts + 1
  /\ End(p)
  /\ UNCHANGED <<log, service, today, begun>>

\* external: PostgreSQL ends a deadlock by aborting one of its transactions.
BreakDeadlock(p) ==
  /\ ~Free(p)
  /\ \E S \in SUBSET {q \in Processes : ~Free(q)} : p \in S /\ Deadlocked(S)
  /\ End(p)
  /\ UNCHANGED <<log, service, today, bounds>>

-----------------------------------------------------------------------------
(***************************************************************************)
(* Legal hold, erasure and retention, all under the advisory lock          *)
(***************************************************************************)

\* set-legal-hold refuses a decommissioned service before it takes any lock.
ChangeHold(p) == p \in Holders /\ ~decommissioned /\ Begin(p, "advisory", FALSE)

EraseUser(p) == p \in UserErasers /\ user /\ Begin(p, "advisory", FALSE)

EraseClient(p) == p \in Erasers /\ Begin(p, "advisory", FALSE)

\* The advisory lock, then service_state: an erasure stops at a legal hold, a
\* legal-hold change at a hold that already is as requested.
LockAdvisory(p) ==
  /\ At(p, "advisory")
  /\ Free(p)
  /\ \/ p \in Holders /\ (Goto(p, "chain") \/ End(p))
     \/ p \notin Holders /\ hold /\ End(p)
     \/ p \in UserErasers /\ ~hold /\ Goto(p, "user")
     \/ p \in Erasers /\ ~hold /\ Goto(p, "events table")
  /\ UNCHANGED <<log, service, today, bounds>>

LockEventsTable(p) ==
  /\ At(p, "events table")
  /\ Free(p)
  /\ Goto(p, "chain table")
  /\ UNCHANGED <<log, service, today, bounds>>

LockChainTable(p) ==
  /\ At(p, "chain table")
  /\ Free(p)
  /\ Goto(p, "erase")
  /\ UNCHANGED <<log, service, today, bounds>>

\* Fault: the anchors survive the events.
EraseButAnchor(p) ==
  /\ At(p, "erase")
  /\ events' = {} /\ last' = NoEvent /\ sequence' = 0
  /\ user' = FALSE /\ hold' = FALSE /\ decommissioned' = TRUE
  /\ End(p)
  /\ UNCHANGED <<anchor, today, bounds>>

\* eraseAssistantData and the decommission switch.
Erase(p) ==
  /\ At(p, "erase")
  /\ events' = {} /\ anchor' = NoEvent /\ last' = NoEvent /\ sequence' = 0
  /\ user' = FALSE /\ hold' = FALSE /\ decommissioned' = TRUE
  /\ End(p)
  /\ UNCHANGED <<today, bounds>>

\* Fault: the job runs although another transaction has the advisory lock.
BeginPurgeAnyway(p) ==
  /\ p \in Purgers
  /\ At(p, "idle")
  /\ ~hold
  /\ tx' = [tx EXCEPT ![p] = [IdleTx EXCEPT !.pc = "boundary", !.day = today]]
  /\ UNCHANGED <<log, service, today, bounds>>

\* assistant_run_data_lifecycle gives up at once when the lock is taken or a
\* hold is in force.
BeginPurge(p) ==
  /\ p \in Purgers
  /\ At(p, "idle")
  /\ \A q \in Processes : ~HoldsAdvisory(q)
  /\ ~hold
  /\ tx' = [tx EXCEPT ![p] = [IdleTx EXCEPT !.pc = "boundary", !.day = today]]
  /\ UNCHANGED <<log, service, today, bounds>>

Recent(e, now) == e.day >= now - AuditDays

\* Fault: with nothing recent the minimum is NULL and no event compares to it.
ExpiredPrefixBeforeRecent(now) ==
  {e \in events : /\ \E f \in events : Recent(f, now)
                  /\ \A f \in events : Recent(f, now) => e.seq < f.seq}

\* Fault: the first recent event counts as expired.
ExpiredPrefixInclusive(now) ==
  {e \in events : \A f \in events : Recent(f, now) => e.seq <= f.seq}

\* The events older than every recent one.
ExpiredPrefix(now) == {e \in events : \A f \in events : Recent(f, now) => e.seq < f.seq}

FindBoundary(p) ==
  /\ At(p, "boundary")
  /\ LET expired == ExpiredPrefix(tx[p].day)
     IN IF expired = {}
          THEN End(p)
          ELSE \E e \in expired :
                 /\ \A f \in expired : f.seq <= e.seq
                 /\ tx' = [tx EXCEPT ![p].pc = "purge", ![p].through = LinkOf(e)]
  /\ UNCHANGED <<log, service, today, bounds>>

\* The anchor replaces the older ones and the prefix goes.
Purge(p) ==
  /\ At(p, "purge")
  /\ anchor' = tx[p].through
  /\ events' = {e \in events : e.seq > tx[p].through.seq}
  /\ End(p)
  /\ UNCHANGED <<last, sequence, service, today, bounds>>

Tick ==
  /\ today < MaxDays
  /\ today' = today + 1
  /\ UNCHANGED <<log, service, tx, bounds>>

Init ==
  /\ events = {} /\ anchor = NoEvent /\ last = NoEvent /\ sequence = 0
  /\ user = TRUE /\ hold = FALSE /\ decommissioned = FALSE
  /\ tx = [p \in Processes |-> IdleTx]
  /\ today = 0 /\ begun = 0 /\ aborts = 0

\* The next statement of a transaction that has begun.
Proceed(p) ==
  \/ LockAdvisory(p) \/ LockUser(p) \/ LockChain(p)
  \/ ReserveSequence(p) \/ InsertEvent(p) \/ Commit(p)
  \/ LockEventsTable(p) \/ LockChainTable(p) \/ Erase(p)
  \/ FindBoundary(p) \/ Purge(p)

Next ==
  \/ \E p \in Processes :
       \/ \E about \in BOOLEAN : Record(p, about)
       \/ Whitelist(p) \/ ChangeHold(p) \/ EraseUser(p) \/ EraseClient(p)
       \/ BeginPurge(p)
       \/ Proceed(p)
       \/ Abort(p) \/ BreakDeadlock(p)
  \/ Tick

Spec == Init /\ [][Next]_vars

\* A transaction that has begun goes on, or PostgreSQL finds it deadlocked; the
\* job's timer fires; nobody is obliged to begin anything else.
Fairness ==
  /\ \A p \in Processes : WF_vars(Proceed(p) \/ BreakDeadlock(p))
  /\ \A p \in Purgers : WF_vars(BeginPurge(p))

FairSpec == Spec /\ Fairness

-----------------------------------------------------------------------------
(***************************************************************************)
(* Properties                                                              *)
(***************************************************************************)

\* Every variable holds what its declaration says.
TypeOK ==
  /\ events \subseteq Event
  /\ anchor \in Link /\ last \in Link
  /\ sequence \in Nat
  /\ user \in BOOLEAN /\ hold \in BOOLEAN /\ decommissioned \in BOOLEAN
  /\ tx \in [Processes -> Tx]
  /\ today \in 0..MaxDays
  /\ begun \in 0..MaxTransactions
  /\ aborts \in 0..MaxAborts

\* e follows start when it is the first of rows, and its predecessor otherwise.
Linked(start, rows, e) ==
  \/ /\ e.prev = start.hash
     /\ \A f \in rows : e.seq <= f.seq
  \/ \E f \in rows :
       /\ f.seq < e.seq /\ f.hash = e.prev
       /\ \A g \in rows : g.seq <= f.seq \/ e.seq <= g.seq

\* Fault: with no row left, the tail is compared with nothing.
IsTailOfRows(start, rows, tail) ==
  IF rows = {} THEN tail = NoEvent
               ELSE \E e \in rows : tail = LinkOf(e) /\ \A f \in rows : f.seq <= e.seq

\* The last of rows, or start when there is none.
IsTail(start, rows, tail) ==
  IF rows = {} THEN tail = start
               ELSE \E e \in rows : tail = LinkOf(e) /\ \A f \in rows : f.seq <= e.seq

\* The loop of verify-audit-log over the rows in the order of their sequence.
Verifies(start, rows, tail) ==
  /\ \A e \in rows : Linked(start, rows, e)
  /\ IsTail(start, rows, tail)

\* "chained audit" (README.md:49): whatever the interleaving, the rollbacks and
\* the gaps they leave, the retention job and the erasures, the committed rows
\* are one chain from the retained anchor to the recorded tail.
ChainIntact == Verifies(anchor, {e \in events : e.seq > anchor.seq}, last)

\* Why the chain stays intact, one part per way a step could break it.  Every
\* transaction is where its kind may be;
Roles ==
  \A p \in Processes :
    /\ At(p, "chain") \/ Appending(p) => p \in Writers
    /\ At(p, "user") => p \in Admins \cup UserErasers
    /\ At(p, "advisory") => p \in UserErasers \cup Holders \cup Erasers
    /\ tx[p].pc \in {"events table", "chain table", "erase"} => p \in Erasers
    /\ tx[p].pc \in {"boundary", "purge"} => p \in Purgers

\* one transaction at a time changes the hold, erases or purges, and the last
\* two not under a hold;
OneAdvisory ==
  \A p, q \in Processes :
    /\ HoldsAdvisory(p) /\ HoldsAdvisory(q) => p = q
    /\ HoldsAdvisory(p) /\ p \notin Holders => ~hold

\* one at a time extends the chain, from its present end;
OneWriter ==
  \A p \in Processes : Appending(p) =>
    /\ tx[p].prev = last.hash
    /\ tx[p].pc \in {"insert", "commit"} => last.seq < tx[p].seq /\ tx[p].seq <= sequence
    /\ \A q \in Processes : HoldsChain(q) \/ HoldsChainTable(q) => q = p

\* sequences number the events beyond the anchor;
Numbered ==
  /\ anchor.seq <= last.seq /\ last.seq <= sequence
  /\ \A e \in events : anchor.seq < e.seq /\ e.seq <= last.seq
  /\ \A e, f \in events : e.seq = f.seq => e = f

\* and a purge removes what precedes an event that is still there, all expired.
PurgeSound ==
  \A p \in Processes :
    /\ ~At(p, "idle") => tx[p].day <= today
    /\ At(p, "purge") =>
         /\ \E e \in events : tx[p].through = LinkOf(e)
         /\ \A e \in events : e.seq <= tx[p].through.seq => ~Recent(e, tx[p].day)

LogInv ==
  TypeOK /\ Roles /\ OneAdvisory /\ OneWriter /\ Numbered /\ PurgeSound /\ ChainIntact

\* "A legal hold overrides automated deletion until formally released" and
\* "blocks individual and end-of-contract erasure" (docs/DATA_LIFECYCLE.md).
HoldFreezes == [][hold => events \subseteq events' /\ (user => user')]_vars

\* The job removes expired events only, also when the day changes or events
\* arrive between its statements; an erasure leaves nothing at all.
RecentKept ==
  [][\A e \in events \ events' :
       \/ ~Recent(e, today)
       \/ events' = {} /\ anchor' = NoEvent /\ last' = NoEvent]_vars

\* "Prefix purge" after the retention: expired events do not stay, whatever is
\* appended meanwhile, unless a hold is put in force.
ExpiredGo ==
  (\E e \in events : ~Recent(e, today)) ~> (hold \/ \A e \in events : Recent(e, today))
=============================================================================
