----------------------------- MODULE AuditVerifier -----------------------------
(***************************************************************************)
(* scripts/verify-audit-log.ts against a database in use: three queries,   *)
(* each a snapshot of its own, while the transactions of AuditChain go on. *)
(***************************************************************************)
EXTENDS AuditChain

VARIABLE
  check   \* the verifier's run: its place, what it has read so far

\* changed: a transaction has changed the log since the run's first query.
NewCheck == [pc |-> "idle", anchor |-> NoEvent, rows |-> {}, changed |-> FALSE]

Running == check.pc \in {"events", "state"}

\* A run begins with the anchor.
ReadAnchor ==
  /\ ~Running
  /\ check' = [NewCheck EXCEPT !.pc = "events", !.anchor = anchor]
  /\ UNCHANGED vars

ReadEvents ==
  /\ check.pc = "events"
  /\ check' = [check EXCEPT !.pc = "state",
                            !.rows = {e \in events : e.seq > check.anchor.seq}]
  /\ UNCHANGED vars

\* The links are checked, and the tail against audit_chain_state.
ReadState ==
  /\ check.pc = "state"
  /\ check' = [check EXCEPT
       !.pc = IF Verifies(check.anchor, check.rows, last) THEN "verified" ELSE "broken"]
  /\ UNCHANGED vars

InUse ==
  /\ Next
  /\ check' = [check EXCEPT
       !.changed = @ \/ (Running /\ <<events, anchor, last>>' # <<events, anchor, last>>)]

CheckedInit == Init /\ check = NewCheck
CheckedNext == InUse \/ ReadAnchor \/ ReadEvents \/ ReadState
CheckedSpec == CheckedInit /\ [][CheckedNext]_<<vars, check>>

FairCheckedSpec == CheckedSpec /\ Fairness

-----------------------------------------------------------------------------
\* A verdict against the chain is never given over a log nobody touched between
\* the first and the last query, whatever retention and erasure have left of it.
AlarmMeansChange == check.pc = "broken" => check.changed
=============================================================================
