------------------------------- MODULE Whitelist -------------------------------
(***************************************************************************)
(* The transactions that change the whitelist: upsertWhitelistedUser, once *)
(* from the panel (src/admin/store.ts) or db:add-user, several times in a  *)
(* transaction of db:whitelist-batch, and the change of is_active from the *)
(* panel or db:set-user-active.                                            *)
(*                                                                         *)
(* A step is one statement; statements that touch only rows the            *)
(* transaction has locked go with the one before.  All processes hash with *)
(* the same active key.  The chain of the audit log is AuditChain's        *)
(* subject; here it is what its last records say of each user.             *)
(***************************************************************************)
EXTENDS Integers, Sequences, FiniteSets

CONSTANTS
  Clients,   \* connections that run these transactions
  Phones,
  Forms,     \* role and permissions that may be asked for
  MaxJobs    \* bound: transactions begun

ASSUME WhitelistAssumption == MaxJobs \in Nat /\ IsFiniteSet(Clients)

Explore == "company.database.explore"   \* and each company.database.relation.*
ExplorerRoles == {"executive", "admin"}

VARIABLES
  rows,    \* committed users with their permissions: id -> row
  said,    \* what the last audit records of each user say: id -> [active, grants]
  tx,      \* tx[c]: the transaction of client c
  begun    \* transactions begun

whitelist == <<rows, said, tx, begun>>

IdleTx == [pc |-> "idle", jobs |-> <<>>, found |-> 0, locks |-> {}, pending |-> <<>>, log |-> <<>>]

\* normalizeWhitelistUser: what is refused before a transaction begins.
Valid(form) == Explore \in form.grants => form.role \in ExplorerRoles

Upsert(phone, form) ==
  [kind |-> "upsert", phone |-> phone, role |-> form.role, grants |-> form.grants, active |-> TRUE]
Activation(phone, active) ==
  [kind |-> "activate", phone |-> phone, role |-> "", grants |-> {}, active |-> active]

Started(jobs) ==
  [IdleTx EXCEPT !.pc = IF jobs[1].kind = "upsert" THEN "lookup" ELSE "write", !.jobs = jobs]

\* BEGIN, after every row of the input was found valid.
Begin(c, jobs) ==
  /\ tx[c].pc = "idle" /\ begun < MaxJobs
  /\ \A i \in DOMAIN jobs : jobs[i].kind = "upsert" => Valid(jobs[i])
  /\ tx' = [tx EXCEPT ![c] = Started(jobs)]
  /\ begun' = begun + 1
  /\ UNCHANGED <<rows, said>>

Job(c) == tx[c].jobs[1]

\* What a statement sees: the committed rows, under the transaction's own.
View(c) ==
  [id \in DOMAIN rows \cup DOMAIN tx[c].pending |->
     IF id \in DOMAIN tx[c].pending THEN tx[c].pending[id] ELSE rows[id]]
Matching(c) == {id \in DOMAIN View(c) : View(c)[id].phone = Job(c).phone}

Free(c, id) == \A d \in Clients \ {c} : id \notin tx[d].locks

\* SELECT ... FOR UPDATE: waits for a row's lock, but sees no uncommitted row.
Lookup(c) ==
  /\ tx[c].pc = "lookup"
  /\ \/ /\ Matching(c) = {}
        /\ tx' = [tx EXCEPT ![c].pc = "write", ![c].found = 0]
     \/ \E id \in Matching(c) :
          /\ Free(c, id)
          /\ tx' = [tx EXCEPT ![c].pc = "write", ![c].found = id, ![c].locks = @ \cup {id}]
  /\ UNCHANGED <<rows, said, begun>>

Rollback(c) == tx' = [tx EXCEPT ![c] = IdleTx]

\* The transaction's own rows, after a statement that changes or inserts some.
Put(c, changed) ==
  [id \in DOMAIN tx[c].pending \cup DOMAIN changed |->
     IF id \in DOMAIN changed THEN changed[id] ELSE tx[c].pending[id]]

GrantsAdded(old, new) == old \cup new   \* mutant: the DELETE FROM permissions dropped
\* Permissions after the INSERTs and the DELETE.
Granted(old, new) == new

\* UPDATE of the row found; it also makes the user active again.
Update(c) ==
  /\ tx[c].pc = "write" /\ Job(c).kind = "upsert" /\ tx[c].found # 0
  /\ tx' = [tx EXCEPT ![c].pc = "audit",
       ![c].pending = Put(c, [id \in {tx[c].found} |->
                     [phone |-> Job(c).phone, role |-> Job(c).role, active |-> TRUE,
                      grants |-> Granted(View(c)[id].grants, Job(c).grants)]])]
  /\ UNCHANGED <<rows, said, begun>>

\* The unique index on phone_lookup_hash: an INSERT waits for another one of the
\* same phone, and fails when that one commits.
Inserting(d, phone) ==
  \E id \in DOMAIN tx[d].pending \ DOMAIN rows : tx[d].pending[id].phone = phone
Taken(phone) == \E id \in DOMAIN rows : rows[id].phone = phone

\* randomUUID
UsedIds == DOMAIN rows \cup UNION {DOMAIN tx[d].pending : d \in Clients}
NewId == CHOOSE id \in 1..(Cardinality(UsedIds) + 1) : id \notin UsedIds

Insert(c) ==
  /\ tx[c].pc = "write" /\ Job(c).kind = "upsert" /\ tx[c].found = 0
  /\ \A d \in Clients \ {c} : ~Inserting(d, Job(c).phone)
  /\ \/ Taken(Job(c).phone) /\ Rollback(c)
     \/ /\ ~Taken(Job(c).phone)
        /\ tx' = [tx EXCEPT ![c].pc = "audit", ![c].found = NewId,
             ![c].locks = @ \cup {NewId},
             ![c].pending = Put(c, [id \in {NewId} |->
                           [phone |-> Job(c).phone, role |-> Job(c).role, active |-> TRUE,
                            grants |-> Job(c).grants]])]
  /\ UNCHANGED <<rows, said, begun>>

\* UPDATE ... SET is_active; "Whitelist user was not found" rolls back.
SetActive(c) ==
  /\ tx[c].pc = "write" /\ Job(c).kind = "activate"
  /\ \/ Matching(c) = {} /\ Rollback(c)
     \/ /\ Matching(c) # {} /\ \A id \in Matching(c) : Free(c, id)
        /\ tx' = [tx EXCEPT ![c].pc = "audit",
             ![c].found = CHOOSE id \in Matching(c) : TRUE,
             ![c].locks = @ \cup Matching(c),
             ![c].pending = Put(c, [id \in Matching(c) |->
                           [View(c)[id] EXCEPT !.active = Job(c).active]])]
  /\ UNCHANGED <<rows, said, begun>>

\* appendAuditEvent takes the chain's row and keeps it until the transaction ends.
Audit(c) ==
  /\ tx[c].pc = "audit"
  /\ \A d \in Clients \ {c} : tx[d].log = <<>>
  /\ tx' = [tx EXCEPT ![c].pc = IF Len(tx[c].jobs) = 1 THEN "commit" ELSE "lookup",
                      ![c].jobs = Tail(@),
                      ![c].log = Append(@, [id |-> tx[c].found, job |-> Job(c)])]
  /\ UNCHANGED <<rows, said, begun>>

\* The record of an activation does not name the permissions.
Say(c) ==
  [id \in DOMAIN said \cup {tx[c].log[i].id : i \in DOMAIN tx[c].log} |->
     LET about == {i \in DOMAIN tx[c].log : tx[c].log[i].id = id}
         last  == tx[c].log[CHOOSE i \in about : \A j \in about : j <= i].job
     IN IF about = {} THEN said[id]
        ELSE IF last.kind = "upsert" THEN [active |-> TRUE, grants |-> last.grants]
        ELSE [active |-> last.active, grants |-> said[id].grants]]

Commit(c) ==
  /\ tx[c].pc = "commit"
  /\ rows' = View(c)
  /\ said' = Say(c)
  /\ tx' = [tx EXCEPT ![c] = IdleTx]
  /\ UNCHANGED begun

\* A deadlock's victim, the panel's lock timeout, a lost connection.
Abort(c) == tx[c].pc # "idle" /\ Rollback(c) /\ UNCHANGED <<rows, said, begun>>

WhitelistInit ==
  /\ rows = <<>> /\ said = <<>>
  /\ tx = [c \in Clients |-> IdleTx]
  /\ begun = 0

Statement ==
  \E c \in Clients :
    Lookup(c) \/ Update(c) \/ Insert(c) \/ SetActive(c) \/ Audit(c) \/ Commit(c) \/ Abort(c)

-----------------------------------------------------------------------------
\* Two administrators that add one phone number at once leave one user: nothing
\* is there to lock, and the index decides (whitelist-user.ts:92).
OneUserPerPhone ==
  \A a, b \in DOMAIN rows : rows[a].phone = rows[b].phone => a = b

\* The last records of the audit log say what the whitelist holds, in whatever
\* order updates of one user commit.
Audited ==
  /\ DOMAIN said = DOMAIN rows
  /\ \A id \in DOMAIN rows :
       rows[id].active = said[id].active /\ rows[id].grants = said[id].grants

\* No earlier grant to explore the database outlives the role it needs.
ExploreNeedsRole == \A id \in DOMAIN rows : Valid(rows[id])

WhitelistInv == OneUserPerPhone /\ Audited /\ ExploreNeedsRole
=============================================================================
