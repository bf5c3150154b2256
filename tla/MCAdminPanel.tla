------------------------------ MODULE MCAdminPanel ------------------------------
(* An instance of AdminPanel for TLC: two forms, one that needs a role and  *)
(* one that lacks it, and batches that lock two phones in either order.     *)
EXTENDS AdminPanel, TLC

Sales == "company.sales"

MCForms == {[role |-> "executive", grants |-> {Explore}],
            [role |-> "employee", grants |-> {Sales}],
            [role |-> "employee", grants |-> {Explore}]}

Employee == [role |-> "employee", grants |-> {Sales}]

MCBatches == {<<Upsert(p, Employee), Upsert(q, Employee)>> :
                <<p, q>> \in {<<a, b>> \in Phones \X Phones : a # b}}

\* Nothing tells one phone from another.
Symmetry == Permutations(Phones)
=============================================================================
