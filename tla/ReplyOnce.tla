------------------------------ MODULE ReplyOnce ------------------------------
(***************************************************************************)
(* What the outbox promises about the reply to one inbound message, with   *)
(* no queue, worker, row status or webhook in sight: a bounded number of   *)
(* delivery attempts, made one at a time, and never one more once a copy   *)
(* of the reply has reached the user's phone.                              *)
(***************************************************************************)
EXTENDS Naturals

CONSTANTS
  Messages,       \* inbound messages that may be answered
  AttemptLimit    \* deliveries that may be begun for one of them

VARIABLES
  begun,    \* begun[m]: deliveries begun for the reply to m
  open,     \* open[m]: a delivery is being attempted now
  copies    \* copies[m]: copies of the reply that reach the user

vars == <<begun, open, copies>>

Init ==
  /\ begun = [m \in Messages |-> 0]
  /\ open = [m \in Messages |-> FALSE]
  /\ copies = [m \in Messages |-> 0]

\* A delivery is begun; `now` is FALSE when the caller never learns that its
\* reservation was granted and so attempts nothing.
Begin(m, now) ==
  /\ ~open[m]
  /\ copies[m] = 0
  /\ begun[m] < AttemptLimit
  /\ begun' = [begun EXCEPT ![m] = @ + 1]
  /\ open' = [open EXCEPT ![m] = now]
  /\ UNCHANGED copies

\* The attempt puts the reply on the user's phone.
Arrive(m) ==
  /\ open[m]
  /\ copies' = [copies EXCEPT ![m] = @ + 1]
  /\ open' = [open EXCEPT ![m] = FALSE]
  /\ UNCHANGED begun

\* Attempts end with nothing delivered; a crash ends several at once.
GiveUp(S) ==
  /\ \A m \in S : open[m]
  /\ open' = [m \in Messages |-> open[m] /\ m \notin S]
  /\ UNCHANGED <<begun, copies>>

Next ==
  \/ \E m \in Messages, now \in BOOLEAN : Begin(m, now)
  \/ \E m \in Messages : Arrive(m)
  \/ \E S \in SUBSET Messages : GiveUp(S)

Spec == Init /\ [][Next]_vars
=============================================================================
