------------------------ MODULE AssistantTurnProofs ------------------------
(***************************************************************************)
(* Whatever the model asks for, whatever fails and however the user is      *)
(* changed meanwhile, for every set of departments, relations, deployments  *)
(* and requests and every limit of calls: nothing is disclosed without a    *)
(* permission and an audit event, no company request is answered from       *)
(* nothing, and each request to the model is one that its provider takes.   *)
(***************************************************************************)
EXTENDS AssistantTurn, TLAPS

AtWork == {"actor", "require", "operate", "query", "recordSuccess", "recordFailure"}
Marks == {"data", "discovery", "denied", "failed", "unsupported"}

Fact == [by : Tools \cup {"router"}, needs : SUBSET Resources, dept : Departments \cup {"null", "all"}]
Tool == [name : Tools \cup {"none"}, actor : User, outcome : {"none", "ok", "denied", "failed"},
         data : SUBSET Fact]
Call == [id : Nat, form : Form]
ReplyType == [text : {"none", "fixed", "model", "schema", "report"},
              outcome : {"none", "threw", "success", "denied", "unsupported"},
              data : SUBSET Fact]
EventType == [type : {"tool", "request", "erasure", "access"},
              outcome : {"none", "threw", "success", "denied", "unsupported", "failed", "ok"},
              data : SUBSET Fact]
Moment == [grants : SUBSET Resources, users : SUBSET User]

Types ==
  /\ TypeOK
  /\ calls \in Seq(Call) /\ tool \in Tool /\ reply \in ReplyType /\ held \in Moment
  /\ evidence \subseteq Fact /\ log \subseteq EventType

\* No counter is ahead of the calls, and while a call is at work one of them has
\* not been marked yet.
Counted ==
  /\ \A c \in Counters : count[c] <= count.calls
  /\ pc \in AtWork => /\ tool.name \in Tools /\ calls # <<>>
                      /\ \A c \in Marks : count[c] < count.calls

\* What the user holds at this moment is part of what was held in the turn.
Present ==
  IF pc = "queued" THEN held = [grants |-> {}, users |-> {}]
  ELSE Effective(row) \subseteq held.grants /\ row \in held.users

\* The call in hand acts for a user of the turn, with a permission of the turn.
InHand ==
  /\ pc \in {"require", "operate", "query"} => tool.actor \in held.users
  /\ pc \in {"operate", "query"} => ResourceOf(tool.name) \in held.grants
  /\ pc = "recordFailure" => tool.outcome \in {"denied", "failed"}
  /\ pc = "report" => /\ request.report \in Reports
                      /\ ReportOf[request.report] \in held.grants
  /\ \A d \in tool.data : Allowed(d)

\* A failure in the log is one the counters know of.
Blameless ==
  count.denied = 0 /\ count.failed = 0 => \A e \in log : e.type = "tool" => e.outcome = "success"

\* What has been shown was allowed, and is accounted for or about to be.
Shown ==
  /\ \A d \in evidence : Allowed(d) /\ Accounted(d)
  /\ \A d \in reply.data :
       Allowed(d) /\ (Accounted(d) \/ (pc # "done" /\ reply.outcome = "success"))
  /\ reply.text = "model" => pc \in {"closing", "record", "done"}

IInv == Types /\ Counted /\ Present /\ InHand /\ Blameless /\ Shown /\ Guarded

-----------------------------------------------------------------------------
LEMMA ToolNames ==
  /\ Reports = {"get_sales_summary", "get_active_projects", "get_overdue_tasks"}
  /\ Tools = Reports \cup {"describe_database", "query_database"}
  /\ \A t \in Tools : ResourceOf(t) \in Resources
  /\ \A t \in Reports : ReportOf[t] \in Resources /\ ResourceOf(t) = ReportOf[t] /\ t \in Tools
  /\ \A t \in Tools \ Reports : ResourceOf(t) = Explore
  /\ Relations \subseteq Resources /\ Explore \in Resources
<1>1. Reports = {"get_sales_summary", "get_active_projects", "get_overdue_tasks"}
  BY DEF Reports, ReportOf
<1>2. "describe_database" \in Tools /\ ResourceOf("describe_database") = Explore
  BY <1>1 DEF Tools, ResourceOf
<1> QED BY <1>1, <1>2 DEF Tools, Resources, ResourceOf

\* What was allowed once stays so: the turn only gathers permissions and users.
LEMMA StaysAllowed ==
  ASSUME NEW d, Allowed(d), user' = user,
         held.grants \subseteq held'.grants, held.users \subseteq held'.users
  PROVE  Allowed(d)'
  BY DEF Allowed

LEMMA StaysAccounted ==
  ASSUME NEW d, Accounted(d), log \subseteq log'
  PROVE  Accounted(d)'
  BY DEF Accounted

LEMMA Count ==
  ASSUME TypeOK
  PROVE  /\ count \in [Counters -> Nat]
         /\ \A c \in Counters : count[c] \in 0..MaxToolCalls /\ count[c] \in Nat
         /\ MaxToolCalls \in Nat
  BY AssistantAssumption DEF TypeOK

LEMMA Bumped ==
  ASSUME TypeOK, NEW S, count' = Bump(S)
  PROVE  /\ DOMAIN count' = Counters
         /\ \A c \in Counters : count'[c] = IF c \in S THEN count[c] + 1 ELSE count[c]
         /\ count' = [c \in Counters |-> count'[c]]
  BY DEF Bump

-----------------------------------------------------------------------------
\* The steps that leave the work and the log alone.
LEMMA InitInv == Init => IInv
<1> SUFFICES ASSUME Init PROVE IInv
  OBVIOUS
<1>0. PICK s \in Starts : config = s.config /\ row = s.row /\ request = s.request
  BY DEF Init
<1>1. config \in Config /\ row \in User /\ request \in Request
  BY <1>0, AssistantAssumption
<1>2. NoUser \in User
  BY DEF NoUser, User, Roles
<1>3. Types
  BY <1>1, <1>2, AssistantAssumption DEF Init, Types, TypeOK, Tool, NoTool, ReplyType, NoReply, Moment
<1>4. Counted
  BY DEF Init, Counted, AtWork, Counters
<1>5. Present /\ InHand /\ Blameless /\ Shown /\ Guarded
  BY DEF Init, Present, InHand, Blameless, Shown, Guarded, NoTool, NoReply
<1> QED BY <1>3, <1>4, <1>5 DEF IInv

LEMMA AdministerKeeps == IInv /\ Administer => IInv'
<1> SUFFICES ASSUME IInv, Administer PROVE IInv'
  OBVIOUS
<1>0. row \in User /\ NewRoles \subseteq Roles
  BY AssistantAssumption DEF IInv, Types, TypeOK
<1>1. row' \in User
  <2>0. /\ row.active \in BOOLEAN /\ row.grants \in SUBSET Resources
        /\ row \in [active : BOOLEAN, role : Roles, dept : Departments \cup {"null"},
                    grants : SUBSET Resources]
    BY <1>0 DEF User
  <2>1. CASE row' = [row EXCEPT !.active = ~@]
    BY <2>0, <2>1 DEF User
  <2>2. CASE \E r \in NewRoles \ {row.role} : row' = [row EXCEPT !.role = r]
    BY <1>0, <2>0, <2>2 DEF User
  <2>3. CASE \E d \in Departments \cup {"null"} : row' = [row EXCEPT !.dept = d]
    BY <2>0, <2>3 DEF User
  <2>4. CASE \E r \in Resources :
               row' = [row EXCEPT !.grants = IF r \in @ THEN @ \ {r} ELSE @ \cup {r}]
    <3>1. PICK g \in SUBSET Resources : row' = [row EXCEPT !.grants = g]
      BY <2>0, <2>4
    <3> QED BY <2>0, <3>1 DEF User
  <2> QED BY <2>1, <2>2, <2>3, <2>4 DEF Administer
<1>2. Effective(row') \subseteq Resources
  BY <1>1 DEF Effective, User
<1>3. /\ pc' = pc /\ user' = user /\ log' = log /\ evidence' = evidence /\ reply' = reply
      /\ tool' = tool /\ count' = count /\ class' = class /\ calls' = calls /\ request' = request
      /\ config' = config /\ session' = session /\ offered' = offered
  BY DEF Administer
<1>4. /\ held' \in Moment /\ held.grants \subseteq held'.grants /\ held.users \subseteq held'.users
      /\ Present'
  BY <1>1, <1>2, <1>3 DEF IInv, Types, Present, Administer, Moment
<1>5. changes' \in 0..MaxChanges
  BY AssistantAssumption DEF Administer, IInv, Types, TypeOK
<1>6. Types'
  BY <1>1, <1>3, <1>4, <1>5 DEF IInv, Types, TypeOK, Moment
<1>7. Counted' /\ Blameless' /\ Guarded'
  BY <1>3 DEF IInv, Counted, Blameless, Guarded
<1>8. InHand' /\ Shown'
  BY <1>3, <1>4, StaysAllowed, StaysAccounted DEF IInv, InHand, Shown
<1> QED BY <1>4, <1>6, <1>7, <1>8 DEF IInv

\* A step that neither touches the permissions nor the log nor what was shown.
Still ==
  /\ UNCHANGED <<admin, held, log, evidence>>
  /\ pc # "queued" /\ pc' # "queued"

LEMMA StillKeeps ==
  ASSUME IInv, Still
  PROVE  /\ Present'
         /\ \A d : (Allowed(d) => Allowed(d)') /\ (Accounted(d) => Accounted(d)')
         /\ held' \in Moment /\ held' = held /\ evidence' = evidence /\ log' = log
         /\ row' = row /\ request' = request /\ config' = config /\ user' = user
         /\ changes' = changes
  BY DEF IInv, Types, Present, Still, admin, Allowed, Accounted

LEMMA BotCommandKeeps == IInv /\ BotCommand => IInv'
<1> SUFFICES ASSUME IInv, BotCommand PROVE IInv'
  OBVIOUS
<1>0. row \in User /\ held = [grants |-> {}, users |-> {}]
  BY DEF IInv, Types, TypeOK, Present, BotCommand
<1>1. held' = [grants |-> Effective(row), users |-> {row}] /\ Effective(row) \subseteq Resources
  BY <1>0 DEF BotCommand, Now, Effective, User
<1>2. /\ row' = row /\ request' = request /\ config' = config /\ user' = user /\ changes' = changes
      /\ class' = class /\ session' = session /\ offered' = offered /\ count' = count
      /\ calls' = calls /\ items' = items /\ tool' = tool /\ evidence' = evidence
  BY DEF BotCommand, admin, Working
<1>3. held' \in Moment /\ held.grants \subseteq held'.grants /\ held.users \subseteq held'.users
      /\ Present'
  BY <1>0, <1>1, <1>2 DEF Moment, Present, BotCommand, Goto
<1>4. pc' \in {"handle", "router", "record"} /\ pc = "queued"
  BY DEF BotCommand, Goto
<1>5. /\ log \subseteq log' /\ log' \subseteq EventType
      /\ \A e \in log' : e \in log \/ e.type # "tool"
  BY DEF BotCommand, Event, EventType, IInv, Types
<1>6. reply' = reply \/ reply' = [text |-> "fixed", outcome |-> "success", data |-> {}]
  BY DEF BotCommand, Answer
<1>7. Types'
  BY <1>2, <1>3, <1>4, <1>5, <1>6 DEF IInv, Types, TypeOK, ReplyType, Moment
<1>8. Counted' /\ Blameless'
  BY <1>2, <1>4, <1>5 DEF IInv, Counted, Blameless, AtWork
<1>9. InHand'
  BY <1>2, <1>3, <1>4, StaysAllowed DEF IInv, InHand
<1>10. Shown' /\ Guarded'
  BY <1>2, <1>3, <1>4, <1>5, <1>6, StaysAllowed, StaysAccounted DEF IInv, Shown, Guarded
<1> QED BY <1>3, <1>7, <1>8, <1>9, <1>10 DEF IInv

Places == {"queued", "handle", "open", "ask", "call", "actor", "require", "operate", "query",
           "recordSuccess", "recordFailure", "final", "closing", "router", "report", "record",
           "done", "failed"}

\* What is said without data, and not in the model's words.
Bare(r) == r \in ReplyType /\ r.data = {} /\ r.text # "model"

LEMMA BareReplies ==
  /\ Bare(NoReply) /\ Bare(Threw) /\ Threw.text = "none"
  /\ \A outcome \in {"success", "denied", "unsupported"} :
       Bare([text |-> "fixed", outcome |-> outcome, data |-> {}])
  BY DEF Bare, ReplyType, Threw, NoReply

\* A step between two calls that says nothing but bare words.
LEMMA BareStep ==
  ASSUME IInv, Still, count' = count, tool' = tool,
         pc \notin {"closing", "record", "done"}, pc' \in Places \ (AtWork \cup {"report", "done"}),
         calls' \in Seq(Call), class' \in Classes \cup {"none"},
         session' \in {"none", "open", "closed"}, offered' \subseteq Tools,
         reply' = reply \/ Bare(reply')
  PROVE  IInv'
<1>0. /\ Present'
      /\ \A d : (Allowed(d) => Allowed(d)') /\ (Accounted(d) => Accounted(d)')
      /\ held' \in Moment /\ held' = held /\ evidence' = evidence /\ log' = log
      /\ row' = row /\ request' = request /\ config' = config /\ user' = user
      /\ changes' = changes
  BY StillKeeps
<1>1. reply.text # "model" /\ reply'.text # "model" /\ reply' \in ReplyType
  BY DEF IInv, Types, Shown, Bare
<1>2. reply'.text \in {"none", "fixed", "model", "schema", "report"}
  BY <1>1 DEF ReplyType
<1>3. Types'
  BY <1>0, <1>1, <1>2 DEF IInv, Types, TypeOK, Places
<1>4. Counted' /\ Blameless' /\ Guarded'
  BY <1>0, <1>1 DEF IInv, Counted, Blameless, Guarded
<1>5. InHand'
  BY <1>0 DEF IInv, InHand, AtWork
<1>6. Shown'
  BY <1>0, <1>1 DEF IInv, Shown, Bare
<1> QED BY <1>0, <1>3, <1>4, <1>5, <1>6 DEF IInv

LEMMA HandleKeeps == IInv /\ Handle => IInv'
<1> SUFFICES ASSUME IInv, Handle PROVE IInv'
  OBVIOUS
<1>1. Still /\ count' = count /\ tool' = tool /\ pc \notin {"closing", "record", "done"}
  BY DEF Handle, Still, Goto, admin
<1>2. calls' = calls /\ session' = session /\ offered' = offered
  BY DEF Handle
<1>3. Outright \in {"none", "success", "unsupported"}
  BY DEF Outright
<1>4. \A label \in Classes \cup {"threw"} : Classification(label) \in Classes
  <2>1. request.class \in Classes \cup {"null"}
    BY DEF IInv, Types, TypeOK, Request
  <2> QED BY <2>1 DEF Classification, Classes
<1>5. CASE Outright # "none"
  <2>1. class' = class /\ pc' = "record" /\ Bare(reply')
    BY <1>3, <1>5, BareReplies DEF Handle, Answer, Goto
  <2> QED BY <1>1, <1>2, <2>1, BareStep DEF IInv, Types, TypeOK, Places, AtWork
<1>6. CASE Outright = "none"
  <2>1. PICK label \in Classes \cup {"threw"} :
          /\ class' = Classification(label)
          /\ \/ pc' = "open" /\ reply' = reply
             \/ pc' = "record" /\ Bare(reply')
    BY <1>6, BareReplies DEF Handle, Answer, Goto
  <2> QED BY <1>1, <1>2, <1>4, <2>1, BareStep DEF IInv, Types, TypeOK, Places, AtWork
<1> QED BY <1>5, <1>6

LEMMA OpenKeeps == IInv /\ Open => IInv'
<1> SUFFICES ASSUME IInv, Open PROVE IInv'
  OBVIOUS
<1>1. /\ Still /\ count' = count /\ tool' = tool /\ calls' = calls /\ class' = class
      /\ pc = "open" /\ pc' \in {"ask", "closing"}
  BY DEF Open, Still, Goto, admin
<1>2. session' \in {"none", "open"} /\ (offered' = offered \/ offered' = Openable)
      /\ (reply' = reply \/ reply' = Threw)
  BY DEF Open
<1> QED BY <1>1, <1>2, BareStep, BareReplies DEF IInv, Types, TypeOK, Places, AtWork, Openable

LEMMA AskKeeps == IInv /\ Ask => IInv'
<1> SUFFICES ASSUME IInv, Ask PROVE IInv'
  OBVIOUS
<1>1. /\ Still /\ count' = count /\ tool' = tool /\ class' = class
      /\ pc = "ask" /\ pc' \in {"closing", "final", "call"}
      /\ session' = session /\ offered' = offered /\ (reply' = reply \/ reply' = Threw)
  BY DEF Ask, Still, Goto, admin, Throw, Over
<1>2. calls' \in Seq(Call)
  <2>1. CASE calls' = <<>>
    BY <2>1
  <2>2. ASSUME NEW turn \in BoundedSeq(Forms, MaxParallel),
               calls' = [k \in DOMAIN turn |-> [id |-> IdOf(turn[k], k), form |-> turn[k]]]
        PROVE  calls' \in Seq(Call)
    <3>1. PICK n \in 0..MaxParallel : turn \in [1..n -> Forms]
      BY <2>2 DEF BoundedSeq, SeqOf
    <3>2. n \in Nat /\ DOMAIN turn = 1..n /\ \A k \in 1..n : turn[k] \in Form
      BY <3>1, AssistantAssumption
    <3>3. \A k \in 1..n : IdOf(turn[k], k) \in Nat
      <4>1. count.calls \in Nat
        BY Count DEF IInv, Types, Counters
      <4> QED BY <3>2, <4>1 DEF IdOf
    <3>4. calls' \in [1..n -> Call]
      BY <2>2, <3>2, <3>3 DEF Call
    <3> QED BY <3>2, <3>4
  <2> QED BY <2>1, <2>2 DEF Ask, Throw, Over
<1> QED BY <1>1, <1>2, BareStep, BareReplies DEF IInv, Types, TypeOK, Places, AtWork

\* A call is counted, with what is known of it then.
LEMMA CallCounted ==
  ASSUME IInv, NEW S \in SUBSET (Counters \ {"calls"}), count' = Bump({"calls"} \cup S),
         count.calls < MaxToolCalls
  PROVE  /\ count' \in [Counters -> 0..MaxToolCalls]
         /\ count'["calls"] = count["calls"] + 1
         /\ \A c \in Counters : /\ count[c] <= count'[c] /\ count'[c] <= count'["calls"]
                                /\ c \notin {"calls"} \cup S => count'[c] < count'["calls"]
<1>1. /\ DOMAIN count' = Counters /\ count' = [c \in Counters |-> count'[c]]
      /\ \A c \in Counters : count'[c] = IF c \in {"calls"} \cup S THEN count[c] + 1 ELSE count[c]
  BY Bumped DEF IInv, Types
<1>2. \A c \in Counters : count[c] \in Nat /\ count[c] <= count["calls"]
  BY Count DEF IInv, Types, Counted
<1>3. "calls" \in Counters /\ MaxToolCalls \in Nat
  BY AssistantAssumption DEF Counters
<1>4. \A c \in Counters : count'[c] \in 0..MaxToolCalls
  BY <1>1, <1>2, <1>3
<1>5. count' \in [Counters -> 0..MaxToolCalls]
  BY <1>1, <1>4
<1>6. count'["calls"] = count["calls"] + 1
  BY <1>1, <1>3
<1>7. ASSUME NEW c \in Counters
      PROVE  /\ count[c] <= count'[c] /\ count'[c] <= count'["calls"]
             /\ c \notin {"calls"} \cup S => count'[c] < count'["calls"]
  <2>1. count[c] \in Nat /\ count["calls"] \in Nat /\ count[c] <= count["calls"]
    BY <1>2, <1>3
  <2>2. CASE c \in {"calls"} \cup S
    <3>1. count'[c] = count[c] + 1
      BY <1>1, <2>2
    <3> QED BY <1>6, <2>1, <2>2, <3>1
  <2>3. CASE c \notin {"calls"} \cup S
    <3>1. count'[c] = count[c]
      BY <1>1, <2>3
    <3> QED BY <1>6, <2>1, <2>3, <3>1
  <2> QED BY <2>2, <2>3
<1> QED BY <1>5, <1>6, <1>7

LEMMA KindsAndMarks ==
  ASSUME NEW name
  PROVE  /\ Kind(name) \subseteq {"describe", "query"}
         /\ Mark(name, "unknown") = "unsupported"
         /\ Mark(name, "failed") = "failed" /\ Mark(name, "denied") = "denied"
         /\ Mark(name, "ok") = IF name = "describe_database" THEN "discovery" ELSE "data"
<1>1. Kind(name) \subseteq {"describe", "query"}
  BY DEF Kind
<1>2. Mark(name, "unknown") = "unsupported"
  BY DEF Mark
<1>3. Mark(name, "failed") = "failed" /\ Mark(name, "denied") = "denied"
  BY DEF Mark
<1>4. Mark(name, "ok") = IF name = "describe_database" THEN "discovery" ELSE "data"
  BY DEF Mark
<1> QED BY <1>1, <1>2, <1>3, <1>4

LEMMA NextCallKeeps == IInv /\ NextCall => IInv'
<1> SUFFICES ASSUME IInv, NextCall PROVE IInv'
  OBVIOUS
<1> DEFINE call == Head(calls)
           name == call.form.name
<1>0. /\ Still /\ class' = class /\ session' = session /\ offered' = offered /\ pc = "call"
      /\ pc' \in {"call", "ask", "closing", "actor"}
  BY DEF NextCall, Still, Goto, admin, Throw, Over, Outputs
<1>1. CASE calls = <<>>
  <2>1. pc' = "ask" /\ count' = count /\ tool' = tool /\ calls' = calls /\ reply' = reply
    BY <1>1 DEF NextCall, Goto
  <2> QED BY <1>0, <2>1, BareStep DEF IInv, Types, TypeOK, Places, AtWork
<1>2. CASE Throw /\ UNCHANGED <<count, tool>>
  BY <1>0, <1>2, BareStep, BareReplies DEF IInv, Types, TypeOK, Places, AtWork, Throw, Over, Goto
<1>3. CASE calls # <<>> /\ ~(Throw /\ UNCHANGED <<count, tool>>)
  <2>1. count.calls < MaxToolCalls /\ call \in Call /\ Tail(calls) \in Seq(Call)
    <3>1. count["calls"] \in Nat /\ MaxToolCalls \in Nat
      BY Count DEF IInv, Types, Counters
    <3>2. ~(count.calls >= MaxToolCalls)
      BY <1>3 DEF NextCall
    <3>3. call \in Call /\ Tail(calls) \in Seq(Call)
      BY <1>3 DEF IInv, Types
    <3> QED BY <3>1, <3>2, <3>3
  <2>2. /\ Kind(name) \subseteq {"describe", "query"}
        /\ Mark(name, "unknown") = "unsupported" /\ Mark(name, "failed") = "failed"
    BY KindsAndMarks
  <2>3. PICK S \in SUBSET {"describe", "query", "unsupported", "failed"} :
          /\ count' = Bump({"calls"} \cup S)
          /\ \/ pc' = pc /\ calls' = Tail(calls) /\ tool' = tool
             \/ /\ pc' = "actor" /\ calls' = calls /\ tool' = [NoTool EXCEPT !.name = name]
                /\ S \subseteq {"describe", "query"} /\ name \in offered
    <3>1. CASE Refused(name)
      <4>1. count' = Bump({"calls"} \cup ({"unsupported"} \cup Kind(name)))
        <5>1. {"calls", "unsupported"} \cup Kind(name) = {"calls"} \cup ({"unsupported"} \cup Kind(name))
          OBVIOUS
        <5> QED BY <5>1, <1>3, <2>2, <3>1 DEF NextCall
      <4> QED BY <1>3, <2>2, <3>1, <4>1 DEF NextCall, Outputs
    <3>2. CASE ~Refused(name) /\ call.form.args = "invalid"
      <4>1. count' = Bump({"calls"} \cup ({"failed"} \cup Kind(name)))
        <5>1. {"calls", "failed"} \cup Kind(name) = {"calls"} \cup ({"failed"} \cup Kind(name))
          OBVIOUS
        <5> QED BY <5>1, <1>3, <2>2, <3>2 DEF NextCall
      <4> QED BY <1>3, <2>2, <3>2, <4>1 DEF NextCall, Outputs
    <3>3. CASE ~Refused(name) /\ call.form.args # "invalid"
      <4>1. /\ count' = Bump({"calls"} \cup Kind(name)) /\ tool' = [NoTool EXCEPT !.name = name]
            /\ pc' = "actor" /\ calls' = calls
        BY <1>3, <3>3 DEF NextCall, Goto
      <4> QED BY <2>2, <3>3, <4>1 DEF Refused
    <3> QED BY <3>1, <3>2, <3>3
  <2>4. /\ count' \in [Counters -> 0..MaxToolCalls]
        /\ count'["calls"] = count["calls"] + 1
        /\ \A c \in Counters : /\ count[c] <= count'[c] /\ count'[c] <= count'["calls"]
                               /\ c \notin {"calls"} \cup S => count'[c] < count'["calls"]
    <3>1. S \in SUBSET (Counters \ {"calls"})
      BY DEF Counters
    <3> QED BY <2>1, <2>3, <3>1, CallCounted
  <2>5. /\ Present'
        /\ \A d : (Allowed(d) => Allowed(d)') /\ (Accounted(d) => Accounted(d)')
        /\ held' \in Moment /\ held' = held /\ evidence' = evidence /\ log' = log
        /\ row' = row /\ request' = request /\ config' = config /\ user' = user
        /\ changes' = changes
    BY <1>0, StillKeeps
  <2>6. reply' = reply /\ reply.text # "model"
    BY <1>0, <1>3 DEF NextCall, Outputs, IInv, Shown
  <2>7. tool' \in Tool /\ (tool'.data = {} \/ tool' = tool)
        /\ (pc' = "actor" => tool'.name \in Tools)
    <3>1. NoTool \in Tool /\ NoTool.data = {}
      BY DEF NoTool, Tool, NoUser, User, Roles
    <3>2. name \in offered => name \in Tools
      BY DEF IInv, Types, TypeOK
    <3>3. tool \in Tool
      BY DEF IInv, Types
    <3>4. CASE tool' = tool /\ pc' = pc
      BY <1>0, <3>3, <3>4
    <3>5. CASE tool' = [NoTool EXCEPT !.name = name] /\ name \in offered
      <4>1. tool' = [name |-> name, actor |-> NoUser, outcome |-> "none", data |-> {}]
        BY <3>5 DEF NoTool
      <4> QED BY <3>1, <3>2, <3>5, <4>1 DEF Tool, NoTool
    <3> HIDE DEF name
    <3> QED BY <2>3, <3>4, <3>5
  <2>8. Types'
    <3>1. pc' \in Places /\ calls' \in Seq(Call)
      BY <1>0, <2>1, <2>3 DEF Places, IInv, Types
    <3>2. tool'.name \in Tools \cup {"none"} /\ tool'.actor \in User
      BY <2>7 DEF Tool
    <3> QED BY <1>0, <2>4, <2>5, <2>6, <2>7, <3>1, <3>2 DEF IInv, Types, TypeOK, Places
  <2>9. Counted'
    <3>1. Marks \subseteq Counters
      BY DEF Marks, Counters
    <3>2. pc' \in AtWork => pc' = "actor" /\ S \subseteq {"describe", "query"} /\ calls' # <<>>
      BY <1>0, <1>3, <2>3 DEF AtWork
    <3>3. S \subseteq {"describe", "query"} => \A c \in Marks : c \notin {"calls"} \cup S
      BY DEF Marks
    <3>4. pc' \in AtWork => \A c \in Marks : count'[c] < count'["calls"]
      BY <3>1, <3>2, <3>3, <2>4
    <3>5. pc' \in AtWork => tool'.name \in Tools
      BY <2>7, <3>2
    <3>6. \A c \in Counters : count'[c] <= count'["calls"]
      BY <2>4
    <3> QED BY <3>2, <3>4, <3>5, <3>6 DEF Counted
  <2>10. Blameless'
    <3>1. /\ "denied" \in Counters /\ "failed" \in Counters
          /\ \A c \in Counters : count[c] \in Nat /\ count'[c] \in Nat
      BY <2>4, Count DEF Counters, IInv, Types
    <3>2. count["denied"] <= count'["denied"] /\ count["failed"] <= count'["failed"]
      BY <3>1, <2>4
    <3>3. /\ count["denied"] \in Nat /\ count'["denied"] \in Nat
          /\ count["failed"] \in Nat /\ count'["failed"] \in Nat
      BY <3>1
    <3>4. count'["denied"] = 0 /\ count'["failed"] = 0 => count["denied"] = 0 /\ count["failed"] = 0
      BY <3>2, <3>3
    <3> QED BY <2>5, <3>4 DEF IInv, Blameless
  <2>11. InHand' /\ Shown' /\ Guarded'
    BY <1>0, <2>3, <2>5, <2>6, <2>7 DEF IInv, InHand, Shown, Guarded
  <2> QED BY <2>5, <2>8, <2>9, <2>10, <2>11 DEF IInv
<1> QED BY <1>1, <1>2, <1>3
-----------------------------------------------------------------------------
\* While a call is at work only the call in hand changes.
Steady ==
  /\ Still /\ pc \in AtWork /\ pc' \in AtWork
  /\ count' = count /\ calls' = calls /\ class' = class /\ session' = session
  /\ offered' = offered /\ reply' = reply

LEMMA WorkStep ==
  ASSUME IInv, Steady, tool' \in Tool, tool'.name = tool.name, InHand'
  PROVE  IInv'
<1>0. /\ Present'
      /\ \A d : (Allowed(d) => Allowed(d)') /\ (Accounted(d) => Accounted(d)')
      /\ held' \in Moment /\ held' = held /\ evidence' = evidence /\ log' = log
      /\ row' = row /\ request' = request /\ config' = config /\ user' = user
      /\ changes' = changes
  BY StillKeeps DEF Steady
<1>1. reply.text # "model" /\ pc # "done"
  BY DEF IInv, Shown, Steady, AtWork
<1>2. tool'.name \in Tools \cup {"none"} /\ tool'.actor \in User /\ pc' \in Places
  BY DEF Tool, Steady, AtWork, Places
<1>3. Types'
  BY <1>0, <1>2 DEF IInv, Types, TypeOK, Places, Steady
<1>4. Counted' /\ Blameless' /\ Guarded'
  BY <1>0, <1>1 DEF IInv, Counted, Blameless, Guarded, Steady
<1>5. Shown'
  <2>1. pc' # "done" /\ reply' = reply
    BY DEF Steady, AtWork
  <2> QED BY <1>0, <1>1, <2>1 DEF IInv, Shown
<1> QED BY <1>0, <1>3, <1>4, <1>5 DEF IInv

LEMMA EndsKeeps ==
  ASSUME IInv, Steady, NEW outcome \in {"denied", "failed"}, Ends(outcome)
  PROVE  IInv'
<1>1. pc' = "recordFailure" /\ tool' = [tool EXCEPT !.outcome = outcome]
  BY DEF Ends, Goto
<1>2. tool \in Tool /\ \A d \in tool.data : Allowed(d)
  BY DEF IInv, Types, InHand
<1>3. tool' \in Tool /\ tool'.name = tool.name /\ tool'.data = tool.data /\ tool'.outcome = outcome
  BY <1>1, <1>2 DEF Tool
<1>4. \A d : Allowed(d) => Allowed(d)'
  BY StillKeeps DEF Steady
<1>5. InHand'
  BY <1>1, <1>2, <1>3, <1>4 DEF InHand
<1> QED BY <1>3, <1>5, WorkStep

LEMMA GivesKeeps ==
  ASSUME IInv, Steady, NEW data \in SUBSET Fact, \A d \in data : Allowed(d), Gives(data)
  PROVE  IInv'
<1>1. pc' = "recordSuccess" /\ tool' = [tool EXCEPT !.outcome = "ok", !.data = data]
  BY DEF Gives, Goto
<1>2. tool \in Tool
  BY DEF IInv, Types
<1>3. tool' \in Tool /\ tool'.name = tool.name /\ tool'.data = data
  BY <1>1, <1>2 DEF Tool
<1>4. \A d : Allowed(d) => Allowed(d)'
  BY StillKeeps DEF Steady
<1>5. InHand'
  BY <1>1, <1>3, <1>4 DEF InHand
<1> QED BY <1>3, <1>5, WorkStep

LEMMA ReadActorKeeps == IInv /\ ReadActor => IInv'
<1> SUFFICES ASSUME IInv, ReadActor PROVE IInv'
  OBVIOUS
<1>1. Steady
  BY DEF ReadActor, Steady, Still, Ends, Goto, AtWork, admin
<1>2. CASE Ends("failed") \/ Ends("denied")
  BY <1>1, <1>2, EndsKeeps
<1>3. CASE pc' = "require" /\ tool' = [tool EXCEPT !.actor = row]
  <2>1. tool \in Tool /\ row \in User /\ \A d \in tool.data : Allowed(d)
    BY DEF IInv, Types, TypeOK, InHand
  <2>2. tool' \in Tool /\ tool'.name = tool.name /\ tool'.data = tool.data /\ tool'.actor = row
    BY <1>3, <2>1 DEF Tool
  <2>3. row \in held.users /\ held' = held
    BY StillKeeps, <1>1 DEF IInv, Present, Steady, AtWork
  <2>4. \A d : Allowed(d) => Allowed(d)'
    BY StillKeeps, <1>1 DEF Steady
  <2>5. InHand'
    BY <1>3, <2>1, <2>2, <2>3, <2>4 DEF InHand
  <2> QED BY <1>1, <2>2, <2>5, WorkStep
<1> QED BY <1>2, <1>3 DEF ReadActor, Goto

LEMMA RequireKeeps == IInv /\ Require => IInv'
<1> SUFFICES ASSUME IInv, Require PROVE IInv'
  OBVIOUS
<1>1. Steady
  BY DEF Require, Steady, Still, Ends, Goto, AtWork, admin
<1>2. CASE Ends("failed") \/ Ends("denied")
  BY <1>1, <1>2, EndsKeeps
<1>3. CASE pc' = "operate" /\ tool' = tool /\ ResourceOf(tool.name) \in Effective(row)
  <2>1. tool \in Tool /\ Effective(row) \subseteq held.grants
    BY <1>1 DEF IInv, Types, Present, Steady, AtWork
  <2>2. held' = held /\ \A d : Allowed(d) => Allowed(d)'
    BY StillKeeps, <1>1 DEF Steady
  <2>3. pc = "require"
    BY DEF Require
  <2>4. InHand'
    BY <1>3, <2>1, <2>2, <2>3 DEF InHand, IInv
  <2> QED BY <1>1, <1>3, <2>1, <2>4, WorkStep
<1> QED BY <1>2, <1>3 DEF Require, Goto

\* What a list shows: an explorer of the turn asked for a relation the turn permits.
LEMMA ListedIsAllowed ==
  ASSUME IInv, pc = "operate", tool.name \in Tools \ Reports, tool.actor.role \in Explorers,
         NEW r \in Relations \cap Effective(row)
  PROVE  Listed(r) \in Fact /\ Allowed(Listed(r))
<1>1. /\ tool.actor \in held.users /\ Explore \in held.grants /\ r \in held.grants
  BY ToolNames DEF IInv, InHand, Present
<1>2. r \in Resources /\ Explore \in Resources
  BY ToolNames
<1>3. Listed(r) = [by |-> tool.name, needs |-> {Explore, r}, dept |-> "all"]
  BY DEF Listed, Datum
<1>4. Listed(r) \in Fact
  BY <1>2, <1>3 DEF Fact
<1>5. Listed(r).by = tool.name /\ Listed(r).needs = {Explore, r} /\ Listed(r).dept = "all"
  BY <1>3
<1>6. "all" \in ScopesOf(tool.actor) /\ tool.name # "router"
  BY ToolNames DEF ScopesOf, Explorers, CrossDepartment
<1>7. Allowed(Listed(r))
  BY <1>1, <1>5, <1>6 DEF Allowed
<1> QED BY <1>4, <1>7

\* What a report shows comes from where its reader may look.
LEMMA ScopeIsTheirs ==
  ASSUME NEW u \in User, NEW t \in Reports
  PROVE  /\ Scope(u, t) \in Departments \cup {"null", "all"}
         /\ {ReportOf[t]} # {"company.sales"} => Scope(u, t) \in ScopesOf(u)
<1>1. u.dept \in Departments \cup {"null"}
  BY DEF User
<1>2. ReportOf[t] = "company.sales" <=> t = "get_sales_summary"
  BY ToolNames DEF ReportOf
<1>3. {ReportOf[t]} # {"company.sales"} => t # "get_sales_summary"
  BY <1>2
<1> QED BY <1>1, <1>3 DEF Scope, ScopesOf

LEMMA ReportIsAllowed ==
  ASSUME IInv, pc = "operate", tool.name \in Reports, Scope(tool.actor, tool.name) # "null",
         NEW d, d = Datum(tool.name, {ReportOf[tool.name]}, Scope(tool.actor, tool.name))
  PROVE  d \in Fact /\ Allowed(d)
<1>1. tool.actor \in held.users /\ tool.actor \in User /\ ReportOf[tool.name] \in held.grants
  BY ToolNames DEF IInv, InHand, Types, TypeOK
<1>2. ReportOf[tool.name] \in Resources /\ tool.name \in Tools
      /\ tool.name \notin {"describe_database", "query_database", "router"}
  BY ToolNames
<1>3. /\ Scope(tool.actor, tool.name) \in Departments \cup {"null", "all"}
      /\ {ReportOf[tool.name]} # {"company.sales"} => Scope(tool.actor, tool.name) \in ScopesOf(tool.actor)
  BY <1>1, ScopeIsTheirs
<1>4. d \in Fact
  BY <1>2, <1>3 DEF Fact, Datum
<1>5. d.by = tool.name /\ d.needs = {ReportOf[tool.name]} /\ d.dept = Scope(tool.actor, tool.name)
  BY DEF Datum
<1>6. Allowed(d)
  BY <1>1, <1>2, <1>3, <1>5 DEF Allowed
<1> QED BY <1>4, <1>6

LEMMA OperateKeeps == IInv /\ Operate => IInv'
<1> SUFFICES ASSUME IInv, Operate PROVE IInv'
  OBVIOUS
<1>1. Steady
  BY DEF Operate, Steady, Still, Ends, Gives, Goto, AtWork, admin
<1>2. pc = "operate" /\ tool.name \in Tools /\ tool \in Tool
  BY DEF Operate, IInv, Counted, AtWork, Types
<1>3. CASE Ends("failed") \/ Ends("denied")
  BY <1>1, <1>3, EndsKeeps
<1>4. CASE tool.name \in Reports /\ ~(Ends("failed") \/ Ends("denied"))
  <2>1. PICK d : d = Datum(tool.name, {ReportOf[tool.name]}, Scope(tool.actor, tool.name))
    OBVIOUS
  <2>2. Scope(tool.actor, tool.name) # "null" /\ Gives({d})
    BY <1>4, <2>1 DEF Operate
  <2>3. d \in Fact /\ Allowed(d)
    BY <1>2, <1>4, <2>1, <2>2, ReportIsAllowed
  <2> QED BY <1>1, <2>2, <2>3, GivesKeeps
<1>5. CASE tool.name \notin Reports /\ ~(Ends("failed") \/ Ends("denied"))
  <2>1. tool.actor.role \in Explorers
    BY <1>5 DEF Operate
  <2>2. \A r \in Relations \cap Effective(row) : Listed(r) \in Fact /\ Allowed(Listed(r))
    BY <1>2, <1>5, <2>1, ListedIsAllowed
  <2>3. CASE tool.name = "describe_database"
    <3>1. PICK data : data = {Listed(r) : r \in Relations \cap Effective(row)}
      OBVIOUS
    <3>2. Gives(data)
      BY <1>5, <2>1, <2>3, <3>1 DEF Operate
    <3>3. data \in SUBSET Fact /\ \A d \in data : Allowed(d)
      BY <2>2, <3>1
    <3> QED BY <1>1, <3>2, <3>3, GivesKeeps
  <2>4. CASE tool.name # "describe_database"
    <3>1. PICK r \in Relations \cap Effective(row) :
            pc' = "query" /\ tool' = [tool EXCEPT !.data = {Listed(r)}]
      BY <1>5, <2>1, <2>4 DEF Operate, Goto
    <3>2. PICK d : d = Listed(r)
      OBVIOUS
    <3>3. d \in Fact /\ Allowed(d) /\ tool' = [tool EXCEPT !.data = {d}]
      BY <2>2, <3>1, <3>2
    <3>4. /\ tool' \in Tool /\ tool'.name = tool.name /\ tool'.data = {d} /\ tool'.actor = tool.actor
      BY <1>2, <3>3 DEF Tool
    <3>5. held' = held /\ \A e : Allowed(e) => Allowed(e)'
      BY StillKeeps, <1>1 DEF Steady
    <3>6. InHand'
      BY <1>2, <3>1, <3>3, <3>4, <3>5 DEF InHand, IInv
    <3> QED BY <1>1, <3>4, <3>6, WorkStep
  <2> QED BY <2>3, <2>4
<1> QED BY <1>3, <1>4, <1>5

LEMMA QueryKeeps == IInv /\ Query => IInv'
<1> SUFFICES ASSUME IInv, Query PROVE IInv'
  OBVIOUS
<1>1. Steady
  BY DEF Query, Steady, Still, Ends, Gives, Goto, AtWork, admin
<1>2. CASE Ends("failed")
  BY <1>1, <1>2, EndsKeeps
<1>3. CASE Gives(tool.data)
  <2>1. PICK data : data = tool.data
    OBVIOUS
  <2>2. data \in SUBSET Fact /\ \A d \in data : Allowed(d)
    BY <2>1 DEF IInv, Types, Tool, InHand
  <2> QED BY <1>1, <1>3, <2>1, <2>2, GivesKeeps
<1> QED BY <1>2, <1>3 DEF Query
-----------------------------------------------------------------------------
\* A call that returns is marked once, and stays no further than the calls.
LEMMA Marked ==
  ASSUME IInv, pc \in AtWork, NEW m \in Marks, count' = Bump({m})
  PROVE  /\ count' \in [Counters -> 0..MaxToolCalls]
         /\ count'["calls"] = count["calls"] /\ count'[m] = count[m] + 1
         /\ \A c \in Counters : count'[c] <= count'["calls"]
         /\ \A c \in Counters \ {m} : count'[c] = count[c]
<1>1. /\ DOMAIN count' = Counters /\ count' = [c \in Counters |-> count'[c]]
      /\ \A c \in Counters : count'[c] = IF c \in {m} THEN count[c] + 1 ELSE count[c]
  BY Bumped DEF IInv, Types
<1>2. /\ \A c \in Counters : count[c] \in 0..MaxToolCalls /\ count[c] <= count["calls"]
      /\ count[m] < count["calls"] /\ MaxToolCalls \in Nat
  BY Count DEF IInv, Types, Counted
<1>3. m \in Counters /\ m # "calls" /\ "calls" \in Counters
  BY DEF Marks, Counters
<1>4. count'["calls"] = count["calls"] /\ count'[m] = count[m] + 1
      /\ \A c \in Counters \ {m} : count'[c] = count[c]
  BY <1>1, <1>3
<1>5. count[m] \in 0..MaxToolCalls /\ count["calls"] \in 0..MaxToolCalls /\ count[m] < count["calls"]
  BY <1>2, <1>3
<1>6. count[m] + 1 <= count["calls"] /\ count[m] + 1 \in 0..MaxToolCalls
  BY <1>2, <1>5
<1>7. \A c \in Counters : count'[c] \in 0..MaxToolCalls /\ count'[c] <= count'["calls"]
  BY <1>2, <1>4, <1>6
<1>8. count' \in [Counters -> 0..MaxToolCalls]
  BY <1>1, <1>7
<1> QED BY <1>4, <1>7, <1>8

\* The call is over: what it gave is shown, and it is nobody's call any more.
LEMMA ReturnsKeeps ==
  ASSUME IInv, UNCHANGED admin, UNCHANGED held, class' = class, session' = session,
         offered' = offered, reply' = reply,
         pc \in AtWork, NEW outcome \in {"ok", "denied", "failed"}, NEW data, Returns(outcome, data),
         data \subseteq Fact, log' \subseteq EventType, log \subseteq log', Blameless',
         \A d \in data : Allowed(d) /\ Accounted(d)'
  PROVE  IInv'
<1>1. /\ pc' = "call" /\ evidence' = evidence \cup data /\ calls' = Tail(calls) /\ tool' = NoTool
      /\ count' = Bump({Mark(tool.name, outcome)})
  BY DEF Returns, Goto
<1>2. Mark(tool.name, outcome) \in Marks
  BY KindsAndMarks DEF Marks
<1>3. /\ count' \in [Counters -> 0..MaxToolCalls]
      /\ \A c \in Counters : count'[c] <= count'["calls"]
  BY <1>1, <1>2, Marked
<1>4. /\ held' = held /\ row' = row /\ request' = request /\ config' = config /\ user' = user
      /\ changes' = changes
  BY DEF admin
<1>5. \A d : (Allowed(d) => Allowed(d)') /\ (Accounted(d) => Accounted(d)')
  BY <1>4, StaysAllowed, StaysAccounted
<1>6. NoTool \in Tool /\ NoTool.data = {} /\ NoTool.name = "none" /\ NoTool.actor = NoUser
      /\ NoUser \in User
  BY DEF NoTool, Tool, NoUser, User, Roles
<1>7. Tail(calls) \in Seq(Call)
  BY DEF IInv, Types, Counted
<1>8. reply.text # "model" /\ pc # "done" /\ pc # "queued"
  BY DEF IInv, Shown, AtWork
<1>9. Types'
  BY <1>1, <1>3, <1>4, <1>6, <1>7 DEF IInv, Types, TypeOK
<1>10. Counted'
  BY <1>1, <1>3 DEF Counted, AtWork
<1>11. Present'
  BY <1>1, <1>4, <1>8 DEF IInv, Present
<1>12. InHand'
  BY <1>1, <1>6 DEF InHand
<1>13. Shown'
  BY <1>1, <1>5, <1>8 DEF IInv, Shown
<1>14. Guarded'
  BY <1>8 DEF Guarded
<1> QED BY <1>9, <1>10, <1>11, <1>12, <1>13, <1>14 DEF IInv

LEMMA RecordSuccessKeeps == IInv /\ RecordSuccess => IInv'
<1> SUFFICES ASSUME IInv, RecordSuccess PROVE IInv'
  OBVIOUS
<1>1. /\ UNCHANGED admin /\ UNCHANGED held /\ class' = class /\ session' = session
      /\ offered' = offered /\ reply' = reply /\ pc = "recordSuccess"
  BY DEF RecordSuccess
<1>2. CASE log' = log \cup {Event("tool", "success", tool.data)} /\ Returns("ok", tool.data)
  <2>1. PICK data : data = tool.data
    OBVIOUS
  <2>2. data \subseteq Fact /\ \A d \in data : Allowed(d)
    BY <2>1 DEF IInv, Types, Tool, InHand
  <2>3. PICK e : e = Event("tool", "success", data)
    OBVIOUS
  <2>4. e.type = "tool" /\ e.outcome = "success" /\ e.data = data /\ e \in EventType
    BY <2>2, <2>3 DEF Event, EventType
  <2>5. log' = log \cup {e} /\ log \subseteq EventType
    BY <1>2, <2>1, <2>3 DEF IInv, Types
  <2>6. \A d \in data : Accounted(d)'
    BY <2>4, <2>5 DEF Accounted
  <2>7. Blameless'
    <3>1. Mark(tool.name, "ok") \in {"discovery", "data"}
      BY KindsAndMarks
    <3>2. PICK m \in {"discovery", "data"} : m = Mark(tool.name, "ok")
      BY <3>1
    <3>3. count' = Bump({m}) /\ m \in Marks /\ pc \in AtWork
      BY <1>1, <1>2, <3>2 DEF Returns, Marks, AtWork
    <3>4. \A c \in Counters \ {m} : count'[c] = count[c]
      BY <3>3, Marked
    <3>5. count'["denied"] = count["denied"] /\ count'["failed"] = count["failed"]
      BY <3>2, <3>4 DEF Counters
    <3> QED BY <2>4, <2>5, <3>5 DEF IInv, Blameless
  <2> QED BY <1>1, <1>2, <2>1, <2>2, <2>5, <2>4, <2>6, <2>7, ReturnsKeeps DEF AtWork
<1>3. CASE AuditFails /\ log' = log
  <2>1. Steady /\ Ends("failed")
    BY <1>1, <1>3 DEF AuditFails, Steady, Still, Ends, Goto, AtWork
  <2> QED BY <2>1, EndsKeeps
<1> QED BY <1>2, <1>3 DEF RecordSuccess

LEMMA RecordFailureKeeps == IInv /\ RecordFailure => IInv'
<1> SUFFICES ASSUME IInv, RecordFailure PROVE IInv'
  OBVIOUS
<1>1. /\ UNCHANGED admin /\ UNCHANGED held /\ class' = class /\ session' = session
      /\ offered' = offered /\ reply' = reply /\ pc = "recordFailure" /\ pc \in AtWork
  BY DEF RecordFailure, AtWork
<1>2. PICK outcome \in {"denied", "failed"} : outcome = tool.outcome
  BY <1>1 DEF IInv, InHand
<1>3. Returns(outcome, {})
  BY <1>2 DEF RecordFailure
<1>4. log \subseteq log' /\ log' \subseteq EventType
  BY <1>2 DEF RecordFailure, Event, EventType, IInv, Types
<1>5. Blameless'
  <2>1. Mark(tool.name, outcome) = outcome /\ outcome \in Marks
    BY KindsAndMarks DEF Marks
  <2>2. count' = Bump({outcome})
    BY <1>3, <2>1 DEF Returns
  <2>3. count'[outcome] = count[outcome] + 1
    BY <1>1, <2>1, <2>2, Marked
  <2>4. count[outcome] \in Nat
    BY Count DEF IInv, Types, Counters
  <2>5. count'[outcome] # 0
    BY <2>3, <2>4
  <2> QED BY <2>5 DEF Blameless
<1> QED BY <1>1, <1>3, <1>4, <1>5, ReturnsKeeps

-----------------------------------------------------------------------------
LEMMA FinalKeeps == IInv /\ Final => IInv'
<1> SUFFICES ASSUME IInv, Final PROVE IInv'
  OBVIOUS
<1>1. /\ Still /\ pc = "final" /\ pc' = "closing" /\ calls' = <<>>
      /\ class' = class /\ session' = session /\ offered' = offered /\ count' = count /\ tool' = tool
  BY DEF Final, Over, Goto, Still, admin
<1>2. CASE Bare(reply')
  BY <1>1, <1>2, BareStep DEF IInv, Types, TypeOK, Places, AtWork
<1>3. CASE ~Bare(reply')
  <2>1. /\ GuardedReason = "none"
        /\ \/ SchemaOnly /\ Answer("schema", "success", evidence)
           \/ /\ ~SchemaOnly
              /\ \E words \in {{}} \cup {{d} : d \in evidence}, suspicious \in BOOLEAN :
                   /\ count.data > 0 => Grounded(words, suspicious)
                   /\ \/ Answer("model", "success", evidence)
                      \/ Answer("model", "unsupported", evidence)
    BY <1>3, BareReplies DEF Final, Answer
  <2>2. PICK o \in {"success", "unsupported"}, t \in {"schema", "model"} :
          reply' = [text |-> t, outcome |-> o, data |-> evidence]
    BY <2>1 DEF Answer
  <2>3. evidence \subseteq Fact
    BY DEF IInv, Types
  <2>4. reply' \in ReplyType /\ reply'.data = evidence /\ reply'.text = t
    BY <2>2, <2>3 DEF ReplyType
  <2>5. /\ Present'
        /\ \A d : (Allowed(d) => Allowed(d)') /\ (Accounted(d) => Accounted(d)')
        /\ held' \in Moment /\ held' = held /\ evidence' = evidence /\ log' = log
        /\ row' = row /\ request' = request /\ config' = config /\ user' = user
        /\ changes' = changes
    BY <1>1, StillKeeps
  <2>6. Types'
    <3>1. pc' \in Places /\ calls' \in Seq(Call)
      BY <1>1 DEF Places
    <3>2. reply'.text \in {"none", "fixed", "model", "schema", "report"}
      BY <2>4
    <3> QED BY <1>1, <2>4, <2>5, <3>1, <3>2 DEF IInv, Types, TypeOK, Places
  <2>7. Counted' /\ Blameless' /\ InHand'
    BY <1>1, <2>5 DEF IInv, Counted, Blameless, InHand, AtWork
  <2>8. Shown'
    BY <1>1, <2>4, <2>5 DEF IInv, Shown
  <2>9. Guarded'
    <3> SUFFICES ASSUME t = "model", class = "COMPANY_CLEAR" \/ count.calls > 0
                 PROVE  /\ \E d \in evidence : d.by # "describe_database"
                        /\ \A e \in log : e.type = "tool" => e.outcome = "success"
      BY <1>1, <2>4, <2>5 DEF Guarded
    <3>1. ~SchemaOnly /\ Business
      BY <2>1, <2>2 DEF Answer, Business
    <3>2. Blamed = "none" /\ count["data"] # 0
      BY <2>1, <3>1 DEF GuardedReason
    <3>3. /\ count["denied"] \in Nat /\ count["failed"] \in Nat /\ count["data"] \in Nat
      BY Count DEF IInv, Types, Counters
    <3>4. count["denied"] = 0 /\ count["failed"] = 0 /\ count["data"] > 0
      <4>1. ~(count["denied"] > 0) /\ ~(count["failed"] > 0)
        BY <3>2 DEF Blamed
      <4> QED BY <3>2, <3>3, <4>1
    <3>5. PICK words \in {{}} \cup {{d} : d \in evidence}, suspicious \in BOOLEAN :
            Grounded(words, suspicious)
      BY <2>1, <3>1, <3>4
    <3>6. PICK d \in words : d.by # "describe_database"
      BY <3>5 DEF Grounded
    <3>7. d \in evidence
      BY <3>5, <3>6
    <3> QED BY <3>4, <3>6, <3>7 DEF IInv, Blameless
  <2> QED BY <2>5, <2>6, <2>7, <2>8, <2>9 DEF IInv
<1> QED BY <1>2, <1>3

\* A step after the calls that keeps the answer, or forgets it.
LEMMA CloseKeeps == IInv /\ Close => IInv'
<1> SUFFICES ASSUME IInv, Close PROVE IInv'
  OBVIOUS
<1>1. /\ Still /\ pc = "closing" /\ pc' = (IF reply' = Threw THEN "router" ELSE "record")
      /\ class' = class /\ offered' = offered /\ count' = count /\ tool' = tool /\ calls' = calls
  BY DEF Close, AfterThrow, Goto, Still, admin
<1>2. session' \in {"none", "open", "closed"}
  BY DEF Close, Closed, IInv, Types, TypeOK
<1>3. reply' = reply \/ reply' = Threw
  BY DEF Close
<1>4. /\ Present'
      /\ \A d : (Allowed(d) => Allowed(d)') /\ (Accounted(d) => Accounted(d)')
      /\ held' \in Moment /\ held' = held /\ evidence' = evidence /\ log' = log
      /\ row' = row /\ request' = request /\ config' = config /\ user' = user
      /\ changes' = changes
  BY <1>1, StillKeeps
<1>5. reply' \in ReplyType /\ Threw.text = "none" /\ Threw.data = {}
  BY <1>3, BareReplies DEF IInv, Types, Bare
<1>6. Types'
  <2>1. pc' \in Places /\ reply'.text \in {"none", "fixed", "model", "schema", "report"}
    BY <1>1, <1>5 DEF Places, ReplyType
  <2> QED BY <1>1, <1>2, <1>4, <1>5, <2>1 DEF IInv, Types, TypeOK, Places
<1>7. Counted' /\ Blameless' /\ InHand'
  BY <1>1, <1>4 DEF IInv, Counted, Blameless, InHand, AtWork
<1>8. Shown'
  BY <1>1, <1>3, <1>4, <1>5 DEF IInv, Shown
<1>9. Guarded'
  BY <1>1, <1>3, <1>4, <1>5 DEF IInv, Guarded
<1> QED BY <1>4, <1>6, <1>7, <1>8, <1>9 DEF IInv

LEMMA ReportKeeps == IInv /\ Report => IInv'
<1> SUFFICES ASSUME IInv, Report PROVE IInv'
  OBVIOUS
<1>1. /\ Still /\ pc = "router" /\ pc' \in {"record", "report"}
      /\ class' = class /\ session' = session /\ offered' = offered /\ count' = count
      /\ tool' = tool /\ calls' = calls
  BY DEF Report, Goto, Still, admin, Working
<1>2. CASE pc' = "record"
  <2>1. reply' = reply \/ Bare(reply')
    BY <1>2, BareReplies DEF Report, Answer, Goto
  <2> QED BY <1>1, <1>2, <2>1, BareStep DEF IInv, Types, TypeOK, Places, AtWork
<1>3. CASE pc' = "report"
  <2>1. /\ reply' = reply /\ request.report \notin {"menu", "none"}
        /\ ReportOf[request.report] \in Effective(row)
    BY <1>3 DEF Report, Goto
  <2>2. request.report \in Reports
    BY <2>1 DEF IInv, Types, TypeOK, Request
  <2>3. ReportOf[request.report] \in held.grants
    BY <1>1, <2>1 DEF IInv, Present
  <2>4. /\ Present'
        /\ \A d : (Allowed(d) => Allowed(d)') /\ (Accounted(d) => Accounted(d)')
        /\ held' \in Moment /\ held' = held /\ evidence' = evidence /\ log' = log
        /\ row' = row /\ request' = request /\ config' = config /\ user' = user
        /\ changes' = changes
    BY <1>1, StillKeeps
  <2>5. Types'
    BY <1>1, <2>1, <2>4 DEF IInv, Types, TypeOK
  <2>6. Counted' /\ Blameless' /\ Guarded'
    BY <1>1, <1>3, <2>1, <2>4 DEF IInv, Counted, Blameless, Guarded, AtWork
  <2>7. InHand' /\ Shown'
    BY <1>1, <1>3, <2>1, <2>2, <2>3, <2>4 DEF IInv, InHand, Shown
  <2> QED BY <2>4, <2>5, <2>6, <2>7 DEF IInv
<1> QED BY <1>1, <1>2, <1>3

LEMMA RunReportKeeps == IInv /\ RunReport => IInv'
<1> SUFFICES ASSUME IInv, RunReport PROVE IInv'
  OBVIOUS
<1>1. /\ Still /\ pc = "report" /\ pc' \in {"record", "failed"}
      /\ class' = class /\ session' = session /\ offered' = offered /\ count' = count
      /\ tool' = tool /\ calls' = calls
  BY DEF RunReport, Goto, Still, admin, Working
<1>2. CASE reply' = Threw
  BY <1>1, <1>2, BareStep, BareReplies DEF IInv, Types, TypeOK, Places, AtWork
<1>3. CASE reply' # Threw
  <2>1. PICK d : d = Datum("router", {ReportOf[request.report]}, Scope(user, request.report))
    OBVIOUS
  <2>2. pc' = "record" /\ reply' = [text |-> "report", outcome |-> "success", data |-> {d}]
    BY <1>3, <2>1 DEF RunReport, Answer, Goto
  <2>3. /\ user \in User /\ request.report \in Reports /\ ReportOf[request.report] \in held.grants
    BY <1>1 DEF IInv, Types, TypeOK, InHand
  <2>4. ReportOf[request.report] \in Resources
    BY <2>3, ToolNames
  <2>5. /\ Scope(user, request.report) \in Departments \cup {"null", "all"}
        /\ {ReportOf[request.report]} # {"company.sales"} =>
             Scope(user, request.report) \in ScopesOf(user)
    BY <2>3, ScopeIsTheirs
  <2>6. d \in Fact
    BY <2>1, <2>4, <2>5 DEF Datum, Fact
  <2>7. d.by = "router" /\ d.needs = {ReportOf[request.report]}
        /\ d.dept = Scope(user, request.report)
    BY <2>1 DEF Datum
  <2>8. Allowed(d)
    BY <2>3, <2>5, <2>7 DEF Allowed
  <2>9. /\ reply' \in ReplyType /\ reply'.text = "report" /\ reply'.outcome = "success"
        /\ reply'.data = {d}
    BY <2>2, <2>6 DEF ReplyType
  <2>10. /\ Present'
         /\ \A f : (Allowed(f) => Allowed(f)') /\ (Accounted(f) => Accounted(f)')
         /\ held' \in Moment /\ held' = held /\ evidence' = evidence /\ log' = log
         /\ row' = row /\ request' = request /\ config' = config /\ user' = user
         /\ changes' = changes
    BY <1>1, StillKeeps
  <2>11. Types'
    BY <1>1, <2>2, <2>9, <2>10 DEF IInv, Types, TypeOK
  <2>12. Counted' /\ Blameless' /\ Guarded'
    BY <1>1, <2>2, <2>9, <2>10 DEF IInv, Counted, Blameless, Guarded, AtWork
  <2>13. InHand' /\ Shown'
    BY <1>1, <2>2, <2>8, <2>9, <2>10 DEF IInv, InHand, Shown
  <2> QED BY <2>10, <2>11, <2>12, <2>13 DEF IInv
<1> QED BY <1>2, <1>3

LEMMA ReportFailsKeeps == IInv /\ ReportFails => IInv'
<1> SUFFICES ASSUME IInv, ReportFails PROVE IInv'
  OBVIOUS
<1>1. /\ Still /\ pc = "router" /\ pc' = "failed" /\ reply' = Threw
      /\ class' = class /\ session' = session /\ offered' = offered /\ count' = count
      /\ tool' = tool /\ calls' = calls
  BY DEF ReportFails, Goto, Still, admin, Working
<1> QED BY <1>1, BareStep, BareReplies DEF IInv, Types, TypeOK, Places, AtWork

LEMMA DeliverKeeps == IInv /\ Deliver => IInv'
<1> SUFFICES ASSUME IInv, Deliver PROVE IInv'
  OBVIOUS
<1>1. /\ pc = "record" /\ pc' \in {"done", "failed"} /\ UNCHANGED admin
      /\ class' = class /\ session' = session /\ offered' = offered /\ count' = count
      /\ tool' = tool /\ calls' = calls /\ evidence' = evidence /\ held' = held
  BY DEF Deliver, Goto, Working
<1>2. /\ row' = row /\ request' = request /\ config' = config /\ user' = user /\ changes' = changes
  BY <1>1 DEF admin
<1>3. PICK e : e = Event("request", reply.outcome, reply.data)
  OBVIOUS
<1>4. e.type = "request" /\ e.outcome = reply.outcome /\ e.data = reply.data /\ e \in EventType
  BY <1>3 DEF Event, EventType, ReplyType, IInv, Types
<1>5. \/ pc' = "done" /\ reply' = reply /\ log' = log \cup {e}
      \/ pc' = "failed" /\ reply' = Threw /\ log' = log
  BY <1>3 DEF Deliver, Goto
<1>6. \A d : (Allowed(d) => Allowed(d)') /\ (Accounted(d) => Accounted(d)')
  BY <1>1, <1>2, <1>5, StaysAllowed, StaysAccounted
<1>7. reply' \in ReplyType /\ Threw.text = "none" /\ Threw.data = {}
  BY <1>5, BareReplies DEF IInv, Types, Bare
<1>8. Types'
  <2>1. pc' \in Places /\ reply'.text \in {"none", "fixed", "model", "schema", "report"}
        /\ log' \subseteq EventType
    BY <1>4, <1>5, <1>7 DEF Places, ReplyType, IInv, Types
  <2> QED BY <1>1, <1>2, <1>7, <2>1 DEF IInv, Types, TypeOK, Places
<1>9. Counted' /\ Present'
  BY <1>1, <1>2 DEF IInv, Counted, Present, AtWork
<1>10. Blameless' /\ Guarded'
  BY <1>1, <1>4, <1>5, <1>7 DEF IInv, Blameless, Guarded
<1>11. InHand'
  BY <1>1, <1>6 DEF IInv, InHand
<1>12. Shown'
  <2>1. CASE pc' = "failed"
    BY <1>1, <1>5, <1>6, <1>7, <2>1 DEF IInv, Shown
  <2>2. CASE pc' = "done"
    <3>1. reply' = reply /\ log' = log \cup {e}
      BY <1>5, <2>2
    <3>2. \A d \in reply.data : reply.outcome = "success" => Accounted(d)'
      BY <1>4, <3>1 DEF Accounted
    <3> QED BY <1>1, <1>6, <2>2, <3>1, <3>2 DEF IInv, Shown
  <2> QED BY <1>1, <2>1, <2>2
<1> QED BY <1>8, <1>9, <1>10, <1>11, <1>12 DEF IInv

-----------------------------------------------------------------------------
LEMMA StutterKeeps == IInv /\ UNCHANGED vars => IInv'
  BY DEF IInv, Types, TypeOK, Counted, Present, InHand, Blameless, Shown, Guarded, Allowed, Accounted,
         Effective, vars

LEMMA NextKeeps == IInv /\ [Next]_vars => IInv'
  BY AdministerKeeps, BotCommandKeeps, HandleKeeps, OpenKeeps, AskKeeps, NextCallKeeps, ReadActorKeeps,
     RequireKeeps, OperateKeeps, QueryKeeps, RecordSuccessKeeps, RecordFailureKeeps, FinalKeeps, CloseKeeps,
     ReportKeeps, RunReportKeeps, ReportFailsKeeps, DeliverKeeps, StutterKeeps DEF Next, TurnNext

LEMMA Invariance == Spec => []IInv
  BY InitInv, NextKeeps, PTL DEF Spec

LEMMA InvImplies == IInv => TypeOK /\ Disclosure /\ Guarded
<1> SUFFICES ASSUME IInv PROVE Disclosure
  BY DEF IInv, Types
<1> QED BY DEF IInv, Shown, Disclosure

\* Every variable of the turn keeps its type, and no counter passes the limit of
\* calls (company-assistant.ts:755-1112).
THEOREM TypeSafety == Spec => []TypeOK
  BY Invariance, InvImplies, PTL

\* However the administrator changes the user between the awaits of the turn, and
\* whatever calls the model makes: nothing reaches the model or the user without a
\* permission, a role and a department that the user had in the turn, nor before
\* the audit log holds it (company-server.ts:71-90, 245-300,
\* fallback-responder.ts:28, message-processor.ts:480).
THEOREM DisclosureSafety == Spec => []Disclosure
  BY Invariance, InvImplies, PTL

\* No company request is answered in the model's words from nothing, from the
\* catalogue alone, or after a call that was denied or failed
\* (company-assistant.ts:1000-1057).
THEOREM GuardedSafety == Spec => []Guarded
  BY Invariance, InvImplies, PTL

-----------------------------------------------------------------------------
\* The conversation: an item of it, a turn of the model whose calls are all
\* answered, and the one whose calls are being made.
Entry == [kind : {"user", "replay", "output"}, ids : Seq(Nat)]

Answered(list, m) ==
  /\ list[m].ids # <<>> /\ m + Len(list[m].ids) <= Len(list)
  /\ \A k \in 1..Len(list[m].ids) : list[m + k] = Item("output", <<list[m].ids[k]>>)
  /\ m + Len(list[m].ids) < Len(list) => list[m + Len(list[m].ids) + 1].kind = "replay"

AllTurns(list, open) ==
  \A m \in 1..Len(list) : list[m].kind = "replay" /\ m # open => Answered(list, m)

Unfinished(list, n, rest) ==
  /\ list[n].kind = "replay" /\ list[n].ids # <<>>
  /\ n + Len(list[n].ids) = Len(list) + Len(rest)
  /\ \A k \in 1..(Len(list) - n) : list[n + k] = Item("output", <<list[n].ids[k]>>)
  /\ \A k \in 1..Len(rest) : list[n].ids[Len(list) - n + k] = rest[k].id

\* Each answer names its call, by a number of its own: the calls made so far.
Known(list, made) ==
  \A i \in 1..Len(list) : list[i].kind = "output" =>
    /\ Named(list, i) /\ \E c \in 1..made : list[i].ids = <<c>>
    /\ \A j \in 1..Len(list) : j # i => list[j] # list[i]

Made == IF pc \in AtWork THEN count.calls - 1 ELSE count.calls

Transcript ==
  /\ pc = "ask" => items \in Seq(Entry) /\ Known(items, Made) /\ AllTurns(items, 0)
  /\ pc \in {"call"} \cup AtWork =>
       /\ items \in Seq(Entry) /\ Known(items, Made)
       /\ \E n \in 1..Len(items) : Unfinished(items, n, calls) /\ AllTurns(items, n)
       /\ \A k \in 1..Len(calls) : calls[k].id <= Made + k
       /\ pc \in AtWork => calls # <<>> /\ calls[1].id = Made + 1

LEMMA Appended ==
  ASSUME NEW list \in Seq(Entry), NEW x \in Entry
  PROVE  /\ Append(list, x) \in Seq(Entry) /\ Len(Append(list, x)) = Len(list) + 1
         /\ \A i \in 1..Len(list) : Append(list, x)[i] = list[i] /\ list[i] \in Entry
         /\ Append(list, x)[Len(list) + 1] = x /\ Len(list) \in Nat
  OBVIOUS

LEMMA Items ==
  ASSUME NEW c \in Nat, NEW ids \in Seq(Nat)
  PROVE  /\ Item("output", <<c>>) \in Entry /\ Item("output", <<c>>).kind = "output"
         /\ Item("output", <<c>>).ids = <<c>>
         /\ Item("replay", ids) \in Entry /\ Item("replay", ids).kind = "replay"
         /\ Item("replay", ids).ids = ids
         /\ Item("user", <<>>) \in Entry /\ Item("user", <<>>).kind = "user"
<1>1. <<c>> \in Seq(Nat) /\ <<>> \in Seq(Nat)
  OBVIOUS
<1> QED BY <1>1 DEF Item, Entry

\* Another item follows an answered turn: only after its last answer does it matter
\* which, and there it has to be a turn.
LEMMA StaysAnswered ==
  ASSUME NEW list \in Seq(Entry), NEW x \in Entry, NEW m \in 1..Len(list), Answered(list, m),
         m + Len(list[m].ids) = Len(list) => x.kind = "replay"
  PROVE  Answered(Append(list, x), m)
<1> DEFINE more == Append(list, x)
           ids == list[m].ids
<1>1. /\ Len(more) = Len(list) + 1 /\ more[Len(list) + 1] = x /\ Len(list) \in Nat
      /\ \A i \in 1..Len(list) : more[i] = list[i]
  BY Appended
<1>2. list[m] \in Entry /\ ids \in Seq(Nat) /\ Len(ids) \in Nat
  <2>1. list[m] \in Entry
    OBVIOUS
  <2> QED BY <2>1 DEF Entry
<1>3. /\ ids # <<>> /\ m + Len(ids) <= Len(list)
      /\ \A k \in 1..Len(ids) : list[m + k] = Item("output", <<ids[k]>>)
      /\ m + Len(ids) < Len(list) => list[m + Len(ids) + 1].kind = "replay"
  BY DEF Answered
<1>4. more[m] = list[m]
  BY <1>1
<1> HIDE DEF more, ids
<1>5. \A k \in 1..Len(ids) : m + k \in 1..Len(list)
  BY <1>1, <1>2, <1>3
<1>6. \A k \in 1..Len(ids) : more[m + k] = Item("output", <<ids[k]>>)
  BY <1>1, <1>3, <1>5
<1>7. m + Len(ids) < Len(more) => more[m + Len(ids) + 1].kind = "replay"
  <2>1. CASE m + Len(ids) = Len(list)
    BY <1>1, <2>1 DEF ids
  <2>2. CASE m + Len(ids) < Len(list)
    <3>1. m + Len(ids) + 1 \in 1..Len(list)
      BY <1>1, <1>2, <2>2
    <3> QED BY <1>1, <1>3, <2>2, <3>1
  <2> QED BY <1>1, <1>2, <1>3, <2>1, <2>2
<1>8. m + Len(ids) <= Len(more)
  BY <1>1, <1>2, <1>3
<1> QED BY <1>3, <1>4, <1>6, <1>7, <1>8 DEF Answered, more, ids

LEMMA StaysKnown ==
  ASSUME NEW list \in Seq(Entry), NEW x \in Entry, NEW made \in Nat, Known(list, made),
         NEW more \in Nat, made <= more,
         \A j \in 1..Len(list) : list[j].kind = "output" => list[j] # x,
         x.kind = "output" => /\ Named(Append(list, x), Len(list) + 1)
                              /\ \E c \in 1..more : x.ids = <<c>>
  PROVE  Known(Append(list, x), more)
<1> DEFINE new == Append(list, x)
<1>1. /\ Len(new) = Len(list) + 1 /\ new[Len(list) + 1] = x /\ Len(list) \in Nat
      /\ \A i \in 1..Len(list) : new[i] = list[i]
  BY Appended
<1> HIDE DEF new
<1> SUFFICES ASSUME NEW i \in 1..Len(new), new[i].kind = "output"
             PROVE  /\ Named(new, i) /\ \E c \in 1..more : new[i].ids = <<c>>
                    /\ \A j \in 1..Len(new) : j # i => new[j] # new[i]
  BY DEF Known, new
<1>2. CASE i = Len(list) + 1
  <2>1. \A j \in 1..Len(new) : j # i => j \in 1..Len(list)
    BY <1>1, <1>2
  <2>2. \A j \in 1..Len(list) : list[j] = x => list[j].kind = "output"
    BY <1>1, <1>2
  <2> QED BY <1>1, <1>2, <2>1, <2>2 DEF new
<1>3. CASE i \in 1..Len(list)
  <2>1. /\ Named(list, i) /\ \E c \in 1..made : list[i].ids = <<c>>
        /\ \A j \in 1..Len(list) : j # i => list[j] # list[i]
    BY <1>1, <1>3 DEF Known
  <2>2. Named(new, i)
    <3>1. \A m \in 1..(i - 1) : new[m] = list[m]
      BY <1>1, <1>3
    <3> QED BY <1>1, <1>3, <2>1, <3>1 DEF Named
  <2>3. \A j \in 1..Len(new) : j # i => new[j] # new[i]
    <3>1. \A j \in 1..Len(new) : j \in 1..Len(list) \/ j = Len(list) + 1
      BY <1>1
    <3>2. list[i] # x
      BY <1>1, <1>3
    <3> QED BY <1>1, <1>3, <2>1, <3>1, <3>2
  <2>4. \A c \in 1..made : c \in 1..more
    OBVIOUS
  <2> QED BY <1>1, <1>3, <2>1, <2>2, <2>3, <2>4
<1> QED BY <1>1, <1>2, <1>3

\* The next call of the open turn is answered.
LEMMA AnswerAdds ==
  ASSUME NEW list \in Seq(Entry), NEW rest \in Seq(Call), rest # <<>>, NEW n \in 1..Len(list),
         Unfinished(list, n, rest), AllTurns(list, n), NEW made \in Nat, Known(list, made),
         rest[1].id = made + 1
  PROVE  LET new == Append(list, Item("output", <<rest[1].id>>)) IN
         /\ new \in Seq(Entry) /\ n \in 1..Len(new)
         /\ Unfinished(new, n, Tail(rest)) /\ AllTurns(new, n) /\ Known(new, made + 1)
<1> DEFINE x == Item("output", <<rest[1].id>>)
           new == Append(list, x)
           ids == list[n].ids
           L == Len(list)
<1>1. x \in Entry /\ x.kind = "output" /\ x.ids = <<made + 1>> /\ x = Item("output", <<made + 1>>)
  <2>1. made + 1 \in Nat /\ <<>> \in Seq(Nat) /\ x = Item("output", <<made + 1>>)
    OBVIOUS
  <2> HIDE DEF x
  <2> QED BY <2>1, Items
<1> HIDE DEF x
<1>2. /\ new \in Seq(Entry) /\ Len(new) = L + 1 /\ new[L + 1] = x /\ L \in Nat
      /\ \A i \in 1..L : new[i] = list[i] /\ list[i] \in Entry
  BY <1>1, Appended
<1>3. list[n] \in Entry /\ ids \in Seq(Nat) /\ Len(ids) \in Nat /\ n \in Nat /\ n >= 1 /\ n <= L
  BY <1>2 DEF Entry
<1>4. /\ list[n].kind = "replay" /\ ids # <<>> /\ n + Len(ids) = L + Len(rest)
      /\ \A k \in 1..(L - n) : list[n + k] = Item("output", <<ids[k]>>)
      /\ \A k \in 1..Len(rest) : ids[L - n + k] = rest[k].id
  BY DEF Unfinished
<1>5. /\ Len(rest) \in Nat /\ Len(rest) >= 1 /\ Tail(rest) \in Seq(Call)
      /\ Len(Tail(rest)) = Len(rest) - 1
      /\ \A k \in 1..Len(Tail(rest)) : Tail(rest)[k] = rest[k + 1]
  OBVIOUS
<1>6. new[n] = list[n]
  BY <1>2, <1>3
<1> HIDE DEF new, ids, L
<1>7. \A k \in 1..(Len(new) - n) : new[n + k] = Item("output", <<ids[k]>>)
  <2>1. ASSUME NEW k \in 1..(Len(new) - n) PROVE new[n + k] = Item("output", <<ids[k]>>)
    <3>1. CASE k \in 1..(L - n)
      <4>1. n + k \in 1..L
        BY <1>2, <1>3, <3>1
      <4> QED BY <1>2, <1>4, <3>1, <4>1
    <3>2. CASE k = L - n + 1
      <4>1. ids[L - n + 1] = rest[1].id
        BY <1>4, <1>5
      <4>2. n + k = L + 1
        BY <1>2, <1>3, <3>2
      <4> QED BY <1>1, <1>2, <3>2, <4>1, <4>2
    <3>3. k \in 1..(L - n) \/ k = L - n + 1
      BY <1>2, <1>3
    <3> QED BY <3>1, <3>2, <3>3
  <2> QED BY <2>1
<1>8. \A k \in 1..Len(Tail(rest)) : ids[Len(new) - n + k] = Tail(rest)[k].id
  <2>1. ASSUME NEW k \in 1..Len(Tail(rest)) PROVE ids[Len(new) - n + k] = Tail(rest)[k].id
    <3>1. k + 1 \in 1..Len(rest) /\ Len(new) - n + k = L - n + (k + 1)
      BY <1>2, <1>3, <1>5
    <3>2. ids[L - n + (k + 1)] = rest[k + 1].id
      BY <1>4, <3>1
    <3> QED BY <1>5, <3>1, <3>2
  <2> QED BY <2>1
<1>9. n + Len(ids) = Len(new) + Len(Tail(rest))
  <2>1. \A a, b \in Nat : b >= 1 => a + b = (a + 1) + (b - 1)
    OBVIOUS
  <2>2. L + Len(rest) = (L + 1) + (Len(rest) - 1)
    BY <1>2, <1>5, <2>1
  <2> QED BY <1>2, <1>4, <1>5, <2>2
<1>10. Unfinished(new, n, Tail(rest))
  BY <1>4, <1>6, <1>7, <1>8, <1>9 DEF Unfinished, ids
<1>11. AllTurns(new, n)
  <2>1. ASSUME NEW m \in 1..Len(new), new[m].kind = "replay", m # n PROVE Answered(new, m)
    <3>1. m \in 1..L /\ list[m] = new[m] /\ list[m].ids \in Seq(Nat)
      <4>1. m # L + 1
        BY <1>1, <1>2, <2>1
      <4>2. m \in 1..L
        BY <1>2, <4>1
      <4> QED BY <1>2, <4>2 DEF Entry
    <3>2. Answered(list, m)
      BY <2>1, <3>1 DEF AllTurns, L
    <3>3. m + Len(list[m].ids) # L
      <4>1. SUFFICES ASSUME m + Len(list[m].ids) = L PROVE FALSE
        OBVIOUS
      <4>2. \A k \in 1..Len(list[m].ids) : list[m + k].kind = "output"
        <5>1. \A k \in 1..Len(list[m].ids) : list[m + k] = Item("output", <<list[m].ids[k]>>)
          BY <3>2 DEF Answered
        <5>2. \A c : Item("output", <<c>>).kind = "output"
          BY DEF Item
        <5> QED BY <5>1, <5>2
      <4>3. \A k \in 1..(L - n) : list[n + k].kind = "output"
        <5>1. \A c : Item("output", <<c>>).kind = "output"
          BY DEF Item
        <5> QED BY <1>4, <5>1
      <4>4. CASE m < n
        <5>1. n - m \in 1..Len(list[m].ids) /\ m + (n - m) = n
          BY <1>3, <3>1, <4>1, <4>4
        <5>2. list[n].kind = "output"
          BY <4>2, <5>1
        <5> QED BY <5>2, <1>4
      <4>5. CASE n < m
        <5>1. m - n \in 1..(L - n) /\ n + (m - n) = m
          <6>1. m \in 1..L /\ L \in Nat /\ n \in Nat
            BY <1>2, <1>3, <3>1
          <6> QED BY <6>1, <4>5
        <5>2. list[m].kind = "output"
          BY <4>3, <5>1
        <5> QED BY <5>2, <2>1, <3>1
      <4> QED BY <1>3, <2>1, <3>1, <4>4, <4>5
    <3> QED BY <1>1, <3>1, <3>2, <3>3, StaysAnswered DEF new, L
  <2> QED BY <2>1 DEF AllTurns
<1>12. Known(new, made + 1)
  <2>1. \A j \in 1..L : list[j].kind = "output" => list[j] # x
    <3>1. ASSUME NEW j \in 1..L, list[j].kind = "output", list[j] = x PROVE FALSE
      <4>1. PICK c \in 1..made : x.ids = <<c>>
        BY <3>1 DEF Known, L
      <4>2. c = made + 1
        BY <1>1, <4>1
      <4> QED BY <4>2
    <3> QED BY <3>1
  <2>2. Named(new, L + 1)
    <3>1. n \in 1..((L + 1) - 1)
      BY <1>2, <1>3
    <3>2. L - n + 1 \in 1..Len(ids) /\ ids[L - n + 1] = made + 1
      BY <1>2, <1>3, <1>4, <1>5
    <3>3. L - n + 1 \in DOMAIN ids
      BY <1>3, <3>2
    <3>4. new[L + 1].ids = <<ids[L - n + 1]>>
      BY <1>1, <1>2, <3>2
    <3> QED BY <1>4, <1>6, <3>1, <3>3, <3>4 DEF Named, ids
  <2>3. \E c \in 1..(made + 1) : x.ids = <<c>>
    BY <1>1
  <2>4. made + 1 \in Nat /\ made <= made + 1
    OBVIOUS
  <2> QED BY <1>1, <2>1, <2>2, <2>3, <2>4, StaysKnown DEF new, L
<1> QED BY <1>2, <1>3, <1>10, <1>11, <1>12 DEF x, new

\* The model takes a turn.
LEMMA TurnAdds ==
  ASSUME NEW list \in Seq(Entry), AllTurns(list, 0), NEW made \in Nat, Known(list, made),
         NEW ids \in Seq(Nat), ids # <<>>, NEW rest \in Seq(Call), Len(rest) = Len(ids),
         \A k \in 1..Len(rest) : rest[k].id = ids[k]
  PROVE  LET new == Append(list, Item("replay", ids)) IN
         /\ new \in Seq(Entry) /\ Len(list) + 1 \in 1..Len(new)
         /\ Unfinished(new, Len(list) + 1, rest) /\ AllTurns(new, Len(list) + 1) /\ Known(new, made)
<1> DEFINE x == Item("replay", ids)
           new == Append(list, x)
           L == Len(list)
<1>1. x \in Entry /\ x.kind = "replay" /\ x.ids = ids
  BY Items, 0 \in Nat
<1> HIDE DEF x
<1>2. /\ new \in Seq(Entry) /\ Len(new) = L + 1 /\ new[L + 1] = x /\ L \in Nat
      /\ \A i \in 1..L : new[i] = list[i] /\ list[i] \in Entry
  BY <1>1, Appended
<1> HIDE DEF new, L
<1>3. Unfinished(new, L + 1, rest)
  <2>1. Len(new) - (L + 1) = 0 /\ \A k \in 1..Len(rest) : Len(new) - (L + 1) + k = k
    BY <1>2
  <2>2. (L + 1) + Len(ids) = Len(new) + Len(rest)
    <3>1. Len(rest) = Len(ids) /\ Len(new) = L + 1
      BY <1>2
    <3> QED BY <3>1
  <2>3. new[L + 1].kind = "replay" /\ new[L + 1].ids = ids
    BY <1>1, <1>2
  <2>4. \A k \in 1..Len(rest) : ids[Len(new) - (L + 1) + k] = rest[k].id
    BY <2>1
  <2>5. 1..(Len(new) - (L + 1)) = {}
    BY <2>1
  <2> QED BY <2>2, <2>3, <2>4, <2>5 DEF Unfinished
<1>4. AllTurns(new, L + 1)
  <2>1. ASSUME NEW m \in 1..Len(new), new[m].kind = "replay", m # L + 1 PROVE Answered(new, m)
    <3>1. m \in 1..L /\ list[m] = new[m] /\ m # 0
      BY <1>2, <2>1
    <3>2. Answered(list, m)
      BY <2>1, <3>1 DEF AllTurns, L
    <3> QED BY <1>1, <3>1, <3>2, StaysAnswered DEF new, L
  <2> QED BY <2>1 DEF AllTurns
<1>5. Known(new, made)
  <2>1. \A j \in 1..L : list[j].kind = "output" => list[j] # x
    BY <1>1
  <2>2. made <= made
    OBVIOUS
  <2> QED BY <1>1, <2>1, <2>2, StaysKnown DEF new, L
<1> QED BY <1>2, <1>3, <1>4, <1>5 DEF x, new, L

-----------------------------------------------------------------------------
LEMMA Numbers ==
  ASSUME IInv
  PROVE  /\ count["calls"] \in Nat /\ calls \in Seq(Call) /\ Len(calls) \in Nat
         /\ pc \in AtWork => count["calls"] - 1 \in Nat
         /\ \A k \in 1..Len(calls) : calls[k] \in Call /\ calls[k].id \in Nat
<1>1. calls \in Seq(Call) /\ count["calls"] \in Nat
  BY Count DEF IInv, Types, Counters
<1>2. ASSUME pc \in AtWork PROVE count["calls"] - 1 \in Nat
  <2>1. count["data"] \in Nat /\ count["data"] < count["calls"]
    BY <1>2, Count DEF IInv, Types, Counted, Counters, Marks
  <2> QED BY <1>1, <2>1
<1>3. \A k \in 1..Len(calls) : calls[k] \in Call /\ calls[k].id \in Nat
  <2>1. \A k \in 1..Len(calls) : calls[k] \in Call
    BY <1>1
  <2> QED BY <2>1 DEF Call
<1> QED BY <1>1, <1>2, <1>3

\* A step within the work of one call says nothing to the model.
LEMMA SteadySays ==
  ASSUME Transcript, Steady, items' = items
  PROVE  Transcript'
<1>1. Made' = Made /\ pc' # "ask"
  BY DEF Steady, Made, AtWork
<1>2. calls' = calls /\ pc \in AtWork /\ pc' \in AtWork
  BY DEF Steady
<1> QED BY <1>1, <1>2 DEF Transcript

\* Nor does one outside of the conversation.
LEMMA OutsideSays ==
  ASSUME pc' \notin {"ask", "call"} \cup AtWork
  PROVE  Transcript'
  BY DEF Transcript

LEMMA OpenSays == IInv /\ Open => Transcript'
<1> SUFFICES ASSUME IInv, Open, pc' = "ask" PROVE Transcript'
  <2>1. Open => pc' \in {"ask", "closing"}
    BY DEF Open, Goto
  <2> QED BY <2>1 DEF Transcript, AtWork
<1>1. PICK history \in 0..1 : items' = [k \in 1..(history + 1) |-> Item("user", <<>>)]
  BY DEF Open, Goto
<1>2. PICK x : x = Item("user", <<>>)
  OBVIOUS
<1>3. x \in Entry /\ x.kind = "user"
  BY <1>2, Items, 0 \in Nat, <<>> \in Seq(Nat)
<1>4. items' \in [1..(history + 1) -> Entry] /\ history + 1 \in Nat
  BY <1>1, <1>2, <1>3
<1>5. items' \in Seq(Entry) /\ \A i \in 1..Len(items') : items'[i].kind = "user"
  BY <1>1, <1>2, <1>3, <1>4
<1>6. AllTurns(items', 0) /\ Known(items', Made')
  BY <1>5 DEF AllTurns, Known
<1>7. pc' \notin {"call"} \cup AtWork
  BY DEF AtWork
<1> QED BY <1>5, <1>6, <1>7 DEF Transcript

\* The model's turn: its calls are all to be answered, in their order.
LEMMA AskSays == IInv /\ Transcript /\ Ask => Transcript'
<1> SUFFICES ASSUME IInv, Transcript, Ask, pc' = "call" PROVE Transcript'
  <2>1. Ask => pc' \in {"closing", "final", "call"}
    BY DEF Ask, Goto, Throw, Over
  <2> QED BY <2>1 DEF Transcript, AtWork
<1>1. PICK turn \in BoundedSeq(Forms, MaxParallel) :
        /\ calls' = [k \in DOMAIN turn |-> [id |-> IdOf(turn[k], k), form |-> turn[k]]]
        /\ items' = Append(items, Item("replay", [k \in DOMAIN turn |-> IdOf(turn[k], k)]))
        /\ turn # <<>>
  BY DEF Ask, Goto, Throw, Over
<1>2. PICK n \in 0..MaxParallel : turn \in [1..n -> Forms]
  BY DEF BoundedSeq, SeqOf
<1>3. n \in Nat /\ DOMAIN turn = 1..n /\ \A k \in 1..n : turn[k] \in Form
  BY <1>2, AssistantAssumption
<1>4. n # 0
  <2>1. SUFFICES ASSUME n = 0 PROVE FALSE
    OBVIOUS
  <2>2. turn \in Seq(Forms) /\ Len(turn) = 0
    BY <1>2, <1>3, <2>1
  <2> QED BY <1>1, <2>2
<1>5. /\ items \in Seq(Entry) /\ Known(items, Made) /\ AllTurns(items, 0) /\ pc = "ask"
      /\ Made = count["calls"] /\ count' = count /\ count["calls"] \in Nat
  <2>1. pc = "ask" /\ count' = count
    BY DEF Ask
  <2> QED BY <2>1, Numbers DEF Transcript, Made, AtWork
<1>6. \A k \in 1..n : IdOf(turn[k], k) \in Nat /\ IdOf(turn[k], k) <= count["calls"] + k
  BY <1>3, <1>5 DEF IdOf
<1> DEFINE ids == [k \in 1..n |-> IdOf(turn[k], k)]
<1>7. /\ ids \in Seq(Nat) /\ Len(ids) = n /\ ids # <<>>
      /\ items' = Append(items, Item("replay", ids))
  <2>1. ids \in [1..n -> Nat]
    BY <1>6
  <2>2. ids \in Seq(Nat) /\ Len(ids) = n
    BY <1>3, <2>1
  <2>3. ids # <<>>
    BY <1>3, <1>4, <2>2
  <2> QED BY <1>1, <1>3, <2>2, <2>3
<1>8. /\ calls' \in Seq(Call) /\ Len(calls') = n
      /\ \A k \in 1..n : calls'[k].id = IdOf(turn[k], k) /\ ids[k] = IdOf(turn[k], k)
  <2>1. calls' = [k \in 1..n |-> [id |-> IdOf(turn[k], k), form |-> turn[k]]]
    BY <1>1, <1>3
  <2>2. calls' \in [1..n -> Call]
    BY <1>3, <1>6, <2>1 DEF Call
  <2>3. calls' \in Seq(Call) /\ Len(calls') = n
    BY <1>3, <2>2
  <2> QED BY <2>1, <2>3
<1> HIDE DEF ids
<1>9. Len(calls') = Len(ids) /\ \A k \in 1..Len(calls') : calls'[k].id = ids[k]
  BY <1>7, <1>8
<1>10. /\ items' \in Seq(Entry) /\ Len(items) + 1 \in 1..Len(items')
       /\ Unfinished(items', Len(items) + 1, calls') /\ AllTurns(items', Len(items) + 1)
       /\ Known(items', Made)
  BY <1>5, <1>7, <1>8, <1>9, TurnAdds
<1>11. Made' = Made /\ pc' \notin AtWork /\ \A k \in 1..Len(calls') : calls'[k].id <= Made' + k
  BY <1>5, <1>6, <1>8 DEF Made, AtWork
<1> QED BY <1>10, <1>11 DEF Transcript

\* The answer of the first call of the rest, and one more made.
LEMMA AnswerSays ==
  ASSUME IInv, Transcript, pc \in {"call"} \cup AtWork, calls # <<>>, calls[1].id = Made + 1,
         items' = Append(items, Item("output", <<Head(calls).id>>)), calls' = Tail(calls),
         Made' = Made + 1, pc' = "call"
  PROVE  Transcript'
<1>1. Made \in Nat /\ calls \in Seq(Call)
  BY Numbers DEF Made
<1>2. /\ items \in Seq(Entry) /\ Known(items, Made)
      /\ \A k \in 1..Len(calls) : calls[k].id <= Made + k
  BY DEF Transcript
<1>3. PICK n \in 1..Len(items) : Unfinished(items, n, calls) /\ AllTurns(items, n)
  BY DEF Transcript
<1>4. items' = Append(items, Item("output", <<calls[1].id>>))
  <2>1. Head(calls) = calls[1]
    BY <1>1
  <2> QED BY <2>1
<1>5. /\ items' \in Seq(Entry) /\ n \in 1..Len(items')
      /\ Unfinished(items', n, calls') /\ AllTurns(items', n) /\ Known(items', Made + 1)
  BY <1>1, <1>2, <1>3, <1>4, AnswerAdds
<1>6. \A k \in 1..Len(calls') : calls'[k].id <= Made' + k
  <2>1. ASSUME NEW k \in 1..Len(calls') PROVE calls'[k].id <= Made' + k
    <3>1. k \in Nat /\ k + 1 \in 1..Len(calls) /\ calls'[k] = calls[k + 1]
      BY <1>1
    <3>2. calls[k + 1].id <= Made + (k + 1) /\ calls[k + 1].id \in Nat
      BY <1>2, <3>1, Numbers
    <3> QED BY <1>1, <3>1, <3>2
  <2> QED BY <2>1
<1>7. pc' \notin AtWork /\ pc' # "ask"
  BY DEF AtWork
<1> QED BY <1>5, <1>6, <1>7 DEF Transcript

\* When every call of the turn is answered, the turn is like the others.
LEMMA TurnIsOver ==
  ASSUME NEW list \in Seq(Entry), NEW n \in 1..Len(list), Unfinished(list, n, <<>>), AllTurns(list, n)
  PROVE  AllTurns(list, 0)
<1>1. list[n] \in Entry /\ Len(list) \in Nat
  OBVIOUS
<1>2. list[n].ids \in Seq(Nat) /\ Len(list[n].ids) \in Nat
  BY <1>1 DEF Entry
<1>3. n + Len(list[n].ids) = Len(list)
  BY <1>1, <1>2 DEF Unfinished
<1>4. Len(list) - n = Len(list[n].ids) /\ ~(n + Len(list[n].ids) < Len(list))
  BY <1>1, <1>2, <1>3
<1>5. Answered(list, n)
  BY <1>1, <1>3, <1>4 DEF Unfinished, Answered
<1> QED BY <1>5 DEF AllTurns

LEMMA NextCallSays == IInv /\ Transcript /\ NextCall => Transcript'
<1> SUFFICES ASSUME IInv, Transcript, NextCall PROVE Transcript'
  OBVIOUS
<1> DEFINE call == Head(calls)
           name == call.form.name
<1>0. pc = "call" /\ Made = count["calls"] /\ count["calls"] \in Nat /\ calls \in Seq(Call)
  <2>1. pc = "call"
    BY DEF NextCall
  <2> QED BY <2>1, Numbers DEF Made, AtWork
<1>1. CASE calls = <<>>
  <2>1. pc' = "ask" /\ count' = count /\ items' = items
    BY <1>1 DEF NextCall, Goto
  <2>2. PICK n \in 1..Len(items) : Unfinished(items, n, <<>>) /\ AllTurns(items, n)
    BY <1>0, <1>1 DEF Transcript
  <2>3. items \in Seq(Entry) /\ Known(items, Made)
    BY <1>0 DEF Transcript
  <2>4. AllTurns(items, 0)
    BY <2>2, <2>3, TurnIsOver
  <2>5. Made' = Made /\ pc' \notin {"call"} \cup AtWork
    BY <1>0, <2>1 DEF Made, AtWork
  <2> QED BY <2>1, <2>3, <2>4, <2>5 DEF Transcript
<1>2. CASE Throw /\ UNCHANGED <<count, tool>>
  <2>1. pc' = "closing"
    BY <1>2 DEF Throw, Over, Goto
  <2> QED BY <2>1 DEF Transcript, AtWork
<1>3. CASE calls # <<>> /\ ~(Throw /\ UNCHANGED <<count, tool>>)
  <2>1. ~(count.calls >= MaxToolCalls) /\ call.id \notin 0..count["calls"]
    BY <1>3 DEF NextCall, Used
  <2>2. call = calls[1] /\ 1 \in 1..Len(calls)
    BY <1>0, <1>3
  <2>3. call.id \in Nat /\ call.id <= Made + 1
    BY <1>0, <2>2, Numbers DEF Transcript
  <2>4. calls[1].id = Made + 1
    BY <1>0, <2>1, <2>2, <2>3
  <2>5. PICK S \in SUBSET {"describe", "query", "unsupported", "failed"} :
          /\ count' = Bump({"calls"} \cup S)
          /\ \/ pc' = "call" /\ calls' = Tail(calls) /\ items' = Append(items, Item("output", <<call.id>>))
             \/ pc' = "actor" /\ calls' = calls /\ items' = items
    <3>0. /\ Kind(name) \subseteq {"describe", "query"}
          /\ Mark(name, "unknown") = "unsupported" /\ Mark(name, "failed") = "failed"
      BY KindsAndMarks
    <3>1. CASE Refused(name)
      <4>1. count' = Bump({"calls"} \cup ({"unsupported"} \cup Kind(name)))
        <5>1. {"calls", "unsupported"} \cup Kind(name) = {"calls"} \cup ({"unsupported"} \cup Kind(name))
          OBVIOUS
        <5> QED BY <5>1, <1>3, <3>0, <3>1 DEF NextCall
      <4> QED BY <1>0, <1>3, <3>0, <3>1, <4>1 DEF NextCall, Outputs
    <3>2. CASE ~Refused(name) /\ call.form.args = "invalid"
      <4>1. count' = Bump({"calls"} \cup ({"failed"} \cup Kind(name)))
        <5>1. {"calls", "failed"} \cup Kind(name) = {"calls"} \cup ({"failed"} \cup Kind(name))
          OBVIOUS
        <5> QED BY <5>1, <1>3, <3>0, <3>2 DEF NextCall
      <4> QED BY <1>0, <1>3, <3>0, <3>2, <4>1 DEF NextCall, Outputs
    <3>3. CASE ~Refused(name) /\ call.form.args # "invalid"
      <4>1. /\ count' = Bump({"calls"} \cup Kind(name))
            /\ pc' = "actor" /\ calls' = calls /\ items' = items
        BY <1>3, <3>3 DEF NextCall, Goto
      <4> QED BY <3>0, <4>1
    <3> QED BY <3>1, <3>2, <3>3
  <2>6. count'["calls"] = count["calls"] + 1
    <3>1. S \in SUBSET (Counters \ {"calls"})
      BY DEF Counters
    <3>2. count.calls < MaxToolCalls
      <4>1. count["calls"] \in Nat /\ MaxToolCalls \in Nat
        BY <1>0, AssistantAssumption
      <4> QED BY <2>1, <4>1
    <3> QED BY <2>5, <3>1, <3>2, CallCounted
  <2>7. CASE pc' = "call" /\ calls' = Tail(calls) /\ items' = Append(items, Item("output", <<call.id>>))
    <3>1. Made' = Made + 1
      BY <1>0, <2>6, <2>7 DEF Made, AtWork
    <3> QED BY <1>0, <1>3, <2>4, <2>7, <3>1, AnswerSays
  <2>8. CASE pc' = "actor" /\ calls' = calls /\ items' = items
    <3>1. Made' = Made
      BY <1>0, <2>6, <2>8 DEF Made, AtWork
    <3> QED BY <1>0, <1>3, <2>4, <2>8, <3>1 DEF Transcript
  <2> QED BY <2>5, <2>7, <2>8
<1> QED BY <1>1, <1>2, <1>3

LEMMA ReturnsSays ==
  ASSUME IInv, Transcript, pc \in AtWork, NEW outcome \in {"ok", "denied", "failed"}, NEW data,
         Returns(outcome, data)
  PROVE  Transcript'
<1>1. /\ pc' = "call" /\ calls' = Tail(calls)
      /\ items' = Append(items, Item("output", <<Head(calls).id>>))
      /\ count' = Bump({Mark(tool.name, outcome)})
  BY DEF Returns, Goto
<1>2. Mark(tool.name, outcome) \in Marks
  BY KindsAndMarks DEF Marks
<1>3. count'["calls"] = count["calls"]
  BY <1>1, <1>2, Marked
<1>4. Made' = Made + 1
  BY <1>1, <1>3, Numbers DEF Made, AtWork
<1>5. calls # <<>> /\ calls[1].id = Made + 1
  BY DEF Transcript
<1> QED BY <1>1, <1>4, <1>5, AnswerSays

LEMMA RecordSays == IInv /\ Transcript /\ (RecordSuccess \/ RecordFailure) => Transcript'
<1> SUFFICES ASSUME IInv, Transcript, RecordSuccess \/ RecordFailure PROVE Transcript'
  OBVIOUS
<1>1. pc \in AtWork
  BY DEF RecordSuccess, RecordFailure, AtWork
<1>2. CASE RecordFailure
  <2>1. PICK outcome \in {"denied", "failed"} : outcome = tool.outcome
    BY <1>2 DEF RecordFailure, IInv, InHand
  <2>2. Returns(outcome, {})
    BY <1>2, <2>1 DEF RecordFailure
  <2> QED BY <1>1, <2>2, ReturnsSays
<1>3. CASE Returns("ok", tool.data)
  <2>1. PICK data : data = tool.data
    OBVIOUS
  <2> QED BY <1>1, <1>3, <2>1, ReturnsSays
<1>4. CASE RecordSuccess /\ AuditFails
  <2>1. /\ UNCHANGED <<admin, class, session, offered, held, reply>> /\ pc = "recordSuccess"
        /\ log' = log \/ pc' = "call"
    BY <1>4 DEF RecordSuccess, Returns, Goto
  <2>2. /\ pc' = "recordFailure" /\ count' = count /\ evidence' = evidence /\ items' = items
        /\ calls' = calls
    BY <1>4 DEF AuditFails, Ends, Goto
  <2>3. Steady
    BY <2>1, <2>2 DEF Steady, Still, AtWork
  <2> QED BY <2>2, <2>3, SteadySays
<1> QED BY <1>2, <1>3, <1>4 DEF RecordSuccess

LEMMA WorkSays ==
  Transcript /\ (ReadActor \/ Require \/ Operate \/ Query) => Transcript'
<1> SUFFICES ASSUME Transcript, ReadActor \/ Require \/ Operate \/ Query PROVE Transcript'
  OBVIOUS
<1>1. items' = items
  BY DEF ReadActor, Require, Operate, Query
<1>2. Steady
  <2>1. CASE ReadActor
    BY <2>1 DEF ReadActor, Steady, Still, Ends, Goto, AtWork, admin
  <2>2. CASE Require
    BY <2>2 DEF Require, Steady, Still, Ends, Goto, AtWork, admin
  <2>3. CASE Operate
    BY <2>3 DEF Operate, Steady, Still, Ends, Gives, Goto, AtWork, admin
  <2>4. CASE Query
    BY <2>4 DEF Query, Steady, Still, Ends, Gives, Goto, AtWork, admin
  <2> QED BY <2>1, <2>2, <2>3, <2>4
<1> QED BY <1>1, <1>2, SteadySays

\* Everything else happens before the conversation or after it, or to the user.
LEMMA OthersSay ==
  /\ BotCommand \/ Handle \/ Final \/ Close \/ Report \/ RunReport \/ ReportFails \/ Deliver => Transcript'
  /\ Transcript /\ (Administer \/ UNCHANGED vars) => Transcript'
<1>1. ASSUME BotCommand \/ Handle \/ Final \/ Close \/ Report \/ RunReport \/ ReportFails \/ Deliver
      PROVE  pc' \notin {"ask", "call"} \cup AtWork
  <2>1. BotCommand => pc' \in {"handle", "router", "record"}
    BY DEF BotCommand, Goto
  <2>2. Handle => pc' \in {"record", "open"}
    BY DEF Handle, Goto
  <2>3. Final => pc' = "closing"
    BY DEF Final, Over, Goto
  <2>4. Close => pc' \in {"router", "record"}
    BY DEF Close, Goto, AfterThrow
  <2>5. Report \/ RunReport \/ ReportFails \/ Deliver => pc' \in {"record", "report", "failed", "done"}
    BY DEF Report, RunReport, ReportFails, Deliver, Goto
  <2> QED BY <1>1, <2>1, <2>2, <2>3, <2>4, <2>5 DEF AtWork
<1>2. ASSUME Transcript, Administer \/ UNCHANGED vars PROVE Transcript'
  <2>1. pc' = pc /\ count' = count /\ calls' = calls /\ items' = items
    BY <1>2 DEF Administer, vars
  <2> QED BY <1>2, <2>1 DEF Transcript, Made
<1> QED BY <1>1, <1>2, OutsideSays

LEMMA TranscriptKept == Spec => []Transcript
<1>1. Init => Transcript
  BY DEF Init, Transcript, AtWork
<1>2. IInv /\ Transcript /\ [Next]_vars => Transcript'
  BY OpenSays, AskSays, NextCallSays, RecordSays, WorkSays, OthersSay DEF Next, TurnNext
<1> QED BY <1>1, <1>2, Invariance, PTL DEF Spec

\* What joins into one message, for both providers: outputs do, and a replay not
\* with the answers before or behind it.
LEMMA Joining ==
  ASSUME NEW provider \in Providers, NEW a, NEW b
  PROVE  /\ a.kind = "output" /\ b.kind = "output" => Joins(provider, a, b)
         /\ a.kind = "output" /\ b.kind = "replay" => ~Joins(provider, a, b)
         /\ a.kind = "replay" /\ b.kind = "output" => ~Joins(provider, a, b)
         /\ a.kind # "replay" /\ b.kind = "replay" => ~Joins(provider, a, b)
  BY DEF Joins, AnthropicJoins, GeminiJoins, RoleOf, Providers

LEMMA AnsweredIsAll ==
  ASSUME NEW list \in Seq(Entry), AllTurns(list, 0), NEW n \in 1..Len(list),
         list[n].kind = "replay", NEW provider \in Providers
  PROVE  AllAnswered(provider, list, n)
<1> DEFINE ids == list[n].ids
           next == n + Len(ids) + 1
           L == Len(list)
<1>1. L \in Nat /\ n \in Nat /\ n >= 1 /\ n <= L /\ list[n] \in Entry
  OBVIOUS
<1>2. ids \in Seq(Nat) /\ Len(ids) \in Nat /\ DOMAIN ids = 1..Len(ids)
  BY <1>1 DEF Entry
<1>3. \A m \in 1..L : list[m].kind = "replay" => Answered(list, m)
  BY DEF AllTurns
<1>4. /\ ids # <<>> /\ n + Len(ids) <= L
      /\ \A k \in 1..Len(ids) : list[n + k] = Item("output", <<ids[k]>>)
      /\ n + Len(ids) < L => list[n + Len(ids) + 1].kind = "replay"
  BY <1>3 DEF Answered
<1>5. \A c : Item("output", <<c>>).kind = "output"
  BY DEF Item
<1>6. \A k \in 1..Len(ids) : list[n + k].kind = "output"
  BY <1>4, <1>5
<1> HIDE DEF ids, L
<1>7. Len(ids) >= 1
  BY <1>2, <1>4
<1>8. Begins(provider, list, n)
  <2>1. SUFFICES ASSUME n # 1 PROVE ~Joins(provider, list[n - 1], list[n])
    BY DEF Begins
  <2>2. n - 1 \in 1..L /\ (n - 1) + 1 = n
    BY <1>1, <2>1
  <2>3. list[n - 1].kind # "replay"
    <3>1. SUFFICES ASSUME list[n - 1].kind = "replay" PROVE FALSE
      OBVIOUS
    <3>2. PICK m \in 1..L : m = n - 1
      BY <2>2
    <3>3. /\ list[m].ids # <<>>
          /\ \A k \in 1..Len(list[m].ids) : list[m + k] = Item("output", <<list[m].ids[k]>>)
      BY <1>3, <3>1, <3>2 DEF Answered
    <3>4. list[m].ids \in Seq(Nat)
      <4>1. list[m] \in Entry
        BY <3>2 DEF L
      <4> QED BY <4>1 DEF Entry
    <3>5. 1 \in 1..Len(list[m].ids)
      BY <3>3, <3>4
    <3>6. list[m + 1].kind = "output"
      BY <1>5, <3>3, <3>5
    <3> QED BY <2>2, <3>2, <3>6
  <2> QED BY <2>3, Joining
<1>9. Begins(provider, list, n + 1)
  <2>1. list[n + 1].kind = "output"
    BY <1>2, <1>6, <1>7
  <2>2. (n + 1) - 1 = n
    BY <1>1
  <2> QED BY <2>1, <2>2, Joining DEF Begins
<1>10. Begins(provider, list, next)
  <2>1. SUFFICES ASSUME next # L + 1 PROVE ~Joins(provider, list[next - 1], list[next])
    BY DEF Begins, L
  <2>2. n + Len(ids) < L /\ next - 1 = n + Len(ids)
    BY <1>1, <1>2, <1>4, <2>1
  <2>3. list[next].kind = "replay"
    BY <1>4, <2>2
  <2>4. list[next - 1].kind = "output"
    BY <1>2, <1>6, <1>7, <2>2
  <2> QED BY <2>3, <2>4, Joining
<1>11. ASSUME NEW k \in 1..Len(ids), k > 1 PROVE ~Begins(provider, list, n + k)
  <2>1. k - 1 \in 1..Len(ids) /\ n + (k - 1) = (n + k) - 1 /\ n + k # 1 /\ n + k # L + 1
    BY <1>1, <1>2, <1>4, <1>11
  <2>2. list[n + (k - 1)].kind = "output" /\ list[n + k].kind = "output"
    BY <1>6, <2>1
  <2>3. list[(n + k) - 1].kind = "output"
    BY <2>1, <2>2
  <2>4. Joins(provider, list[(n + k) - 1], list[n + k])
    BY <2>2, <2>3, Joining
  <2> QED BY <2>1, <2>4 DEF Begins, L
<1>12. next <= L + 1
  BY <1>1, <1>2, <1>4
<1>13. \A k \in {n, n + 1, next} : Begins(provider, list, k)
  BY <1>8, <1>9, <1>10
<1>14. \A k \in DOMAIN ids : /\ list[n + k] = Item("output", <<ids[k]>>)
                             /\ k > 1 => ~Begins(provider, list, n + k)
  BY <1>2, <1>4, <1>11
<1> QED BY <1>4, <1>12, <1>13, <1>14 DEF AllAnswered, ids, L

LEMMA TranscriptImplies == Transcript => WellFormedRequest
<1> SUFFICES ASSUME Transcript, pc = "ask", NEW n \in DOMAIN items
             PROVE  /\ items[n].kind = "replay" =>
                         \A provider \in Providers : AllAnswered(provider, items, n)
                    /\ items[n].kind = "output" =>
                         /\ Named(items, n)
                         /\ \A m \in DOMAIN items : m # n => items[m] # items[n]
  BY DEF WellFormedRequest
<1>1. items \in Seq(Entry) /\ Known(items, Made) /\ AllTurns(items, 0)
  BY DEF Transcript
<1>2. DOMAIN items = 1..Len(items)
  BY <1>1
<1>3. items[n].kind = "replay" => \A provider \in Providers : AllAnswered(provider, items, n)
  BY <1>1, <1>2, AnsweredIsAll
<1>4. items[n].kind = "output" => /\ Named(items, n)
                                  /\ \A m \in DOMAIN items : m # n => items[m] # items[n]
  BY <1>1, <1>2 DEF Known
<1> QED BY <1>3, <1>4

\* Whatever mixture of good, unknown, refused and failed calls came before, and
\* whatever ids the model gives its calls, the request of the next turn is one that
\* both providers take: the calls of every turn are answered by the very next
\* message, all of them and nothing else, and each answer by the number of a call
\* that no other has (company-assistant.ts:976-1107,
\* anthropic-messages.gateway.ts:97-165, gemini-chat-completions.gateway.ts:188-234).
THEOREM RequestSafety == Spec => []RequestInv
<1>1. IInv /\ Transcript => RequestInv
  BY TranscriptImplies DEF IInv, Types, RequestInv
<1> QED BY <1>1, Invariance, TranscriptKept, PTL
=============================================================================
