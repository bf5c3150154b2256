--------------------------- MODULE AssistantTurn ---------------------------
(***************************************************************************)
(* One message of one user, from the whitelist's answer to the reply        *)
(* (BotCommandRouter, FallbackAssistantResponder, CompanyLlmAssistant, the  *)
(* MCP session and company-server.ts, ReportCommandRouter, and the part of  *)
(* MessageProcessor.execute that records and delivers), while an            *)
(* administrator changes the user's role, department and permissions.  The  *)
(* language model is a stranger: it may ask for any tools in any order,     *)
(* answer anything, or fail.                                                *)
(***************************************************************************)
EXTENDS Integers, Sequences, FiniteSets, SequencesExt

CONSTANTS
  Departments,
  Relations,    \* approved relations; each is its own resource
  Starts,       \* bound: the deployments, users and requests to begin with
  NewRoles,     \* bound: the roles an administrator gives
  MaxChanges,   \* bound: changes an administrator makes
  Forms,        \* bound: what a function call may be
  MaxParallel,  \* bound: function calls in one turn of the model
  MaxToolCalls,
  MaxDescribe   \* MAX_SCHEMA_DISCOVERY_CALLS_PER_MESSAGE

Explore == "company.database.explore"
ReportOf == [get_sales_summary   |-> "company.sales",
             get_active_projects |-> "company.projects",
             get_overdue_tasks   |-> "company.tasks"]
Reports == DOMAIN ReportOf
Tools == Reports \cup {"describe_database", "query_database"}
ResourceOf(tool) == IF tool \in Reports THEN ReportOf[tool] ELSE Explore
Resources == {ResourceOf(tool) : tool \in Tools} \cup Relations

CrossDepartment == {"manager", "executive", "admin"}
Explorers == {"executive", "admin"}
Roles == CrossDepartment \cup {"employee"}

User == [active : BOOLEAN, role : Roles, dept : Departments \cup {"null"}, grants : SUBSET Resources]

\* What the patterns of the routers and of the assistant make of a text.
Classes == {"SECURITY_SENSITIVE", "COMPANY_CLEAR", "COMPANY_NEEDS_CLARIFICATION", "GENERAL"}
Request == [command : {"erasure", "privacy", "access", "none"},
            fixed   : {"empty", "menu", "identity", "bareScope", "none"},
            class   : Classes \cup {"null"}, weak : BOOLEAN, inspect : BOOLEAN,
            report  : Reports \cup {"menu", "none"}]

\* A function call: its id is new, was used before, or is missing or too long;
\* its arguments are as the schema has them, or not, or not even JSON.
Form == [name : Tools \cup {"other"}, id : {"fresh", "seen", "missing"},
         args : {"good", "invalid", "unparsable"}]

Config == [llm : BOOLEAN, chat : BOOLEAN, reports : BOOLEAN, explore : BOOLEAN]

ASSUME AssistantAssumption ==
  /\ Starts \subseteq [config : Config, row : User, request : Request]
  /\ Forms \subseteq Form /\ NewRoles \subseteq Roles
  /\ MaxToolCalls \in Nat \ {0} /\ MaxDescribe \in Nat /\ MaxChanges \in Nat
  /\ MaxParallel \in Nat \ {0}

VARIABLES
  config,   \* the deployment
  row,      \* the user in users and permissions
  changes,  \* changes made to it
  user,     \* the user as the queued message carries it
  request,
  pc,
  class,    \* the request's classification
  session,  \* the MCP session
  offered,  \* allowedToolNames
  count,    \* the counters of handle()
  calls,    \* function calls of the model's turn not yet made
  items,    \* inputItems
  tool,     \* the call in hand: its name, its actor, how it went, what it gave
  evidence, \* what successful calls gave, as shown to the model
  log,      \* audit events about this message
  held,     \* history: permissions and users in force at some moment of the turn
  reply

vars == <<config, row, changes, user, request, pc, class, session, offered, count, calls, items, tool,
          evidence, log, held, reply>>
admin == <<config, row, changes, user, request>>

NoUser == [active |-> FALSE, role |-> "employee", dept |-> "null", grants |-> {}]
NoTool == [name |-> "none", actor |-> NoUser, outcome |-> "none", data |-> {}]
NoReply == [text |-> "none", outcome |-> "none", data |-> {}]
Threw == [NoReply EXCEPT !.outcome = "threw"]
Counters == {"calls", "describe", "query", "data", "discovery", "denied", "failed", "unsupported"}

\* has() and findAllowed(): the permissions of an active user.
Effective(u) == IF u.active THEN u.grants ELSE {}
Now(u) == [grants |-> Effective(u), users |-> {u}]

Init ==
  /\ \E s \in Starts : config = s.config /\ row = s.row /\ request = s.request
  /\ user = row /\ changes = 0
  /\ pc = "queued" /\ class = "none" /\ session = "none" /\ offered = {}
  /\ count = [c \in Counters |-> 0]
  /\ calls = <<>> /\ items = <<>> /\ tool = NoTool
  /\ evidence = {} /\ log = {}
  /\ held = [grants |-> {}, users |-> {}] /\ reply = NoReply

-----------------------------------------------------------------------------
\* The administrator changes one thing of the user, at any moment.
Administer ==
  /\ changes < MaxChanges /\ pc \notin {"done", "failed"}
  /\ changes' = changes + 1
  /\ \/ row' = [row EXCEPT !.active = ~@]
     \/ \E r \in NewRoles \ {row.role} : row' = [row EXCEPT !.role = r]
     \/ \E d \in Departments \cup {"null"} : d # row.dept /\ row' = [row EXCEPT !.dept = d]
     \/ \E r \in Resources : row' = [row EXCEPT !.grants = IF r \in @ THEN @ \ {r} ELSE @ \cup {r}]
  /\ held' = IF pc = "queued" THEN held
             ELSE [grants |-> held.grants \cup Effective(row'), users |-> held.users \cup {row'}]
  /\ UNCHANGED <<config, user, request, pc, class, session, offered, count, calls, items, tool, evidence,
                 log, reply>>

Event(type, outcome, data) == [type |-> type, outcome |-> outcome, data |-> data]

Goto(place) == pc' = place
Answer(text, outcome, data) == reply' = [text |-> text, outcome |-> outcome, data |-> data]
Working == <<class, session, offered, count, calls, items, tool, evidence>>

\* A self-service command is answered whether or not its intake event is written.
BotCommand ==
  /\ pc = "queued"
  /\ held' = Now(row)
  /\ IF request.command = "none"
     THEN /\ Goto(IF config.llm THEN "handle" ELSE "router")
          /\ UNCHANGED <<log, reply>>
     ELSE /\ Goto("record")
          /\ Answer("fixed", "success", {})
          /\ \/ request.command \in {"erasure", "access"}
                /\ log' = log \cup {Event(request.command, "success", {})}
             \/ UNCHANGED log
  /\ UNCHANGED <<admin, Working>>

\* Requests the assistant answers with a text of its own.
Outright ==
  CASE request.fixed = "empty" -> "unsupported"
    [] request.fixed \in {"menu", "identity"} -> "success"
    [] request.fixed = "bareScope" /\ config.chat -> "success"
    [] OTHER -> "none"

\* The deterministic label, else the model's, which may only make a company-like
\* text safer; a classifier that fails does the same.
Classification(label) ==
  IF ~config.chat
  THEN IF request.class = "SECURITY_SENSITIVE" THEN request.class ELSE "COMPANY_CLEAR"
  ELSE IF request.class # "null" THEN request.class
  ELSE IF label \in {"GENERAL", "threw"}
       THEN IF request.weak THEN "COMPANY_NEEDS_CLARIFICATION" ELSE "GENERAL"
       ELSE label

\* handle() up to the session: a fixed text, a refusal, a question, or go on.
Handle ==
  /\ pc = "handle"
  /\ IF Outright # "none"
     THEN Goto("record") /\ Answer("fixed", Outright, {}) /\ UNCHANGED class
     ELSE \E label \in Classes \cup {"threw"} :
       /\ class' = Classification(label)
       /\ IF class' \in {"COMPANY_CLEAR", "GENERAL"} THEN Goto("open") /\ UNCHANGED reply
          ELSE Goto("record")
               /\ Answer("fixed", IF class' = "SECURITY_SENSITIVE" THEN "denied" ELSE "success", {})
  /\ UNCHANGED <<admin, session, offered, count, calls, items, tool, evidence, log, held>>

\* Tools of the deployment that the user's role and permissions open.
Openable ==
  {t \in Tools : /\ IF t \in Reports THEN config.reports
                    ELSE config.explore /\ user.role \in Explorers
                 /\ ResourceOf(t) \in Effective(row)}

Item(kind, ids) == [kind |-> kind, ids |-> ids]

\* sessions.open and listTools; earlier questions of the user come before this one.
Open ==
  /\ pc = "open"
  /\ \/ /\ session' = "open" /\ offered' = Openable /\ Goto("ask")
        /\ \E history \in 0..1 : items' = [k \in 1..(history + 1) |-> Item("user", <<>>)]
        /\ UNCHANGED reply
     \/ /\ session' \in {"none", "open"} /\ Goto("closing") /\ reply' = Threw
        /\ UNCHANGED <<offered, items>>
  /\ UNCHANGED <<admin, class, count, calls, tool, evidence, log, held>>

-----------------------------------------------------------------------------
\* The turn is over; its calls and items are nobody's.
Over == Goto("closing") /\ calls' = <<>> /\ items' = <<>>
Throw == Over /\ reply' = Threw

\* Fresh calls are numbered on; 0 is no id.
IdOf(form, k) ==
  CASE form.id = "fresh" -> count.calls + k [] form.id = "seen" -> 1 [] OTHER -> 0

\* The model's turn: function calls, or its answer, or a failure.
Ask ==
  /\ pc = "ask"
  /\ \/ Throw
     \/ \E turn \in BoundedSeq(Forms, MaxParallel) :
          LET ids == [k \in DOMAIN turn |-> IdOf(turn[k], k)] IN
          /\ calls' = [k \in DOMAIN turn |-> [id |-> ids[k], form |-> turn[k]]]
          /\ items' = Append(items, Item("replay", ids))
          /\ Goto(IF turn = <<>> THEN "final" ELSE "call")
          /\ UNCHANGED reply
  /\ UNCHANGED <<admin, class, session, offered, count, tool, evidence, log, held>>

Bump(fields) == [c \in Counters |-> IF c \in fields THEN count[c] + 1 ELSE count[c]]

Kind(name) == CASE name = "describe_database" -> {"describe"}
                [] name = "query_database" -> {"query"}
                [] OTHER -> {}

\* After the counters count the call.
Refused(name) ==
  \/ name \notin offered
  \/ name = "describe_database" /\ count.describe >= MaxDescribe
  \/ name = "query_database" /\ count.query >= 1

\* What a result adds to the counters, and what it shows to the model.
Mark(name, outcome) ==
  CASE outcome = "denied" -> "denied"
    [] outcome = "failed" -> "failed"
    [] outcome = "unknown" -> "unsupported"
    [] OTHER -> IF name = "describe_database" THEN "discovery" ELSE "data"

Outputs(call) ==
  /\ calls' = Tail(calls) /\ items' = Append(items, Item("output", <<call.id>>))
  /\ UNCHANGED <<pc, tool, reply>>

UsedBeforeNever == {0}
Used == 0..count.calls

\* The next call of the turn, or the next turn.
NextCall ==
  LET call == Head(calls)
      name == call.form.name
  IN
  /\ pc = "call"
  /\ IF calls = <<>> THEN Goto("ask") /\ UNCHANGED <<count, calls, items, tool, reply>>
     ELSE IF \/ count.calls >= MaxToolCalls
             \/ call.id \in Used
             \/ ~Refused(name) /\ call.form.args = "unparsable"
     THEN Throw /\ UNCHANGED <<count, tool>>
     ELSE IF Refused(name)
     THEN count' = Bump({"calls", Mark(name, "unknown")} \cup Kind(name)) /\ Outputs(call)
     ELSE IF call.form.args = "invalid"
     THEN count' = Bump({"calls", Mark(name, "failed")} \cup Kind(name)) /\ Outputs(call)
     ELSE /\ count' = Bump({"calls"} \cup Kind(name))
          /\ tool' = [NoTool EXCEPT !.name = name]
          /\ Goto("actor") /\ UNCHANGED <<calls, items, reply>>
  /\ UNCHANGED <<admin, class, session, offered, evidence, log, held>>

-----------------------------------------------------------------------------
\* runTool: what each await waits for.
Ends(outcome) == Goto("recordFailure") /\ tool' = [tool EXCEPT !.outcome = outcome]

\* The user again, as it is now.
ReadActor ==
  /\ pc = "actor"
  /\ \/ Ends("failed")
     \/ IF row.active THEN Goto("require") /\ tool' = [tool EXCEPT !.actor = row] ELSE Ends("denied")
  /\ UNCHANGED <<admin, class, session, offered, count, calls, items, evidence, log, held, reply>>

Require ==
  /\ pc = "require"
  /\ \/ Ends("failed")
     \/ IF ResourceOf(tool.name) \in Effective(row) THEN Goto("operate") /\ UNCHANGED tool
        ELSE Ends("denied")
  /\ UNCHANGED <<admin, class, session, offered, count, calls, items, evidence, log, held, reply>>

\* What a call gives: by which tool, under which permissions, from which departments.
Datum(by, needs, dept) == [by |-> by, needs |-> needs, dept |-> dept]
Listed(r) == Datum(tool.name, {Explore, r}, "all")

\* The departments a list is drawn from: everything for some roles, one's own for the rest.
Scope(u, name) ==
  IF name = "get_sales_summary" \/ u.role \in CrossDepartment THEN "all" ELSE u.dept

Gives(data) == Goto("recordSuccess") /\ tool' = [tool EXCEPT !.outcome = "ok", !.data = data]

\* The operation of the tool.
Operate ==
  /\ pc = "operate"
  /\ IF tool.name \in Reports
     THEN LET scope == Scope(tool.actor, tool.name) IN
          IF scope = "null" THEN Ends("denied")
          ELSE Ends("failed") \/ Gives({Datum(tool.name, {ReportOf[tool.name]}, scope)})
     ELSE IF tool.actor.role \notin Explorers THEN Ends("denied")
     ELSE IF tool.name = "describe_database"
     THEN Ends("failed") \/ Gives({Listed(r) : r \in Relations \cap Effective(row)})
     ELSE \/ Ends("failed")
          \/ \E r \in Relations :
               IF r \in Effective(row)
               THEN Goto("query") /\ tool' = [tool EXCEPT !.data = {Listed(r)}]
               ELSE Ends("denied")
  /\ UNCHANGED <<admin, class, session, offered, count, calls, items, evidence, log, held, reply>>

Query ==
  /\ pc = "query"
  /\ Ends("failed") \/ Gives(tool.data)
  /\ UNCHANGED <<admin, class, session, offered, count, calls, items, evidence, log, held, reply>>

Returns(outcome, data) ==
  /\ Goto("call")
  /\ count' = Bump({Mark(tool.name, outcome)})
  /\ evidence' = evidence \cup data
  /\ items' = Append(items, Item("output", <<Head(calls).id>>))
  /\ calls' = Tail(calls) /\ tool' = NoTool

Unrecorded == Returns("ok", tool.data)

\* The event of a success could not be written: the call failed.
AuditFails == Ends("failed") /\ UNCHANGED <<count, evidence, items, calls>>

\* The data leave the server once their event is written, and not otherwise.
RecordSuccess ==
  /\ pc = "recordSuccess"
  /\ \/ log' = log \cup {Event("tool", "success", tool.data)} /\ Returns("ok", tool.data)
     \/ AuditFails /\ UNCHANGED log
  /\ UNCHANGED <<admin, class, session, offered, held, reply>>

\* Best effort.
RecordFailure ==
  /\ pc = "recordFailure"
  /\ \/ log' = log \cup {Event("tool", tool.outcome, {})}
     \/ UNCHANGED log
  /\ Returns(tool.outcome, {})
  /\ UNCHANGED <<admin, class, session, offered, held, reply>>

-----------------------------------------------------------------------------
Blamed == IF count.denied > 0 THEN "denied"
          ELSE IF count.failed > 0 THEN "failed"
          ELSE IF count.unsupported > 0 THEN "unsupported" ELSE "none"

Business == count.calls > 0 \/ class = "COMPANY_CLEAR"

SchemaOnly ==
  count.calls > 0 /\ count.data = 0 /\ request.inspect /\ count.discovery > 0 /\ Blamed = "none"

UnguardedReason == "none"

\* Why a business answer may not be in the model's own words.
GuardedReason ==
  IF ~Business \/ SchemaOnly THEN "none"
  ELSE IF Blamed # "none" THEN Blamed
  ELSE IF count.data = 0 THEN "unsupported" ELSE "none"

\* The model's words: which data they repeat, and whether they look like an instruction.
Grounded(words, suspicious) ==
  ~suspicious /\ \E d \in words : d.by # "describe_database"

\* The model has answered: its words, the catalogue, or a text saying why not.
Final ==
  /\ pc = "final"
  /\ IF GuardedReason # "none"
     THEN Answer("fixed", IF GuardedReason = "denied" THEN "denied" ELSE "unsupported", {})
     ELSE IF SchemaOnly THEN Answer("schema", "success", evidence)
     ELSE \/ reply' = Threw
          \/ \E words \in {{}} \cup {{d} : d \in evidence}, suspicious \in BOOLEAN :
               IF count.data > 0 /\ ~Grounded(words, suspicious)
               THEN Answer("fixed", "unsupported", {})
               ELSE Answer("model", IF count.data > 0 \/ (config.chat /\ count.calls = 0)
                                    THEN "success" ELSE "unsupported", evidence)
  /\ Over
  /\ UNCHANGED <<admin, class, session, offered, count, tool, evidence, log, held>>

AfterThrowRetry == "handle"

\* An assistant that throws is not asked again.
AfterThrow == "router"

\* finally: session.close(), whose failure is the failure of the whole.
Closed == IF session = "open" THEN "closed" ELSE session

Close ==
  /\ pc = "closing"
  /\ session' = Closed
  /\ reply' \in {reply} \cup (IF session = "open" THEN {Threw} ELSE {})
  /\ Goto(IF reply' = Threw THEN AfterThrow ELSE "record")
  /\ UNCHANGED <<admin, class, offered, count, calls, items, tool, evidence, log, held>>

-----------------------------------------------------------------------------
\* The report router, alone or in place of the assistant that threw.  The role
\* and the department are those the message was queued with.
Report ==
  /\ pc = "router"
  /\ IF ~config.reports \/ request.report = "none"
     THEN Goto("record") /\ Answer("fixed", "unsupported", {})
     ELSE IF request.report = "menu"
     THEN /\ Goto("record")
          /\ Answer("fixed", IF Effective(row) \cap {ReportOf[r] : r \in Reports} = {}
                             THEN "denied" ELSE "success", {})
     ELSE IF \/ ReportOf[request.report] \notin Effective(row)
             \/ Scope(user, request.report) = "null"
     THEN Goto("record") /\ Answer("fixed", "denied", {})
     ELSE Goto("report") /\ UNCHANGED reply
  /\ UNCHANGED <<admin, Working, log, held>>

RunReport ==
  /\ pc = "report"
  /\ \/ /\ Goto("record")
        /\ Answer("report", "success",
                  {Datum("router", {ReportOf[request.report]}, Scope(user, request.report))})
     \/ Goto("failed") /\ reply' = Threw
  /\ UNCHANGED <<admin, Working, log, held>>

\* The report or the permission query fails, and the message with it.
ReportFails ==
  /\ pc = "router" /\ config.reports /\ request.report # "none"
  /\ Goto("failed") /\ reply' = Threw
  /\ UNCHANGED <<admin, Working, log, held>>

\* execute(): the event first, then the reply.
Deliver ==
  /\ pc = "record"
  /\ \/ Goto("done") /\ UNCHANGED reply
        /\ log' = log \cup {Event("request", reply.outcome, reply.data)}
     \/ Goto("failed") /\ reply' = Threw /\ UNCHANGED log
  /\ UNCHANGED <<admin, Working, held>>

TurnNext ==
  \/ BotCommand \/ Handle \/ Open \/ Ask \/ NextCall
  \/ ReadActor \/ Require \/ Operate \/ Query \/ RecordSuccess \/ RecordFailure
  \/ Final \/ Close
  \/ Report \/ RunReport \/ ReportFails \/ Deliver

Next == Administer \/ TurnNext

\* Every call of the turn answers, fails or times out (the gateways' AbortSignal,
\* the pools' statement_timeout).
Spec == Init /\ [][Next]_vars /\ WF_vars(TurnNext)

-----------------------------------------------------------------------------
TypeOK ==
  /\ config \in Config /\ row \in User /\ user \in User /\ request \in Request
  /\ changes \in 0..MaxChanges
  /\ pc \in {"queued", "handle", "open", "ask", "call", "actor", "require", "operate", "query",
            "recordSuccess", "recordFailure", "final", "closing", "router", "report", "record",
            "done", "failed"}
  /\ class \in Classes \cup {"none"} /\ session \in {"none", "open", "closed"}
  /\ offered \subseteq Tools /\ count \in [Counters -> 0..MaxToolCalls]
  /\ tool.name \in Tools \cup {"none"} /\ tool.actor \in User
  /\ reply.text \in {"none", "fixed", "model", "schema", "report"}
  /\ held.grants \subseteq Resources /\ held.users \subseteq User

\* What the model or the user is shown was allowed at some moment of the turn,
\* whoever the user was when the message was queued; what a tool gives comes from
\* the departments and through the role the user had in the turn; and the audit
\* log holds it before it is shown (company-server.ts:71-90, 245-262, 280-300,
\* fallback-responder.ts:28, message-processor.ts:480).  The report router is
\* held to the role and department of the queued message only.
ScopesOf(u) == IF u.role \in CrossDepartment THEN Departments \cup {"all"} ELSE {u.dept}

Allowed(d) ==
  /\ d.needs \subseteq held.grants
  /\ \E u \in (IF d.by = "router" THEN {user} ELSE held.users) :
       /\ d.by \in {"describe_database", "query_database"} => u.role \in Explorers
       /\ d.needs # {"company.sales"} => d.dept \in ScopesOf(u)

Accounted(d) == \E e \in log : e.outcome = "success" /\ d \in e.data

Disclosure ==
  /\ \A d \in evidence : Allowed(d) /\ Accounted(d)
  /\ \A d \in reply.data : Allowed(d) /\ (pc = "done" => Accounted(d))

\* A company request is never answered in the model's words without data that a
\* tool gave for it, and a call that was denied or failed leaves none of them in
\* the answer (company-assistant.ts:1000-1057).
Guarded ==
  reply.text = "model" /\ (class = "COMPANY_CLEAR" \/ count.calls > 0) =>
    /\ \E d \in reply.data : d.by # "describe_database"
    /\ \A e \in log : e.type = "tool" => e.outcome = "success"

\* Both providers refuse a request in which the calls of a turn are not answered
\* by the very next message, all of them and nothing else, or in which an answer
\* names no call or the call of another: whatever mixture of good, unknown, refused
\* and failed calls came before, the next request is well-formed
\* (anthropic-messages.gateway.ts:125-165, gemini-chat-completions.gateway.ts:188-234).
RoleOf(item) == IF item.kind = "replay" THEN "assistant" ELSE "user"

\* What comes from one side goes into one message; with Gemini, the results do.
AnthropicJoins(a, b) == RoleOf(a) = RoleOf(b)
GeminiJoins(a, b) == a.kind = "output" /\ b.kind = "output"

Providers == {"anthropic", "gemini"}
Joins(provider, a, b) ==
  IF provider = "anthropic" THEN AnthropicJoins(a, b) ELSE GeminiJoins(a, b)

\* A message of the request begins with the n-th item, or the request ends before it.
Begins(provider, list, n) ==
  n = 1 \/ n = Len(list) + 1 \/ ~Joins(provider, list[n - 1], list[n])

AllAnswered(provider, list, n) ==
  LET ids == list[n].ids
      next == n + Len(ids) + 1
  IN
  /\ ids # <<>> /\ next <= Len(list) + 1
  /\ \A k \in {n, n + 1, next} : Begins(provider, list, k)
  /\ \A k \in DOMAIN ids : /\ list[n + k] = Item("output", <<ids[k]>>)
                           /\ k > 1 => ~Begins(provider, list, n + k)

\* callNames.get(item.call_id)
Named(list, n) ==
  \E m \in 1..(n - 1) : list[m].kind = "replay" /\ \E k \in DOMAIN list[m].ids :
    list[n].ids = <<list[m].ids[k]>>

WellFormedRequest ==
  pc = "ask" => \A n \in DOMAIN items :
    /\ items[n].kind = "replay" => \A provider \in Providers : AllAnswered(provider, items, n)
    /\ items[n].kind = "output" => /\ Named(items, n)
                                   /\ \A m \in DOMAIN items : m # n => items[m] # items[n]

\* The types, and what is asked of every provider.
RequestInv == TypeOK /\ WellFormedRequest

\* The turn ends, with the session closed, whatever the model asks for and
\* whatever fails (company-assistant.ts:976-1112).
TurnEnds == <>[](pc \in {"done", "failed"} /\ session # "open")
=============================================================================
