-------------------------- MODULE MCAssistantTurn --------------------------
EXTENDS AssistantTurn

Employee == [active |-> TRUE, role |-> "employee", dept |-> "d1", grants |-> {"company.projects"}]
Executive == [active |-> TRUE, role |-> "executive", dept |-> "null",
              grants |-> {"company.projects", Explore, "r1"}]

Full == [llm |-> TRUE, chat |-> TRUE, reports |-> TRUE, explore |-> TRUE]
CompanyOnly == [Full EXCEPT !.chat = FALSE, !.reports = FALSE]
NoModel == [Full EXCEPT !.llm = FALSE, !.explore = FALSE]

Plain == [command |-> "none", fixed |-> "none", class |-> "null", weak |-> FALSE,
          inspect |-> FALSE, report |-> "none"]
Clear == [Plain EXCEPT !.class = "COMPANY_CLEAR", !.report = "get_active_projects"]

Start(c, r, q) == [config |-> c, row |-> r, request |-> q]

SomeStarts ==
  {Start(Full, Employee, Clear),
   Start(Full, Executive, [Clear EXCEPT !.inspect = TRUE]),
   Start(Full, Employee, [Plain EXCEPT !.weak = TRUE]),
   Start(Full, Employee, [Plain EXCEPT !.fixed = "bareScope"]),
   Start(Full, Employee, [Plain EXCEPT !.command = "erasure"]),
   Start(CompanyOnly, Employee, Clear),
   Start(CompanyOnly, Employee, [Plain EXCEPT !.fixed = "menu", !.report = "menu"]),
   Start(NoModel, Employee, Clear),
   Start(NoModel, Employee, [Plain EXCEPT !.fixed = "menu", !.report = "menu"])}

Good(name) == [name |-> name, id |-> "fresh", args |-> "good"]

SomeForms ==
  {Good("get_active_projects"), Good("describe_database"), Good("query_database"), Good("other"),
   [Good("get_active_projects") EXCEPT !.args = "invalid"],
   [Good("get_active_projects") EXCEPT !.args = "unparsable"],
   [Good("get_active_projects") EXCEPT !.id = "seen"]}
=============================================================================
