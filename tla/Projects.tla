------------------------------- MODULE Projects --------------------------------
(***************************************************************************)
(* Stored projects and their baselines: services/projects.py and           *)
(* services/repository.py under the upload, baseline and delete routes of  *)
(* blueprints/main.py, on PostgreSQL's READ COMMITTED.                     *)
(*                                                                         *)
(* A request loads the rows it works on, decides, and commits everything   *)
(* it wrote in one transaction (deps.committing).  The first write of a    *)
(* baseline is the UPDATE of the project row, so two commits on one        *)
(* project follow each other, but each works on the rows it had loaded.    *)
(*                                                                         *)
(* A plan is the number of the revision that was imported; the dates the   *)
(* engine computes from it are abstracted to that number.                  *)
(***************************************************************************)
EXTENDS Integers, Sequences, FiniteSets, Bags

CONSTANTS
    Clients,        \* web clients and service callers
    Names,          \* baseline names
    MaxProjects,    \* bound: projects ever stored
    MaxPlans        \* bound: revisions ever imported

ASSUME ProjectsAssumption ==
    /\ IsFiniteSet(Clients) /\ IsFiniteSet(Names)
    /\ MaxProjects \in Nat /\ MaxPlans \in Nat

VARIABLES
    projects,       \* id -> stored Project row
    baselines,      \* stored Baseline rows
    trail,          \* bag of audit rows, each with the webhook event queued beside it
    inHand,         \* client -> the request in flight, or Waiting
    lastPlan        \* the newest revision imported

projectVars == <<projects, baselines, trail, inHand, lastPlan>>

Waiting == [op |-> "none"]
NoName == "no baseline"

Stored == {p \in DOMAIN projects : projects[p].stored}
BaselinesOf(p, rows) == {b \in rows : b.project = p}
NamesOf(rows) == {b.name : b \in rows}

(* unique_code: the wanted code, or the first free suffix.  Codes that do  *)
(* not start with it are no candidates, so a code is its suffix here.      *)
UniqueCode(taken) ==
    CHOOSE n \in 1..(MaxProjects + 1) :
        /\ n \notin taken
        /\ \A k \in 1..(n - 1) : k \in taken

(* Project.current_baseline: the first row that says so, whichever that is. *)
CurrentBaselines(p) == {b \in BaselinesOf(p, baselines) : b.current}

(* summary: what the project page prints, from a fresh calculation and the *)
(* current baseline; the slip is told by the two plans it compares.        *)
Summary(p) ==
    IF CurrentBaselines(p) = {} THEN {[baseline |-> NoName, slip |-> <<projects[p].plan, 0>>]}
    ELSE {[baseline |-> b.name, slip |-> <<projects[p].plan, b.plan>>] :
            b \in CurrentBaselines(p)}

(* stored_summary: what the project list prints, from the columns alone. *)
StoredSummary(p) ==
    [baseline |-> projects[p].headline,
     slip |-> <<projects[p].shown, projects[p].headlinePlan>>]

Recorded(action, p, name) ==
    trail (+) SetToBag({[action |-> action, project |-> p, name |-> name]})

--------------------------------------------------------------------------------
NewProject(code, plan) ==
    [stored |-> TRUE, code |-> code, plan |-> plan, shown |-> plan,
     headline |-> NoName, headlinePlan |-> 0]

ProjectsInit ==
    /\ projects = <<>>
    /\ baselines = {}
    /\ trail = EmptyBag
    /\ inHand = [c \in Clients |-> Waiting]
    /\ lastPlan = 0

(* The upload reads the organisation's codes and picks a free one. *)
LoadForUpload(c) ==
    /\ inHand[c] = Waiting
    /\ lastPlan < MaxPlans /\ Len(projects) < MaxProjects
    /\ inHand' = [inHand EXCEPT ![c] =
                    [op |-> "upload", code |-> UniqueCode({projects[p].code : p \in Stored})]]
    /\ UNCHANGED <<projects, baselines, trail, lastPlan>>

(* import_schedule, save_schedule and reschedule in one transaction; a code *)
(* somebody else took meanwhile breaks the unique (organisation, code).     *)
Upload(c) ==
    LET request == inHand[c] IN
    /\ request.op = "upload"
    /\ inHand' = [inHand EXCEPT ![c] = Waiting]
    /\ UNCHANGED baselines
    /\ IF \/ request.code \in {projects[p].code : p \in Stored}
          \/ Len(projects) = MaxProjects \/ lastPlan = MaxPlans
         THEN UNCHANGED <<projects, trail, lastPlan>>
         ELSE /\ lastPlan' = lastPlan + 1
              /\ projects' = Append(projects, NewProject(request.code, lastPlan + 1))
              /\ trail' = Recorded("project.import", Len(projects) + 1, NoName)

(* A request on a stored project loads the row and its baselines. *)
LoadForChange(c) ==
    /\ inHand[c] = Waiting
    /\ \E p \in Stored, op \in {"baseline", "delete", "reimport"}, name \in Names :
         inHand' = [inHand EXCEPT ![c] =
                      [op |-> op, project |-> p, row |-> projects[p],
                       baselines |-> BaselinesOf(p, baselines),
                       name |-> IF op = "baseline" THEN name ELSE NoName]]
    /\ UNCHANGED <<projects, baselines, trail, lastPlan>>

(* reschedule and write_back: what the engine computed from the loaded plan. *)
WriteBack(row) == [row EXCEPT !.shown = row.plan]

(* Fault: the unique key on a project's baseline names is not there. *)
AcceptedAsLoaded(request) == request.name \notin NamesOf(request.baselines)

(* The name was not among the loaded baselines, the project is still there *)
(* to update, and nobody stored the name meanwhile (unique per project).   *)
BaselineAccepted(request) ==
    /\ request.name \notin NamesOf(request.baselines)
    /\ request.project \in Stored
    /\ request.name \notin NamesOf(BaselinesOf(request.project, baselines))

(* Fault: the flags are cleared after the new baseline was added. *)
ClearedLast(request) ==
    {IF b.project = request.project THEN [b EXCEPT !.current = FALSE] ELSE b :
       b \in baselines \cup {[project |-> request.project, name |-> request.name,
                              plan |-> WriteBack(request.row).shown, current |-> TRUE]}}

(* The loaded baselines stop being current; one a rival stored meanwhile   *)
(* is not among them.                                                      *)
WithNewBaseline(request) ==
    {IF b \in request.baselines THEN [b EXCEPT !.current = FALSE] ELSE b : b \in baselines}
      \cup {[project |-> request.project, name |-> request.name,
             plan |-> WriteBack(request.row).shown, current |-> TRUE]}

(* set_baseline and its route: baseline, headline, audit row and event, or nothing. *)
SetBaseline(c) ==
    LET request == inHand[c] IN
    /\ request.op = "baseline"
    /\ inHand' = [inHand EXCEPT ![c] = Waiting]
    /\ UNCHANGED lastPlan
    /\ IF ~BaselineAccepted(request)
         THEN UNCHANGED <<projects, baselines, trail>>
         ELSE /\ baselines' = WithNewBaseline(request)
              /\ projects' = [projects EXCEPT ![request.project] =
                    [@ EXCEPT !.headline = request.name,
                              !.headlinePlan = WriteBack(request.row).shown]]
              /\ trail' = Recorded("baseline.set", request.project, request.name)

(* delete_project: audit and event first, then the row and, by cascade,    *)
(* its baselines.  A row that is already gone is a warning, not an error.  *)
DeleteProject(c) ==
    LET request == inHand[c] IN
    /\ request.op = "delete"
    /\ inHand' = [inHand EXCEPT ![c] = Waiting]
    /\ projects' = [projects EXCEPT ![request.project].stored = FALSE]
    /\ baselines' = baselines \ BaselinesOf(request.project, baselines)
    /\ trail' = Recorded("project.delete", request.project, NoName)
    /\ UNCHANGED lastPlan

(* import_schedule with a project: its contents are replaced, its baselines *)
(* stay.  Revisions share calendar keys and codes, so of two that loaded    *)
(* the same rows the second breaks a unique key.  A service call; no route  *)
(* passes a project.                                                        *)
Reimport(c) ==
    LET request == inHand[c] IN
    /\ request.op = "reimport"
    /\ inHand' = [inHand EXCEPT ![c] = Waiting]
    /\ UNCHANGED <<baselines, trail>>
    /\ IF \/ request.project \notin Stored \/ lastPlan = MaxPlans
          \/ projects[request.project].plan # request.row.plan
         THEN UNCHANGED <<projects, lastPlan>>
         ELSE /\ lastPlan' = lastPlan + 1
              /\ projects' = [projects EXCEPT ![request.project] =
                                [@ EXCEPT !.plan = lastPlan + 1, !.shown = lastPlan + 1]]

(* The worker dies before the commit and the transaction is rolled back. *)
Abandon(c) ==
    /\ inHand[c] # Waiting
    /\ inHand' = [inHand EXCEPT ![c] = Waiting]
    /\ UNCHANGED <<projects, baselines, trail, lastPlan>>

ProjectsNext ==
    \E c \in Clients :
        \/ LoadForUpload(c) \/ Upload(c)
        \/ LoadForChange(c) \/ SetBaseline(c) \/ DeleteProject(c) \/ Reimport(c)
        \/ Abandon(c)

ProjectsSpec == ProjectsInit /\ [][ProjectsNext]_projectVars
================================================================================
