------------------------------ MODULE MCServices -------------------------------
(***************************************************************************)
(* The services side by side: they share the request pattern and no rows,  *)
(* so each behaviour runs one of them, the scene.                          *)
(***************************************************************************)
EXTENDS ServiceProperties, TLC

CONSTANT Scenes        \* the scenes that are played
VARIABLE scene

ShortAndLong == [sign_in |-> [count |-> 2, seconds |-> 4],
                 upload |-> [count |-> 1, seconds |-> 2]]
Strings == <<"B", "A", "T", "S">>

(* The scenes share their clients, who are interchangeable, and the names  *)
(* of baselines and organisations; a behaviour stays in one scene.         *)
Clones == Permutations(Clients) \cup Permutations(Names)

MCInit ==
    /\ scene \in Scenes
    /\ ProjectsInit /\ BreakdownInit /\ BoardInit
    /\ RateLimitInit /\ AccountsInit /\ RegistrationInit
    /\ scene # "limits" => store = "memory"
    /\ scene \notin {"accounts", "one request"} => ~user.bySso

(* Two scenes for the account: requests that may overlap, within a minute, *)
(* around refusals, enrolments or a departure; and more of them over a     *)
(* longer time, each answered before the next is made.                     *)
Departures == Cardinality(Orgs \ user'.memberOf) + IF user'.isActive THEN 0 ELSE 1
OverlappingRequests == minute' = 1 /\ streak' + enrolments' + 2 * Departures <= 3
OneAtATime == ~crossed' /\ enrolments' + Departures <= 3

MCNext ==
    /\ UNCHANGED scene
    /\ \/ /\ scene = "projects" /\ ProjectsNext
          /\ UNCHANGED <<breakdownVars, boardVars, limitVars, accountVars, registrationVars>>
       \/ /\ scene = "breakdown" /\ BreakdownNext
          /\ UNCHANGED <<projectVars, boardVars, limitVars, accountVars, registrationVars>>
       \/ /\ scene = "board" /\ BoardNext
          /\ UNCHANGED <<projectVars, breakdownVars, limitVars, accountVars, registrationVars>>
       \/ /\ scene = "limits" /\ RateLimitNext
          /\ UNCHANGED <<projectVars, breakdownVars, boardVars, accountVars, registrationVars>>
       \/ /\ \/ scene = "accounts" /\ AccountsNext /\ OverlappingRequests
             \/ scene = "one request" /\ AccountsNext /\ OneAtATime
          /\ UNCHANGED <<projectVars, breakdownVars, boardVars, limitVars, registrationVars>>
       \/ /\ scene = "registration" /\ RegistrationNext
          /\ UNCHANGED <<projectVars, breakdownVars, boardVars, limitVars, accountVars>>
================================================================================
