--------------------------- MODULE ServiceProperties ---------------------------
(***************************************************************************)
(* What the stored state promises whatever two requests do between their   *)
(* reads and their commits.  Where the code itself gives a promise up when *)
(* requests overlap, the property says so and the README tells the story.  *)
(***************************************************************************)
EXTENDS Projects, Breakdown, LastPlanner, RateLimit, Accounts, Registration

Count(action, p, name) ==
    LET entry == [action |-> action, project |-> p, name |-> name]
    IN  IF entry \in DOMAIN trail THEN trail[entry] ELSE 0

(* The project list, which prints stored columns, agrees with the project  *)
(* page, which computes: the same dates, a current baseline's name, and    *)
(* the finish that baseline froze, whoever else was setting one or         *)
(* importing a revision.                                                   *)
ListAgreesWithPage == \A p \in Stored : StoredSummary(p) \in Summary(p)

(* The audit trail and the webhook events queued with it tell what         *)
(* happened: one record for every stored baseline and every project ever   *)
(* imported, a deletion only of a project that is gone and for every one   *)
(* that is gone; a refused, failed or abandoned request has none.          *)
TrailTellsWhatHappened ==
    /\ \A p \in DOMAIN projects :
         /\ Count("project.import", p, NoName) = 1
         /\ projects[p].stored <=> Count("project.delete", p, NoName) = 0
         /\ \A n \in Names :
              projects[p].stored =>
                Count("baseline.set", p, n) =
                  Cardinality({b \in baselines : b.project = p /\ b.name = n})
    /\ \A b \in baselines : b.project \in Stored

(* The flow the line of balance is drawn in is the list that was typed     *)
(* last, unless two forms were open at once; and a quantity never outlives *)
(* its place or its trade.                                                 *)
BreakdownIsAsTyped ==
    /\ ~overlapped => Flow = typed
    /\ \A a \in amounts : a.place \in places /\ \E r \in crews : r.key = a.trade

(* A refused promise leaves nothing behind, not even the week it opened,   *)
(* and a stored row is one the engine accepts unless two assessments of it *)
(* overlapped.                                                             *)
BoardStaysReadable ==
    /\ \A monday \in plans : OfWeek(promises, monday) # {}
    /\ \A p \in PromiseIds : promises[p].week \in plans
    /\ \A p \in PromiseIds : ~IsReadable(promises[p]) => p \in raced

(* A limit lets its whole count through before it refuses anybody in that  *)
(* window, and lets no more through unless a sweep ended the window early. *)
LimitIsTheLimit ==
    \A key \in DOMAIN admitted :
        /\ key \in rejected => admitted[key] >= Limit[key[2]].count
        /\ key \notin swept => admitted[key] <= Limit[key[2]].count

(* A browser is signed in only on the word of the identity provider, or on *)
(* a password and, when the account had a second factor as the password    *)
(* was accepted, a code; in between it is signed in to nothing.            *)
SessionsAreProven ==
    \A b \in Browsers :
        /\ cookie[b].signedIn =>
             \/ proof[b].by = "provider"
             \/ proof[b].by = "password" /\ (proof[b].enrolled => proof[b].code)
        /\ cookie[b].pending => ~cookie[b].signedIn
        /\ cookie[b].signedIn => cookie[b].org \in Orgs

(* As long as no two requests overlap, the failure counter is the streak   *)
(* of refused passwords, every MaxFailedSignIns of them lock the account,  *)
(* and the recovery codes belong to the secret that is stored.  A password *)
(* nobody looked at -- the account is locked, disabled or in no            *)
(* organisation -- is not one of them.                                     *)
CountersFollowTheStory ==
    ~crossed =>
        /\ user.failed = (streak % MaxFailedSignIns)
        /\ streak >= MaxFailedSignIns <=> user.lockedUntil # None
        /\ \A code \in user.codes : code[1] = user.secret

(* A new account gets a tenant of its own: nobody enters an organisation   *)
(* by its name, and an external identity has one account.                  *)
OneTenantEach ==
    /\ \A u, v \in members : u # v =>
         /\ u.tenant # v.tenant
         /\ u.subject = v.subject => u.subject = NoSubject
    /\ {u.tenant : u \in members} = tenants
    /\ \A v \in Visitors : entered[v] \in members \cup {Nobody}

--------------------------------------------------------------------------------
(* "Exactly one current baseline, enforced here" (repository.py:455).      *)
OneCurrentBaseline == \A p \in Stored : Cardinality(CurrentBaselines(p)) <= 1

(* "What it does not cover.  API keys bypass the second factor by design   *)
(* [...] the factor protects the interactive session"                      *)
(* (docs/deployment.md:99-101): a browser signed in to an account that had *)
(* a second factor has given a code.                                       *)
FactorGuardsSessions ==
    \A b \in Browsers : cookie[b].signedIn /\ proof[b].enrolled => proof[b].code
================================================================================
