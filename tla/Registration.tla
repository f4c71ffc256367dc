------------------------------ MODULE Registration -----------------------------
(***************************************************************************)
(* New accounts: services/accounts.py register and provision_sso_user      *)
(* under the register and SSO callback routes of blueprints/auth.py.       *)
(* Each makes an organisation, a user and an owner's membership in one     *)
(* transaction, after reads that a rival's commit can outdate; the unique  *)
(* slug, subject and membership of models/ decide the race.                *)
(*                                                                         *)
(* A slug is <<name, n>>: the slugged name and the suffix SSO gives a name *)
(* that is taken (1 is the bare name).                                     *)
(***************************************************************************)
EXTENDS Integers, FiniteSets

CONSTANTS
    Visitors,
    Tenants,        \* slugged organisation names
    Emails,
    Subjects,       \* verified `issuer#sub' identities
    MaxUsers        \* bound

ASSUME RegistrationAssumption ==
    /\ IsFiniteSet(Visitors) /\ IsFiniteSet(Tenants)
    /\ IsFiniteSet(Emails) /\ IsFiniteSet(Subjects) /\ MaxUsers \in Nat

VARIABLES
    tenants,        \* slugs of the stored organisations
    members,        \* stored users, each with its one membership
    visit,          \* visitor -> the request in flight, or Away
    entered         \* visitor -> the user the session was opened for, or Nobody

registrationVars == <<tenants, members, visit, entered>>

Away == [op |-> "away"]
Nobody == [email |-> "", subject |-> "", tenant |-> <<>>]
NoSubject == ""

(* find_by_sso_subject: by subject, never by address. *)
KnownSubject(s) == {u \in members : u.subject = s}

(* The first free slug for a name; -2, -3, ... after the bare one. *)
FreeSlug(name) ==
    LET n == CHOOSE n \in 1..(MaxUsers + 1) :
               /\ <<name, n>> \notin tenants
               /\ \A k \in 1..(n - 1) : <<name, k>> \in tenants
    IN  <<name, n>>

--------------------------------------------------------------------------------
RegistrationInit ==
    /\ tenants = {} /\ members = {}
    /\ visit = [v \in Visitors |-> Away]
    /\ entered = [v \in Visitors |-> Nobody]

(* POST /auth/register reads the slug; a taken one is refused. *)
AskToRegister(v) ==
    /\ visit[v] = Away
    /\ \E t \in Tenants, e \in Emails :
         visit' = [visit EXCEPT ![v] =
                     IF <<t, 1>> \in tenants THEN Away
                     ELSE [op |-> "found", user |->
                             [email |-> e, subject |-> NoSubject, tenant |-> <<t, 1>>]]]
    /\ UNCHANGED <<tenants, members, entered>>

(* The SSO callback, once the provider vouched for the subject: an account *)
(* that exists is signed in, a new one gets a tenant of its own.           *)
AskBySso(v) ==
    /\ visit[v] = Away
    /\ \E s \in Subjects, t \in Tenants, e \in Emails :
         IF KnownSubject(s) # {}
           THEN /\ \E u \in KnownSubject(s) : entered' = [entered EXCEPT ![v] = u]
                /\ UNCHANGED visit
           ELSE /\ visit' = [visit EXCEPT ![v] =
                       [op |-> "found", user |->
                          [email |-> e, subject |-> s, tenant |-> FreeSlug(t)]]]
                /\ UNCHANGED entered
    /\ UNCHANGED <<tenants, members>>

(* Fault: an organisation that is already there takes the account in. *)
InsertableAnywhere(u) == u.subject # NoSubject => KnownSubject(u.subject) = {}

(* The unique keys the insert meets: the slug and the subject.  The owner's *)
(* membership is the first in a tenant nobody else is in.                   *)
Insertable(u) ==
    /\ u.tenant \notin tenants
    /\ u.subject # NoSubject => KnownSubject(u.subject) = {}

Found(v) ==
    /\ visit[v] # Away
    /\ Cardinality(members) < MaxUsers
    /\ LET u == visit[v].user IN
         IF Insertable(u)
           THEN /\ tenants' = tenants \cup {u.tenant}
                /\ members' = members \cup {u}
                /\ entered' = [entered EXCEPT ![v] = u]
           ELSE UNCHANGED <<tenants, members, entered>>
    /\ visit' = [visit EXCEPT ![v] = Away]

RegistrationNext ==
    \E v \in Visitors : AskToRegister(v) \/ AskBySso(v) \/ Found(v)

RegistrationSpec == RegistrationInit /\ [][RegistrationNext]_registrationVars
================================================================================
