------------------------------- MODULE Accounts --------------------------------
(***************************************************************************)
(* One account and the browsers that use it: services/accounts.py and      *)
(* services/mfa.py under the routes of blueprints/auth.py and the account  *)
(* pages of blueprints/main.py, with the session cookie of                 *)
(* blueprints/deps.py.                                                     *)
(*                                                                         *)
(* A request loads the user row, decides on it (the password hash alone    *)
(* takes tens of milliseconds) and commits; the session writes the columns *)
(* it changed and no other.  Then it answers and sets the cookie.          *)
(*                                                                         *)
(* An account has one door.  One that was registered signs in with its     *)
(* password; one that came by SSO has a random password nobody knows, and  *)
(* signs in through the identity provider.                                 *)
(*                                                                         *)
(* A secret is the number of the enrolment that made it, and the recovery  *)
(* codes issued with it are <<secret, n>>.  The clock counts minutes; the  *)
(* 90-second replay window of one TOTP code is below it and left out.      *)
(***************************************************************************)
EXTENDS Integers, FiniteSets

CONSTANTS
    Browsers,
    Orgs,           \* organisations the user may be a member of
    MaxFailedSignIns,
    Lockout,        \* minutes
    RecoveryCodes,  \* how many codes an enrolment issues
    MaxMinutes,     \* bound: the clock
    MaxSecrets,     \* bound: enrolments begun
    MaxRefused      \* bound: passwords refused in a row

ASSUME AccountsAssumption ==
    /\ IsFiniteSet(Browsers) /\ IsFiniteSet(Orgs)
    /\ MaxFailedSignIns \in Nat \ {0} /\ Lockout \in Nat \ {0}
    /\ RecoveryCodes \in Nat /\ MaxMinutes \in Nat /\ MaxSecrets \in Nat
    /\ MaxRefused \in Nat

VARIABLES
    minute,         \* the server's clock
    user,           \* the stored User row with its memberships; bySso: it has a subject
    cookie,         \* browser -> session contents
    asking,         \* browser -> the request in flight, or Quiet
    enrolments,     \* secrets generated so far
    proof,          \* history: browser -> how its session came to be
    streak,         \* history: passwords refused since one was accepted
    crossed         \* history: two requests were in flight at once

accountVars == <<minute, user, cookie, asking, enrolments, proof, streak, crossed>>

None == 0           \* no lock, no secret
NoOrg == "no organisation"
Quiet == [op |-> "none"]
EmptyCookie == [signedIn |-> FALSE, org |-> NoOrg, pending |-> FALSE, parked |-> None]
NoProof == [by |-> "nobody", enrolled |-> FALSE, code |-> FALSE]

Flushed(loaded, edited) ==
    [f \in DOMAIN user |-> IF edited[f] = loaded[f] THEN user[f] ELSE edited[f]]

--------------------------------------------------------------------------------
AccountsInit ==
    /\ minute = 1
    /\ \E sso \in BOOLEAN :
         user = [failed |-> 0, lockedUntil |-> None, isActive |-> TRUE, secret |-> None,
                 codes |-> {}, memberOf |-> Orgs, bySso |-> sso]
    /\ cookie = [b \in Browsers |-> EmptyCookie]
    /\ asking = [b \in Browsers |-> Quiet]
    /\ enrolments = 0
    /\ proof = [b \in Browsers |-> NoProof]
    /\ streak = 0
    /\ crossed = FALSE

(* load_principal: what every request does with the cookie first.  An      *)
(* account that went away or was disabled clears it; an organisation the   *)
(* user left is replaced by one they are in.                               *)
LoadedCookie(b) ==
    IF ~cookie[b].signedIn THEN {cookie[b]}
    ELSE IF ~user.isActive THEN {EmptyCookie}
    ELSE IF cookie[b].org \in user.memberOf \/ user.memberOf = {} THEN {cookie[b]}
    ELSE {[cookie[b] EXCEPT !.org = o] : o \in user.memberOf}

(* login_required *)
IsAuthenticated(c) == c.signedIn /\ user.isActive /\ user.memberOf # {}

Load(b, op) ==
    /\ asking[b] = Quiet
    /\ \E c \in LoadedCookie(b) :
         /\ op \in {"enable", "disable"} => IsAuthenticated(c)
         /\ op = "challenge" => c.pending
         /\ op = "enable" => c.parked # None
         /\ op = "sso" => user.bySso
         /\ cookie' = [cookie EXCEPT ![b] = c]
         /\ proof' = [proof EXCEPT ![b] = IF c = EmptyCookie THEN NoProof ELSE @]
    /\ asking' = [asking EXCEPT ![b] = [op |-> op, row |-> user,
                          at |-> IF op = "sign in" THEN minute ELSE 0]]
    /\ crossed' = (crossed \/ \E d \in Browsers \ {b} : asking[d] # Quiet)
    /\ UNCHANGED <<minute, user, enrolments, streak>>

Done(b) == asking' = [asking EXCEPT ![b] = Quiet]

(* deps.sign_in, begin_mfa and sign_out: the session is cleared first. *)
SignedInTo(o) == [EmptyCookie EXCEPT !.signedIn = TRUE, !.org = o]
(* Fault: the half-authenticated state already signs in. *)
PendingSignedIn == [EmptyCookie EXCEPT !.signedIn = TRUE, !.pending = TRUE]
Pending == [EmptyCookie EXCEPT !.pending = TRUE]

(* The row after a refused password: the lock comes with the last failure  *)
(* it allows, and the counter starts again.                                *)
AfterFailure(row, at) ==
    IF row.failed + 1 >= MaxFailedSignIns
      THEN [row EXCEPT !.failed = 0, !.lockedUntil = at + Lockout]
      ELSE [row EXCEPT !.failed = @ + 1]
(* Fault: an accepted password only lifts the lock. *)
UnlockedOnly(row) == [row EXCEPT !.lockedUntil = None]
AfterSuccess(row) == [row EXCEPT !.failed = 0, !.lockedUntil = None]

IsLocked(row, at) == row.lockedUntil > at

(* Whether attempt_sign_in looks at the password at all.  It finds a user   *)
(* by a membership: one without is an unknown address.                     *)
LooksAtPassword(row, at) == row.memberOf # {} /\ ~IsLocked(row, at) /\ row.isActive

(* How a session begins: by what, whether the account has a second factor, *)
(* and that no code has been given yet.                                    *)
Entered(by, row) == [by |-> by, enrolled |-> row.secret # None, code |-> FALSE]

(* attempt_sign_in and the route around it. *)
SignIn(b) ==
    LET request == asking[b]  row == request.row
        looked == LooksAtPassword(row, request.at)
    IN
    /\ request.op = "sign in"
    /\ Done(b)
    /\ UNCHANGED <<minute, enrolments, crossed>>
    /\ \/ /\ ~looked
          /\ UNCHANGED <<user, cookie, proof, streak>>
       \/ /\ looked /\ streak < MaxRefused
          /\ user' = Flushed(row, AfterFailure(row, request.at))
          /\ streak' = streak + 1
          /\ UNCHANGED <<cookie, proof>>
       \/ /\ looked /\ ~row.bySso
          /\ user' = Flushed(row, AfterSuccess(row))
          /\ streak' = 0
          /\ \E o \in row.memberOf :
               cookie' = [cookie EXCEPT ![b] =
                            IF row.secret # None THEN Pending ELSE SignedInTo(o)]
          /\ proof' = [proof EXCEPT ![b] = Entered("password", row)]

(* sso_callback, once the provider vouched for the account's subject: no    *)
(* password, no lock, and no second factor.  (A subject nobody has is       *)
(* another account's beginning, see Registration.)                         *)
SsoCallback(b) ==
    LET row == asking[b].row  enters == row.memberOf # {} /\ row.isActive IN
    /\ asking[b].op = "sso"
    /\ Done(b)
    /\ UNCHANGED <<minute, user, enrolments, streak, crossed>>
    /\ \/ ~enters /\ UNCHANGED <<cookie, proof>>
       \/ /\ enters
          /\ \E o \in row.memberOf : cookie' = [cookie EXCEPT ![b] = SignedInTo(o)]
          /\ proof' = [proof EXCEPT ![b] = Entered("provider", row)]

(* The rows verify_for_user leaves after a code it accepts: a recovery code *)
(* is spent, a TOTP code changes nothing modelled here.                     *)
Verified(row) ==
    IF row.secret = None THEN {}
    ELSE {row} \cup {[row EXCEPT !.codes = @ \ {code}] : code \in row.codes}

Challenge(b) ==
    LET request == asking[b]  row == request.row IN
    /\ request.op = "challenge"
    /\ Done(b)
    /\ UNCHANGED <<minute, enrolments, streak, crossed>>
    /\ \/ UNCHANGED <<user, cookie, proof>>       \* a wrong code
       \/ /\ \E after \in Verified(row) : user' = Flushed(row, after)
          /\ IF row.memberOf = {}
               THEN UNCHANGED <<cookie, proof>>
               ELSE /\ \E o \in row.memberOf : cookie' = [cookie EXCEPT ![b] = SignedInTo(o)]
                    /\ proof' = [proof EXCEPT ![b].code = TRUE]

(* begin_enrolment makes a secret and stores nothing; confirm_enrolment    *)
(* stores it with its recovery codes; disable clears both.                 *)
NewSecret == enrolments + 1
Confirmed(row, secret) ==
    [row EXCEPT !.secret = secret, !.codes = {<<secret, n>> : n \in 1..RecoveryCodes}]
Unenrolled(row) == [row EXCEPT !.secret = None, !.codes = {}]

(* mfa_setup: the new secret is parked in the session. *)
Setup(b) ==
    /\ asking[b] = Quiet
    /\ enrolments < MaxSecrets
    /\ \E c \in LoadedCookie(b) :
         /\ IsAuthenticated(c) /\ user.secret = None
         /\ cookie' = [cookie EXCEPT ![b] = [c EXCEPT !.parked = NewSecret]]
    /\ enrolments' = NewSecret
    /\ UNCHANGED <<minute, user, asking, proof, streak, crossed>>

(* mfa_enable: a code from the parked secret confirms it. *)
Enable(b) ==
    LET request == asking[b]  row == request.row  secret == cookie[b].parked IN
    /\ request.op = "enable"
    /\ Done(b)
    /\ UNCHANGED <<minute, enrolments, proof, streak, crossed>>
    /\ \/ UNCHANGED <<user, cookie>>              \* a wrong code
       \/ /\ user' = Flushed(row, Confirmed(row, secret))
          /\ cookie' = [cookie EXCEPT ![b].parked = None]

(* mfa_disable: the current password first, which an account that came by   *)
(* SSO does not have.                                                      *)
Disable(b) ==
    LET row == asking[b].row IN
    /\ asking[b].op = "disable"
    /\ Done(b)
    /\ UNCHANGED <<minute, cookie, enrolments, proof, streak, crossed>>
    /\ \/ UNCHANGED user                          \* a wrong password
       \/ ~row.bySso /\ user' = Flushed(row, Unenrolled(row))

(* switch: only to an organisation the user is in. *)
SwitchOrg(b) ==
    /\ asking[b] = Quiet
    /\ \E c \in LoadedCookie(b), o \in user.memberOf :
         /\ IsAuthenticated(c)
         /\ cookie' = [cookie EXCEPT ![b] = [c EXCEPT !.org = o]]
    /\ UNCHANGED <<minute, user, asking, enrolments, proof, streak, crossed>>

SignOut(b) ==
    /\ asking[b] = Quiet
    /\ cookie' = [cookie EXCEPT ![b] = EmptyCookie]
    /\ proof' = [proof EXCEPT ![b] = NoProof]
    /\ UNCHANGED <<minute, user, asking, enrolments, streak, crossed>>

(* An operator, outside this code, takes the user out of an organisation   *)
(* or disables the account.                                                *)
Operate ==
    /\ \/ \E o \in user.memberOf : user' = [user EXCEPT !.memberOf = @ \ {o}]
       \/ user.isActive /\ user' = [user EXCEPT !.isActive = FALSE]
    /\ UNCHANGED <<minute, cookie, asking, enrolments, proof, streak, crossed>>

PassMinute ==
    /\ minute < MaxMinutes
    /\ minute' = minute + 1
    /\ UNCHANGED <<user, cookie, asking, enrolments, proof, streak, crossed>>

AccountsNext ==
    \/ PassMinute \/ Operate
    \/ \E b \in Browsers :
         \/ \E op \in {"sign in", "sso", "challenge", "enable", "disable"} : Load(b, op)
         \/ SignIn(b) \/ SsoCallback(b) \/ Challenge(b) \/ Setup(b) \/ Enable(b) \/ Disable(b)
         \/ SwitchOrg(b) \/ SignOut(b)

AccountsSpec == AccountsInit /\ [][AccountsNext]_accountVars
================================================================================
