---------------------------- MODULE Services_proof ----------------------------
(***************************************************************************)
(* Proofs about the services beside the scheduling core, for any values of *)
(* the constants and however long they run.  First the accounts: a new     *)
(* account gets a tenant of its own, a session is proven before it is      *)
(* signed in, and the failure counter tells the story of the refused       *)
(* passwords.  Then the rows that two requests may change between each     *)
(* other's read and commit: the production board, the projects with their  *)
(* baselines and audit trail, and the location breakdown.  Last the rate   *)
(* limits, for any endpoints, limits and workers.                          *)
(***************************************************************************)
EXTENDS ServiceProperties, TLAPS, FiniteSetTheorems, SequenceTheorems

-----------------------------------------------------------------------------
(* Registration. *)

(* Sessions are kept for visitors and for nobody else. *)
VisitorsEnter == DOMAIN entered = Visitors

RegistrationInv == VisitorsEnter /\ OneTenantEach

(* The unique keys decide the race: an organisation gets one user and an   *)
(* external identity one account, whatever was read before the insert.     *)
LEMMA FoundingKeepsTenantsApart ==
  ASSUME RegistrationInv, NEW v \in Visitors, Found(v)
  PROVE  RegistrationInv'
<1> DEFINE u == visit[v].user
<1>1. CASE Insertable(u)
  <2>1. members' = members \cup {u} /\ tenants' = tenants \cup {u.tenant}
    BY <1>1 DEF Found
  <2>2. \A w \in members : w.tenant # u.tenant
    BY <1>1 DEF Insertable, RegistrationInv, OneTenantEach
  <2>3. \A w \in members : w.subject = u.subject => u.subject = NoSubject
    BY <1>1 DEF Insertable, KnownSubject
  <2>4. {w.tenant : w \in members'} = tenants'
    BY <2>1 DEF RegistrationInv, OneTenantEach
  <2>5. entered' = [entered EXCEPT ![v] = u]
    BY <1>1 DEF Found
  <2>6. VisitorsEnter' /\ \A w \in Visitors : entered'[w] \in members' \cup {Nobody}
    BY <2>1, <2>5 DEF RegistrationInv, OneTenantEach, VisitorsEnter
  <2>7. \A w, x \in members' : w # x =>
          w.tenant # x.tenant /\ (w.subject = x.subject => w.subject = NoSubject)
    BY <2>1, <2>2, <2>3 DEF RegistrationInv, OneTenantEach
  <2>8. QED
    BY <2>4, <2>6, <2>7 DEF RegistrationInv, OneTenantEach
<1>2. CASE ~Insertable(u)
  BY <1>2 DEF Found, RegistrationInv, OneTenantEach, VisitorsEnter
<1>3. QED
  BY <1>1, <1>2

(* A new account gets a tenant of its own, and a session is opened only    *)
(* for a stored user (accounts.py:148-260, auth.py:153-306).               *)
THEOREM TenantsStayApart == RegistrationSpec => []OneTenantEach
<1>1. RegistrationInit => RegistrationInv
  BY DEF RegistrationInit, RegistrationInv, OneTenantEach, VisitorsEnter
<1>2. RegistrationInv /\ [RegistrationNext]_registrationVars => RegistrationInv'
  <2> SUFFICES ASSUME RegistrationInv, [RegistrationNext]_registrationVars
               PROVE  RegistrationInv'
    OBVIOUS
  <2> USE DEF RegistrationInv, OneTenantEach, VisitorsEnter
  <2>1. ASSUME NEW v \in Visitors, AskToRegister(v) PROVE RegistrationInv'
    BY <2>1 DEF AskToRegister
  <2>2. ASSUME NEW v \in Visitors, AskBySso(v) PROVE RegistrationInv'
    BY <2>2 DEF AskBySso, KnownSubject
  <2>3. ASSUME NEW v \in Visitors, Found(v) PROVE RegistrationInv'
    BY <2>3, FoundingKeepsTenantsApart
  <2>4. CASE UNCHANGED registrationVars
    BY <2>4 DEF registrationVars
  <2>5. QED
    BY <2>1, <2>2, <2>3, <2>4 DEF RegistrationNext
<1>3. QED
  BY <1>1, <1>2, PTL DEF RegistrationSpec, RegistrationInv

-----------------------------------------------------------------------------
(* Sign-in: types. *)

UserRows ==
  [failed : Nat, lockedUntil : Nat, isActive : BOOLEAN, secret : Nat,
   codes : SUBSET (Nat \X Nat), memberOf : SUBSET Orgs, bySso : BOOLEAN]

CookieJar == [signedIn : BOOLEAN, org : Orgs \cup {NoOrg}, pending : BOOLEAN, parked : Nat]

Proofs == [by : {"nobody", "password", "provider"}, enrolled : BOOLEAN, code : BOOLEAN]

RequestsInFlight ==
  [op : {"sign in", "sso", "challenge", "enable", "disable"}, row : UserRows, at : Nat]

AccountsTyped ==
  /\ minute \in Nat /\ minute >= 1 /\ enrolments \in Nat /\ streak \in Nat /\ crossed \in BOOLEAN
  /\ user \in UserRows
  /\ cookie \in [Browsers -> CookieJar]
  /\ proof \in [Browsers -> Proofs]
  /\ asking \in [Browsers -> RequestsInFlight \cup {Quiet}]

(* What a commit leaves in the user row: the columns the request changed. *)
LEMMA FlushedColumns ==
  ASSUME NEW loaded, NEW edited, user \in UserRows, edited \in UserRows
  PROVE  /\ Flushed(loaded, edited) \in UserRows
         /\ \A f \in {"failed", "lockedUntil", "isActive", "secret", "codes", "memberOf", "bySso"} :
              Flushed(loaded, edited)[f] = IF edited[f] = loaded[f] THEN user[f] ELSE edited[f]
<1>1. DOMAIN user = {"failed", "lockedUntil", "isActive", "secret", "codes", "memberOf", "bySso"}
  BY DEF UserRows
<1>2. QED
  BY <1>1 DEF Flushed, UserRows

(* The rows the requests want to leave are rows of the table. *)
LEMMA EditsAreRows ==
  ASSUME AccountsTyped, NEW row \in UserRows, NEW at \in Nat, NEW secret \in Nat
  PROVE  /\ AfterFailure(row, at) \in UserRows
         /\ AfterSuccess(row) \in UserRows
         /\ Verified(row) \subseteq UserRows
         /\ Confirmed(row, secret) \in UserRows
         /\ Unenrolled(row) \in UserRows
<1> USE AccountsAssumption DEF AccountsAssumption
<1>1. AfterFailure(row, at) \in UserRows
  <2>1. row.failed + 1 \in Nat /\ at + Lockout \in Nat
    BY DEF UserRows
  <2>2. [row EXCEPT !.failed = 0, !.lockedUntil = at + Lockout] \in UserRows
    BY <2>1 DEF UserRows
  <2>3. [row EXCEPT !.failed = @ + 1] \in UserRows
    BY <2>1 DEF UserRows
  <2>4. QED
    BY <2>2, <2>3 DEF AfterFailure
<1>2. AfterSuccess(row) \in UserRows
  BY DEF AfterSuccess, UserRows, None
<1>3. Verified(row) \subseteq UserRows
  BY DEF Verified, UserRows
<1>4. Confirmed(row, secret) \in UserRows
  <2>1. {<<secret, n>> : n \in 1..RecoveryCodes} \in SUBSET (Nat \X Nat)
    OBVIOUS
  <2>2. QED
    BY <2>1 DEF Confirmed, UserRows
<1>5. Unenrolled(row) \in UserRows
  BY DEF Unenrolled, UserRows, None
<1>6. QED
  BY <1>1, <1>2, <1>3, <1>4, <1>5

(* What a request finds in its cookie is a cookie, and signed in only if   *)
(* the browser was.                                                        *)
LEMMA LoadedCookies ==
  ASSUME AccountsTyped, NEW b \in Browsers, NEW c \in LoadedCookie(b)
  PROVE  /\ c \in CookieJar
         /\ c.signedIn => cookie[b].signedIn
         /\ c.signedIn => c.org = cookie[b].org \/ c.org \in Orgs
         /\ c.pending => cookie[b].pending
         /\ \/ c = cookie[b] \/ c = EmptyCookie
            \/ cookie[b].signedIn /\ \E o \in user.memberOf : c = [cookie[b] EXCEPT !.org = o]
<1>1. cookie[b] \in CookieJar /\ user.memberOf \subseteq Orgs
  BY DEF AccountsTyped, UserRows
<1>2. EmptyCookie \in CookieJar /\ ~EmptyCookie.signedIn /\ ~EmptyCookie.pending
  BY DEF EmptyCookie, CookieJar, None
<1>3. ASSUME NEW o \in user.memberOf, c = [cookie[b] EXCEPT !.org = o]
      PROVE  c \in CookieJar /\ c.signedIn = cookie[b].signedIn
               /\ c.pending = cookie[b].pending /\ c.org \in Orgs
  BY <1>1, <1>3 DEF CookieJar
<1>4. \/ c = cookie[b] \/ c = EmptyCookie
      \/ cookie[b].signedIn /\ \E o \in user.memberOf : c = [cookie[b] EXCEPT !.org = o]
  BY DEF LoadedCookie
<1>5. QED
  BY <1>1, <1>2, <1>3, <1>4

(* Remainders, which the failure counter is compared with. *)
LEMMA RemainderUnique ==
  ASSUME NEW m \in Nat \ {0}, NEW q \in Nat, NEW p \in Nat,
         NEW r \in 0..(m - 1), NEW t \in 0..(m - 1), m * q + r = m * p + t
  PROVE  r = t
<1>1. CASE q = p
  BY <1>1
<1>2. CASE q < p
  <2>1. PICK d \in Nat : p = q + 1 + d
    <3>1. p - q - 1 \in Nat
      BY <1>2
    <3>2. QED
      BY <3>1
  <2>2. m * p = m * q + m + m * d /\ m * d \in Nat
    BY <2>1
  <2>3. QED
    BY <2>2
<1>3. CASE p < q
  <2>1. PICK d \in Nat : q = p + 1 + d
    <3>1. q - p - 1 \in Nat
      BY <1>3
    <3>2. QED
      BY <3>1
  <2>2. m * q = m * p + m + m * d /\ m * d \in Nat
    BY <2>1
  <2>3. QED
    BY <2>2
<1>4. QED
  BY <1>1, <1>2, <1>3

\* The remainder of a counter that goes up by one: the next one, or zero when
\* the modulus is reached.
LEMMA RemainderOfNext ==
  ASSUME NEW m \in Nat \ {0}, NEW s \in Nat
  PROVE  /\ s % m \in 0..(m - 1)
         /\ s < m => s % m = s
         /\ (s % m) + 1 >= m => (s + 1) % m = 0
         /\ (s % m) + 1 < m => (s + 1) % m = (s % m) + 1
<1>1. \A n \in Nat : n = m * (n \div m) + (n % m) /\ n \div m \in Nat /\ n % m \in 0..(m - 1)
  OBVIOUS
<1>2. s < m => s % m = s
  OBVIOUS
<1>3. \A r \in 0..(m - 1), q \in Nat : s + 1 = m * q + r => (s + 1) % m = r
  <2>1. s + 1 = m * ((s + 1) \div m) + ((s + 1) % m)
          /\ (s + 1) % m \in 0..(m - 1) /\ (s + 1) \div m \in Nat
    BY <1>1
  <2>2. QED
    BY <2>1, RemainderUnique
<1>4. s = m * (s \div m) + (s % m) /\ s \div m \in Nat /\ s % m \in 0..(m - 1)
  BY <1>1
<1>5. ASSUME (s % m) + 1 >= m PROVE (s + 1) % m = 0
  <2>1. (s \div m) + 1 \in Nat /\ m * ((s \div m) + 1) = m * (s \div m) + m
    BY <1>4
  <2> DEFINE q == (s \div m) + 1
  <2>2. 0 \in 0..(m - 1) /\ q \in Nat /\ s + 1 = m * q + 0
    BY <1>4, <1>5, <2>1
  <2> HIDE DEF q
  <2>3. QED
    BY <1>3, <2>2
<1>6. ASSUME (s % m) + 1 < m PROVE (s + 1) % m = (s % m) + 1
  <2> DEFINE r == (s % m) + 1  q == s \div m
  <2>1. r \in 0..(m - 1) /\ q \in Nat /\ s + 1 = m * q + r
    BY <1>4, <1>6
  <2> HIDE DEF r, q
  <2>2. (s + 1) % m = r
    BY <1>3, <2>1
  <2>3. QED
    BY <2>2 DEF r
<1>7. QED
  BY <1>2, <1>4, <1>5, <1>6

-----------------------------------------------------------------------------
(* Sign-in: what holds between the steps.                                  *)

(* What vouches for a session: the identity provider, or a password and,   *)
(* when the account was enrolled as it was accepted, a code.               *)
Vouched(steps) ==
  \/ steps.by = "provider"
  \/ steps.by = "password" /\ (steps.enrolled => steps.code)

(* What the steps that led to a session allow its cookie to hold.  A       *)
(* session that waits for the second factor has seen the password.         *)
ProvenSession(c, steps) ==
  /\ c.signedIn => Vouched(steps) /\ c.org \in Orgs
  /\ c.pending => steps.by = "password" /\ ~c.signedIn

(* A request that answers the challenge is only made from a session that   *)
(* waits for it, and nothing takes that away before the answer.            *)
SessionsInv ==
  \A b \in Browsers :
    /\ ProvenSession(cookie[b], proof[b])
    /\ asking[b].op = "challenge" => cookie[b].pending

(* Without overlap there is one request at a time, and the row it loaded   *)
(* is still the stored one in every column a request changes.              *)
OneAtATime ==
  \A b \in Browsers : asking[b] # Quiet =>
    /\ \A d \in Browsers \ {b} : asking[d] = Quiet
    /\ asking[b].row.failed = user.failed
    /\ asking[b].row.lockedUntil = user.lockedUntil
    /\ asking[b].row.secret = user.secret
    /\ asking[b].row.codes = user.codes

StoryInv ==
  /\ CountersFollowTheStory
  /\ ~crossed => OneAtATime
  /\ \A b \in Browsers : asking[b].op = "sign in" => asking[b].at >= 1

AccountsInv == AccountsTyped /\ SessionsInv /\ StoryInv

(* A request of some operation is a request.                               *)
LEMMA InFlight ==
  ASSUME NEW b \in Browsers, asking[b].op # "none"
  PROVE  asking[b] # Quiet
BY DEF Quiet

(* What an answer does to the requests in flight: its own is over, and if  *)
(* none ever overlapped there is none left.                                *)
LEMMA Answered ==
  ASSUME AccountsInv, NEW b \in Browsers, asking[b] # Quiet, Done(b)
  PROVE  /\ asking[b] \in RequestsInFlight
         /\ asking' \in [Browsers -> RequestsInFlight \cup {Quiet}]
         /\ \A d \in Browsers : asking'[d] = IF d = b THEN Quiet ELSE asking[d]
         /\ ~crossed => \A d \in Browsers : asking'[d] = Quiet
<1>1. asking \in [Browsers -> RequestsInFlight \cup {Quiet}]
  BY DEF AccountsInv, AccountsTyped
<1>2. asking' = [asking EXCEPT ![b] = Quiet]
  BY DEF Done
<1>3. ~crossed => \A d \in Browsers \ {b} : asking[d] = Quiet
  BY DEF AccountsInv, StoryInv, OneAtATime
<1>4. QED
  BY <1>1, <1>2, <1>3

(* Without overlap a commit leaves exactly the row the request wanted, in  *)
(* the columns a request changes.                                          *)
LEMMA FlushedAlone ==
  ASSUME AccountsInv, NEW b \in Browsers, asking[b] # Quiet, ~crossed,
         NEW edited \in UserRows
  PROVE  /\ Flushed(asking[b].row, edited).failed = edited.failed
         /\ Flushed(asking[b].row, edited).lockedUntil = edited.lockedUntil
         /\ Flushed(asking[b].row, edited).secret = edited.secret
         /\ Flushed(asking[b].row, edited).codes = edited.codes
<1> DEFINE row == asking[b].row
           after == Flushed(row, edited)
<1>1. /\ row.failed = user.failed /\ row.lockedUntil = user.lockedUntil
      /\ row.secret = user.secret /\ row.codes = user.codes
  BY DEF AccountsInv, StoryInv, OneAtATime
<1>2. user \in UserRows
  BY DEF AccountsInv, AccountsTyped
<1>3. \A f \in {"failed", "lockedUntil", "isActive", "secret", "codes", "memberOf", "bySso"} :
        after[f] = IF edited[f] = row[f] THEN user[f] ELSE edited[f]
  BY <1>2, FlushedColumns
<1>4. QED
  BY <1>1, <1>3

(* The streak counts on with the counter.                                  *)
LEMMA StreakGrows ==
  ASSUME AccountsTyped, CountersFollowTheStory, ~crossed,
         NEW row \in UserRows, row.failed = user.failed,
         row.lockedUntil = user.lockedUntil, NEW at \in Nat
  PROVE  /\ AfterFailure(row, at).failed = ((streak + 1) % MaxFailedSignIns)
         /\ streak + 1 >= MaxFailedSignIns <=> AfterFailure(row, at).lockedUntil # None
<1> DEFINE m == MaxFailedSignIns
<1>1. m \in Nat \ {0} /\ Lockout \in Nat \ {0} /\ streak \in Nat
  BY AccountsAssumption DEF AccountsAssumption, AccountsTyped
<1>2. user.failed = (streak % m) /\ (streak >= m <=> user.lockedUntil # None)
  BY DEF CountersFollowTheStory
<1>3. /\ streak % m \in 0..(m - 1)
      /\ streak < m => streak % m = streak
      /\ (streak % m) + 1 >= m => (streak + 1) % m = 0
      /\ (streak % m) + 1 < m => (streak + 1) % m = (streak % m) + 1
  BY <1>1, RemainderOfNext
<1>4. CASE row.failed + 1 >= m
  <2>1. /\ AfterFailure(row, at).failed = 0
        /\ AfterFailure(row, at).lockedUntil = at + Lockout
    BY <1>4 DEF AfterFailure, UserRows
  <2>2. streak + 1 >= m
    BY <1>1, <1>2, <1>3, <1>4
  <2>3. at + Lockout # None
    BY <1>1 DEF None
  <2>4. QED
    BY <1>2, <1>3, <1>4, <2>1, <2>2, <2>3
<1>5. CASE ~(row.failed + 1 >= m)
  <2>1. /\ AfterFailure(row, at).failed = row.failed + 1
        /\ AfterFailure(row, at).lockedUntil = row.lockedUntil
    BY <1>5 DEF AfterFailure, UserRows
  <2>2. (streak % m) + 1 < m
    BY <1>1, <1>2, <1>3, <1>5
  <2>3. streak + 1 >= m <=> streak >= m
    BY <1>1, <1>3, <2>2
  <2>4. QED
    BY <1>2, <1>3, <2>1, <2>2, <2>3
<1>6. QED
  BY <1>4, <1>5

(* A step that rewrites one session.                                       *)
LEMMA OneSession ==
  ASSUME AccountsTyped, SessionsInv, NEW b \in Browsers,
         NEW c \in CookieJar, NEW steps \in Proofs, ProvenSession(c, steps),
         cookie' = [cookie EXCEPT ![b] = c], proof' = [proof EXCEPT ![b] = steps],
         \A d \in Browsers \ {b} : asking'[d] = asking[d],
         asking'[b].op = "challenge" => c.pending
  PROVE  /\ cookie' \in [Browsers -> CookieJar]
         /\ proof' \in [Browsers -> Proofs]
         /\ SessionsInv'
<1>1. cookie \in [Browsers -> CookieJar] /\ proof \in [Browsers -> Proofs]
  BY DEF AccountsTyped
<1>2. \A d \in Browsers : /\ cookie'[d] = IF d = b THEN c ELSE cookie[d]
                          /\ proof'[d] = IF d = b THEN steps ELSE proof[d]
  BY <1>1
<1>3. ASSUME NEW d \in Browsers
      PROVE  /\ ProvenSession(cookie'[d], proof'[d])
             /\ asking'[d].op = "challenge" => cookie'[d].pending
  BY <1>2 DEF SessionsInv
<1>4. SessionsInv'
  BY <1>3 DEF SessionsInv, ProvenSession
<1>5. QED
  BY <1>1, <1>4

(* A step that leaves sessions alone and starts no challenge.              *)
LEMMA SameSessions ==
  ASSUME SessionsInv, UNCHANGED <<cookie, proof>>,
         \A d \in Browsers : asking'[d].op = "challenge" => asking[d].op = "challenge"
  PROVE  SessionsInv'
BY DEF SessionsInv, ProvenSession

\* Reading the user row for a request keeps the invariant.
LEMMA LoadKeeps ==
  ASSUME AccountsInv, NEW b \in Browsers,
         NEW op \in {"sign in", "sso", "challenge", "enable", "disable"}, Load(b, op)
  PROVE  AccountsInv'
<1> DEFINE request == [op |-> op, row |-> user,
                       at |-> IF op = "sign in" THEN minute ELSE 0]
<1>1. AccountsTyped /\ SessionsInv /\ StoryInv
  BY DEF AccountsInv
<1>2. PICK c \in LoadedCookie(b) :
        /\ op = "challenge" => c.pending
        /\ cookie' = [cookie EXCEPT ![b] = c]
        /\ proof' = [proof EXCEPT ![b] = IF c = EmptyCookie THEN NoProof ELSE proof[b]]
  BY <1>1 DEF Load, AccountsTyped
<1>3. /\ asking[b] = Quiet
      /\ asking' = [asking EXCEPT ![b] = request]
      /\ crossed' = (crossed \/ \E d \in Browsers \ {b} : asking[d] # Quiet)
      /\ UNCHANGED <<minute, user, enrolments, streak>>
  BY DEF Load
<1>4. /\ request \in RequestsInFlight /\ request.op = op /\ request.row = user
      /\ op = "sign in" => request.at = minute
  BY <1>1 DEF RequestsInFlight, AccountsTyped
<1>5. /\ asking' \in [Browsers -> RequestsInFlight \cup {Quiet}]
      /\ \A d \in Browsers : asking'[d] = IF d = b THEN request ELSE asking[d]
  BY <1>1, <1>3, <1>4 DEF AccountsTyped
<1>6. /\ c \in CookieJar
      /\ c.signedIn => cookie[b].signedIn
      /\ c.signedIn => c.org = cookie[b].org \/ c.org \in Orgs
      /\ c.pending => cookie[b].pending
      /\ c # EmptyCookie => c.signedIn = cookie[b].signedIn
  <2>1. cookie[b] \in CookieJar
    BY <1>1 DEF AccountsTyped
  <2>2. \A o : [cookie[b] EXCEPT !.org = o].signedIn = cookie[b].signedIn
    BY <2>1 DEF CookieJar
  <2>3. /\ c \in CookieJar
        /\ c.signedIn => cookie[b].signedIn
        /\ c.signedIn => c.org = cookie[b].org \/ c.org \in Orgs
        /\ c.pending => cookie[b].pending
    BY <1>1, LoadedCookies
  <2>4. \/ c = cookie[b] \/ c = EmptyCookie
        \/ cookie[b].signedIn /\ \E o \in user.memberOf : c = [cookie[b] EXCEPT !.org = o]
    BY <1>1, LoadedCookies
  <2>5. QED
    BY <2>2, <2>3, <2>4
<1> DEFINE steps == IF c = EmptyCookie THEN NoProof ELSE proof[b]
<1>7. steps \in Proofs
  BY <1>1 DEF AccountsTyped, Proofs, NoProof
<1>8. ProvenSession(c, steps)
  <2>1. ProvenSession(cookie[b], proof[b])
    BY <1>1 DEF SessionsInv
  <2>2. ~EmptyCookie.signedIn /\ ~EmptyCookie.pending
    BY DEF EmptyCookie
  <2>3. CASE c = EmptyCookie
    BY <2>2, <2>3 DEF ProvenSession
  <2>4. CASE c # EmptyCookie
    BY <1>6, <2>1, <2>4 DEF ProvenSession
  <2>5. QED
    BY <2>3, <2>4
<1> HIDE DEF request, steps
<1>9. /\ cookie' \in [Browsers -> CookieJar] /\ proof' \in [Browsers -> Proofs]
      /\ SessionsInv'
  <2>1. asking'[b].op = "challenge" => c.pending
    BY <1>2, <1>4, <1>5
  <2>2. proof' = [proof EXCEPT ![b] = steps]
    BY <1>2 DEF steps
  <2>3. QED
    BY <1>1, <1>2, <1>5, <1>6, <1>7, <1>8, <2>1, <2>2, OneSession
<1>10. AccountsTyped'
  BY <1>1, <1>3, <1>5, <1>9 DEF AccountsTyped
<1>11. StoryInv'
  <2>1. CountersFollowTheStory'
    BY <1>1, <1>3 DEF StoryInv, CountersFollowTheStory
  <2>2. ~crossed' => OneAtATime'
    <3>1. SUFFICES ASSUME ~crossed' PROVE OneAtATime'
      OBVIOUS
    <3>2. \A d \in Browsers \ {b} : asking'[d] = Quiet
      BY <1>3, <1>5, <3>1
    <3>3. asking'[b] = request /\ user' = user
      BY <1>3, <1>5
    <3>4. QED
      BY <1>4, <3>2, <3>3 DEF OneAtATime
  <2>3. \A d \in Browsers : asking'[d].op = "sign in" => asking'[d].at >= 1
    <3>1. ASSUME op = "sign in" PROVE request.at >= 1
      <4>1. minute >= 1
        BY <1>1 DEF AccountsTyped
      <4>2. QED
        BY <1>4, <3>1, <4>1
    <3>2. \A d \in Browsers : asking[d].op = "sign in" => asking[d].at >= 1
      BY <1>1 DEF StoryInv
    <3>3. QED
      BY <1>4, <1>5, <3>1, <3>2
  <2>4. QED
    BY <2>1, <2>2, <2>3 DEF StoryInv
<1>12. QED
  BY <1>9, <1>10, <1>11 DEF AccountsInv

(* The rest of the story after an answer: nobody is in flight any more.    *)
LEMMA AnswerKeepsStory ==
  ASSUME AccountsInv, NEW b \in Browsers, asking[b] # Quiet, Done(b),
         UNCHANGED crossed, CountersFollowTheStory'
  PROVE  StoryInv'
<1>1. /\ \A d \in Browsers : asking'[d] = IF d = b THEN Quiet ELSE asking[d]
      /\ ~crossed => \A d \in Browsers : asking'[d] = Quiet
  BY Answered
<1>2. \A d \in Browsers : asking[d].op = "sign in" => asking[d].at >= 1
  BY DEF AccountsInv, StoryInv
<1>3. Quiet.op # "sign in"
  BY DEF Quiet
<1>4. \A d \in Browsers : asking'[d].op = "sign in" => asking'[d].at >= 1
  BY <1>1, <1>2, <1>3
<1>5. ~crossed' => OneAtATime'
  BY <1>1 DEF OneAtATime, Quiet
<1>6. QED
  BY <1>4, <1>5 DEF StoryInv

(* A commit whose edit leaves the counter, the lock, the secret and the    *)
(* codes in step with the streak.                                          *)
LEMMA CommitKeepsStory ==
  ASSUME AccountsInv, NEW b \in Browsers, asking[b] # Quiet, Done(b),
         UNCHANGED crossed, NEW edited \in UserRows,
         user' = Flushed(asking[b].row, edited),
         ~crossed => /\ edited.failed = (streak' % MaxFailedSignIns)
                     /\ streak' >= MaxFailedSignIns <=> edited.lockedUntil # None
                     /\ \A code \in edited.codes : code[1] = edited.secret
  PROVE  StoryInv' /\ user' \in UserRows
<1>1. user' \in UserRows
  BY FlushedColumns DEF AccountsInv, AccountsTyped
<1>2. CountersFollowTheStory'
  <2>1. ~crossed => /\ user'.failed = edited.failed
                    /\ user'.lockedUntil = edited.lockedUntil
                    /\ user'.secret = edited.secret
                    /\ user'.codes = edited.codes
    BY FlushedAlone
  <2>2. QED
    BY <2>1 DEF CountersFollowTheStory
<1>3. QED
  BY <1>1, <1>2, AnswerKeepsStory

\* Answering a sign-in, whatever the row has become since it was read.
LEMMA SignInKeeps ==
  ASSUME AccountsInv, NEW b \in Browsers, SignIn(b)
  PROVE  AccountsInv'
<1> DEFINE row == asking[b].row
           at == asking[b].at
<1>1. AccountsTyped /\ SessionsInv /\ StoryInv
  BY DEF AccountsInv
<1>2. /\ asking[b].op = "sign in" /\ asking[b] # Quiet /\ Done(b)
      /\ UNCHANGED <<minute, enrolments, crossed>>
  BY InFlight DEF SignIn
<1>3. /\ asking[b] \in RequestsInFlight /\ row \in UserRows /\ at \in Nat
      /\ asking' \in [Browsers -> RequestsInFlight \cup {Quiet}]
      /\ \A d \in Browsers : asking'[d] = IF d = b THEN Quiet ELSE asking[d]
  BY <1>2, Answered DEF RequestsInFlight
<1>4. /\ \A d \in Browsers : asking'[d].op = "challenge" => asking[d].op = "challenge"
      /\ \A d \in Browsers \ {b} : asking'[d] = asking[d]
      /\ asking'[b].op # "challenge"
  BY <1>3 DEF Quiet
<1>5. ~crossed => /\ row.failed = user.failed /\ row.lockedUntil = user.lockedUntil
                  /\ row.secret = user.secret /\ row.codes = user.codes
  BY <1>1, <1>2 DEF StoryInv, OneAtATime
<1>6. CASE UNCHANGED <<user, cookie, proof, streak>>
  <2>1. CountersFollowTheStory'
    BY <1>1, <1>2, <1>6 DEF StoryInv, CountersFollowTheStory
  <2>2. SessionsInv' /\ StoryInv'
    BY <1>1, <1>2, <1>4, <1>6, <2>1, SameSessions, AnswerKeepsStory
  <2>3. AccountsTyped'
    BY <1>1, <1>2, <1>3, <1>6 DEF AccountsTyped
  <2>4. QED
    BY <2>2, <2>3 DEF AccountsInv
<1>7. CASE /\ user' = Flushed(row, AfterFailure(row, at))
           /\ streak' = streak + 1
           /\ UNCHANGED <<cookie, proof>>
  <2>1. AfterFailure(row, at) \in UserRows
    BY <1>1, <1>3, EditsAreRows, 0 \in Nat
  <2>2. ~crossed => /\ AfterFailure(row, at).failed = (streak' % MaxFailedSignIns)
                    /\ streak' >= MaxFailedSignIns <=> AfterFailure(row, at).lockedUntil # None
    BY <1>1, <1>3, <1>5, <1>7, StreakGrows DEF StoryInv
  <2>3. /\ AfterFailure(row, at).codes = row.codes
        /\ AfterFailure(row, at).secret = row.secret
    BY <1>3 DEF AfterFailure, UserRows
  <2>4. ~crossed => \A code \in row.codes : code[1] = row.secret
    BY <1>1, <1>5 DEF StoryInv, CountersFollowTheStory
  <2>5. StoryInv' /\ user' \in UserRows
    <3> DEFINE edited == AfterFailure(row, at)
    <3>1. ~crossed => /\ edited.failed = (streak' % MaxFailedSignIns)
                      /\ streak' >= MaxFailedSignIns <=> edited.lockedUntil # None
                      /\ \A code \in edited.codes : code[1] = edited.secret
      BY <2>2, <2>3, <2>4
    <3>2. edited \in UserRows /\ user' = Flushed(asking[b].row, edited)
      BY <1>7, <2>1
    <3> HIDE DEF edited
    <3>3. QED
      BY <1>2, <3>1, <3>2, CommitKeepsStory
  <2>6. SessionsInv'
    BY <1>1, <1>4, <1>7, SameSessions
  <2>7. streak' \in Nat
    BY <1>1, <1>7 DEF AccountsTyped
  <2>8. AccountsTyped'
    BY <1>1, <1>2, <1>3, <1>7, <2>5, <2>7 DEF AccountsTyped
  <2>9. QED
    BY <2>5, <2>6, <2>8 DEF AccountsInv
<1>8. CASE /\ user' = Flushed(row, AfterSuccess(row))
           /\ streak' = 0
           /\ \E o \in row.memberOf :
                cookie' = [cookie EXCEPT ![b] =
                             IF row.secret # None THEN Pending ELSE SignedInTo(o)]
           /\ proof' = [proof EXCEPT ![b] = Entered("password", row)]
  <2>1. StoryInv' /\ user' \in UserRows
    <3> DEFINE edited == AfterSuccess(row)
    <3>1. edited \in UserRows
      BY <1>1, <1>3, EditsAreRows, 0 \in Nat
    <3>2. /\ edited.failed = 0 /\ edited.lockedUntil = None
          /\ edited.secret = row.secret /\ edited.codes = row.codes
      BY <1>3 DEF AfterSuccess, UserRows
    <3>3. 0 = (0 % MaxFailedSignIns) /\ ~(0 >= MaxFailedSignIns)
      BY AccountsAssumption, RemainderOfNext DEF AccountsAssumption
    <3>4. ~crossed => \A code \in row.codes : code[1] = row.secret
      BY <1>1, <1>5 DEF StoryInv, CountersFollowTheStory
    <3>5. user' = Flushed(asking[b].row, edited) /\ streak' = 0
      BY <1>8
    <3> HIDE DEF edited
    <3>6. ~crossed => /\ edited.failed = (streak' % MaxFailedSignIns)
                      /\ streak' >= MaxFailedSignIns <=> edited.lockedUntil # None
                      /\ \A code \in edited.codes : code[1] = edited.secret
      BY <3>2, <3>3, <3>4, <3>5
    <3>7. QED
      BY <1>2, <3>1, <3>5, <3>6, CommitKeepsStory
  <2>2. /\ SessionsInv' /\ cookie' \in [Browsers -> CookieJar]
        /\ proof' \in [Browsers -> Proofs]
    <3> DEFINE steps == Entered("password", row)
    <3>1. PICK o \in row.memberOf :
            cookie' = [cookie EXCEPT ![b] =
                         IF row.secret # None THEN Pending ELSE SignedInTo(o)]
      BY <1>8
    <3> DEFINE c == IF row.secret # None THEN Pending ELSE SignedInTo(o)
    <3>2. o \in Orgs
      BY <1>3 DEF UserRows
    <3>3. /\ Pending \in CookieJar /\ Pending.pending /\ ~Pending.signedIn
          /\ SignedInTo(o) \in CookieJar /\ ~SignedInTo(o).pending
          /\ SignedInTo(o).org \in Orgs
      BY <3>2 DEF Pending, SignedInTo, EmptyCookie, CookieJar, None
    <3>4. /\ steps \in Proofs /\ steps.by = "password"
          /\ row.secret = None => ~steps.enrolled
      BY DEF Proofs, Entered
    <3>5. c \in CookieJar /\ ProvenSession(c, steps)
      BY <3>3, <3>4 DEF ProvenSession, Vouched
    <3>6. cookie' = [cookie EXCEPT ![b] = c] /\ proof' = [proof EXCEPT ![b] = steps]
      BY <1>8, <3>1
    <3> HIDE DEF c, steps
    <3>7. QED
      BY <1>1, <1>4, <3>4, <3>5, <3>6, OneSession
  <2>3. AccountsTyped'
    BY <1>1, <1>2, <1>3, <1>8, <2>1, <2>2 DEF AccountsTyped
  <2>4. QED
    BY <2>1, <2>2, <2>3 DEF AccountsInv
<1>9. QED
  BY <1>6, <1>7, <1>8 DEF SignIn

\* Answering a browser that comes back from the identity provider.
LEMMA SsoCallbackKeeps ==
  ASSUME AccountsInv, NEW b \in Browsers, SsoCallback(b)
  PROVE  AccountsInv'
<1> DEFINE row == asking[b].row
<1>1. AccountsTyped /\ SessionsInv /\ StoryInv
  BY DEF AccountsInv
<1>2. /\ asking[b].op = "sso" /\ asking[b] # Quiet /\ Done(b)
      /\ UNCHANGED <<minute, user, enrolments, streak, crossed>>
  BY InFlight DEF SsoCallback
<1>3. /\ row \in UserRows
      /\ asking' \in [Browsers -> RequestsInFlight \cup {Quiet}]
      /\ \A d \in Browsers : asking'[d] = IF d = b THEN Quiet ELSE asking[d]
  BY <1>2, Answered DEF RequestsInFlight
<1>4. /\ \A d \in Browsers : asking'[d].op = "challenge" => asking[d].op = "challenge"
      /\ \A d \in Browsers \ {b} : asking'[d] = asking[d]
      /\ asking'[b].op # "challenge"
  BY <1>3 DEF Quiet
<1>5. CountersFollowTheStory' /\ StoryInv'
  <2>1. CountersFollowTheStory'
    BY <1>1, <1>2 DEF StoryInv, CountersFollowTheStory
  <2>2. QED
    BY <1>2, <2>1, AnswerKeepsStory
<1>6. /\ SessionsInv' /\ cookie' \in [Browsers -> CookieJar]
      /\ proof' \in [Browsers -> Proofs]
  <2>1. CASE UNCHANGED <<cookie, proof>>
    BY <1>1, <1>4, <2>1, SameSessions DEF AccountsTyped
  <2>2. CASE /\ \E o \in row.memberOf : cookie' = [cookie EXCEPT ![b] = SignedInTo(o)]
             /\ proof' = [proof EXCEPT ![b] = Entered("provider", row)]
    <3> DEFINE steps == Entered("provider", row)
    <3>1. PICK o \in row.memberOf : cookie' = [cookie EXCEPT ![b] = SignedInTo(o)]
      BY <2>2
    <3>2. o \in Orgs
      BY <1>3 DEF UserRows
    <3>3. /\ SignedInTo(o) \in CookieJar /\ ~SignedInTo(o).pending
          /\ SignedInTo(o).org \in Orgs
      BY <3>2 DEF SignedInTo, EmptyCookie, CookieJar, None
    <3>4. steps \in Proofs /\ steps.by = "provider"
      BY DEF Proofs, Entered
    <3>5. ProvenSession(SignedInTo(o), steps)
      BY <3>3, <3>4 DEF ProvenSession, Vouched
    <3>6. proof' = [proof EXCEPT ![b] = steps]
      BY <2>2
    <3> HIDE DEF steps
    <3>7. QED
      BY <1>1, <1>4, <3>1, <3>3, <3>4, <3>5, <3>6, OneSession
  <2>3. QED
    BY <2>1, <2>2 DEF SsoCallback
<1>7. AccountsTyped'
  BY <1>1, <1>2, <1>3, <1>6 DEF AccountsTyped
<1>8. QED
  BY <1>5, <1>6, <1>7 DEF AccountsInv

\* Answering the one-time code of a second factor.
LEMMA ChallengeKeeps ==
  ASSUME AccountsInv, NEW b \in Browsers, Challenge(b)
  PROVE  AccountsInv'
<1> DEFINE row == asking[b].row
<1>1. AccountsTyped /\ SessionsInv /\ StoryInv
  BY DEF AccountsInv
<1>2. /\ asking[b].op = "challenge" /\ asking[b] # Quiet /\ Done(b)
      /\ UNCHANGED <<minute, enrolments, streak, crossed>>
  BY InFlight DEF Challenge
<1>3. /\ row \in UserRows
      /\ asking' \in [Browsers -> RequestsInFlight \cup {Quiet}]
      /\ \A d \in Browsers : asking'[d] = IF d = b THEN Quiet ELSE asking[d]
  BY <1>2, Answered DEF RequestsInFlight
<1>4. /\ \A d \in Browsers : asking'[d].op = "challenge" => asking[d].op = "challenge"
      /\ \A d \in Browsers \ {b} : asking'[d] = asking[d]
      /\ asking'[b].op # "challenge"
  BY <1>3 DEF Quiet
<1>5. CASE UNCHANGED <<user, cookie, proof>>
  <2>1. CountersFollowTheStory'
    BY <1>1, <1>2, <1>5 DEF StoryInv, CountersFollowTheStory
  <2>2. SessionsInv' /\ StoryInv'
    BY <1>1, <1>2, <1>4, <1>5, <2>1, SameSessions, AnswerKeepsStory
  <2>3. AccountsTyped'
    BY <1>1, <1>2, <1>3, <1>5 DEF AccountsTyped
  <2>4. QED
    BY <2>2, <2>3 DEF AccountsInv
<1>6. CASE /\ \E after \in Verified(row) : user' = Flushed(row, after)
           /\ IF row.memberOf = {}
                THEN UNCHANGED <<cookie, proof>>
                ELSE /\ \E o \in row.memberOf : cookie' = [cookie EXCEPT ![b] = SignedInTo(o)]
                     /\ proof' = [proof EXCEPT ![b].code = TRUE]
  <2>1. StoryInv' /\ user' \in UserRows
    <3>1. PICK after \in Verified(row) : user' = Flushed(row, after)
      BY <1>6
    <3>2. after \in UserRows
      BY <1>1, <1>3, EditsAreRows, 0 \in Nat
    <3>3. /\ after.failed = row.failed /\ after.lockedUntil = row.lockedUntil
          /\ after.secret = row.secret /\ after.codes \subseteq row.codes
      BY <1>3, <3>1 DEF Verified, UserRows
    <3>4. ~crossed => /\ after.failed = (streak' % MaxFailedSignIns)
                      /\ streak' >= MaxFailedSignIns <=> after.lockedUntil # None
                      /\ \A code \in after.codes : code[1] = after.secret
      BY <1>1, <1>2, <3>3 DEF StoryInv, CountersFollowTheStory, OneAtATime
    <3>5. QED
      BY <1>2, <3>1, <3>2, <3>4, CommitKeepsStory
  <2>2. /\ SessionsInv' /\ cookie' \in [Browsers -> CookieJar]
        /\ proof' \in [Browsers -> Proofs]
    <3>1. CASE row.memberOf = {}
      BY <1>1, <1>4, <1>6, <3>1, SameSessions DEF AccountsTyped
    <3>2. CASE row.memberOf # {}
      <4> DEFINE steps == [proof[b] EXCEPT !.code = TRUE]
      <4>1. PICK o \in row.memberOf : cookie' = [cookie EXCEPT ![b] = SignedInTo(o)]
        BY <1>6, <3>2
      <4>2. o \in Orgs
        BY <1>3 DEF UserRows
      <4>3. /\ SignedInTo(o) \in CookieJar /\ ~SignedInTo(o).pending
            /\ SignedInTo(o).org \in Orgs
        BY <4>2 DEF SignedInTo, EmptyCookie, CookieJar, None
      <4>4. proof[b] \in Proofs /\ proof[b].by = "password"
        <5>1. cookie[b].pending => proof[b].by = "password"
          BY <1>1 DEF SessionsInv, ProvenSession
        <5>2. cookie[b].pending
          BY <1>1, <1>2 DEF SessionsInv
        <5>3. QED
          BY <1>1, <5>1, <5>2 DEF AccountsTyped
      <4>5. steps \in Proofs /\ steps.by = "password" /\ steps.code
        BY <4>4 DEF Proofs
      <4>6. ProvenSession(SignedInTo(o), steps)
        BY <4>3, <4>5 DEF ProvenSession, Vouched
      <4>7. proof' = [proof EXCEPT ![b] = steps]
        BY <1>6, <3>2
      <4> HIDE DEF steps
      <4>8. QED
        BY <1>1, <1>4, <4>1, <4>3, <4>5, <4>6, <4>7, OneSession
    <3>3. QED
      BY <3>1, <3>2
  <2>3. AccountsTyped'
    BY <1>1, <1>2, <1>3, <2>1, <2>2 DEF AccountsTyped
  <2>4. QED
    BY <2>1, <2>2, <2>3 DEF AccountsInv
<1>7. QED
  BY <1>5, <1>6 DEF Challenge

(* The steps of a browser that has no request in flight leave the account  *)
(* alone.                                                                  *)
LEMMA CookieStepKeeps ==
  ASSUME AccountsInv, NEW b \in Browsers, asking[b] = Quiet,
         NEW c \in CookieJar, NEW steps \in Proofs, ProvenSession(c, steps),
         cookie' = [cookie EXCEPT ![b] = c], proof' = [proof EXCEPT ![b] = steps],
         enrolments' \in Nat, UNCHANGED <<minute, user, asking, streak, crossed>>
  PROVE  AccountsInv'
<1>1. AccountsTyped /\ SessionsInv /\ StoryInv
  BY DEF AccountsInv
<1>2. asking'[b].op # "challenge"
  BY DEF Quiet
<1>3. /\ cookie' \in [Browsers -> CookieJar] /\ proof' \in [Browsers -> Proofs]
      /\ SessionsInv'
  BY <1>1, <1>2, OneSession
<1>4. AccountsTyped'
  BY <1>1, <1>3 DEF AccountsTyped
<1>5. StoryInv'
  BY <1>1 DEF StoryInv, CountersFollowTheStory, OneAtATime
<1>6. QED
  BY <1>3, <1>4, <1>5 DEF AccountsInv

(* Being signed in and a member of something, the session a request works  *)
(* with is a proven one, whatever it then parks in it or switches to.      *)
LEMMA AuthenticatedCookie ==
  ASSUME AccountsTyped, SessionsInv, NEW b \in Browsers,
         NEW c \in LoadedCookie(b), IsAuthenticated(c)
  PROVE  c \in CookieJar /\ ProvenSession(c, proof[b])
<1>1. /\ c \in CookieJar
      /\ c.signedIn => cookie[b].signedIn
      /\ c.signedIn => c.org = cookie[b].org \/ c.org \in Orgs
      /\ c.pending => cookie[b].pending
  BY LoadedCookies
<1>2. ProvenSession(cookie[b], proof[b])
  BY DEF SessionsInv
<1>3. c.signedIn
  BY DEF IsAuthenticated
<1>4. QED
  BY <1>1, <1>2, <1>3 DEF ProvenSession

\* Parking a new secret in the session.
LEMMA SetupKeeps ==
  ASSUME AccountsInv, NEW b \in Browsers, Setup(b)
  PROVE  AccountsInv'
<1>1. AccountsTyped /\ SessionsInv
  BY DEF AccountsInv
<1>2. PICK loaded \in LoadedCookie(b) :
        /\ IsAuthenticated(loaded)
        /\ cookie' = [cookie EXCEPT ![b] = [loaded EXCEPT !.parked = NewSecret]]
  BY DEF Setup
<1> DEFINE c == [loaded EXCEPT !.parked = NewSecret]
<1>3. loaded \in CookieJar /\ ProvenSession(loaded, proof[b])
  BY <1>1, <1>2, AuthenticatedCookie
<1>4. NewSecret \in Nat /\ enrolments' \in Nat
  BY <1>1 DEF Setup, NewSecret, AccountsTyped
<1>5. c \in CookieJar /\ ProvenSession(c, proof[b])
  BY <1>3, <1>4 DEF CookieJar, ProvenSession
<1>6. proof[b] \in Proofs /\ proof' = [proof EXCEPT ![b] = proof[b]]
  BY <1>1 DEF AccountsTyped, Setup
<1>7. asking[b] = Quiet /\ UNCHANGED <<minute, user, asking, streak, crossed>>
  BY DEF Setup
<1> HIDE DEF c
<1>8. cookie' = [cookie EXCEPT ![b] = c]
  BY <1>2 DEF c
<1>9. QED
  BY <1>4, <1>5, <1>6, <1>7, <1>8, CookieStepKeeps

\* Switching the session to another organisation of the user.
LEMMA SwitchOrgKeeps ==
  ASSUME AccountsInv, NEW b \in Browsers, SwitchOrg(b)
  PROVE  AccountsInv'
<1>1. AccountsTyped /\ SessionsInv
  BY DEF AccountsInv
<1>2. PICK loaded \in LoadedCookie(b), o \in user.memberOf :
        /\ IsAuthenticated(loaded)
        /\ cookie' = [cookie EXCEPT ![b] = [loaded EXCEPT !.org = o]]
  BY DEF SwitchOrg
<1> DEFINE c == [loaded EXCEPT !.org = o]
<1>3. loaded \in CookieJar /\ ProvenSession(loaded, proof[b]) /\ o \in Orgs
  BY <1>1, <1>2, AuthenticatedCookie DEF AccountsTyped, UserRows
<1>4. c \in CookieJar /\ ProvenSession(c, proof[b])
  BY <1>3 DEF CookieJar, ProvenSession
<1>5. proof[b] \in Proofs /\ proof' = [proof EXCEPT ![b] = proof[b]] /\ enrolments' \in Nat
  BY <1>1 DEF AccountsTyped, SwitchOrg
<1>6. asking[b] = Quiet /\ UNCHANGED <<minute, user, asking, streak, crossed>>
  BY DEF SwitchOrg
<1> HIDE DEF c
<1>7. cookie' = [cookie EXCEPT ![b] = c]
  BY <1>2 DEF c
<1>8. QED
  BY <1>4, <1>5, <1>6, <1>7, CookieStepKeeps

\* Clearing the session.
LEMMA SignOutKeeps ==
  ASSUME AccountsInv, NEW b \in Browsers, SignOut(b)
  PROVE  AccountsInv'
<1>1. EmptyCookie \in CookieJar /\ NoProof \in Proofs /\ ProvenSession(EmptyCookie, NoProof)
  BY DEF EmptyCookie, CookieJar, NoProof, Proofs, ProvenSession, None
<1>2. /\ asking[b] = Quiet
      /\ cookie' = [cookie EXCEPT ![b] = EmptyCookie]
      /\ proof' = [proof EXCEPT ![b] = NoProof]
      /\ UNCHANGED <<minute, user, asking, streak, crossed>> /\ enrolments' = enrolments
  BY DEF SignOut
<1>3. enrolments' \in Nat
  BY <1>2 DEF AccountsInv, AccountsTyped
<1>4. QED
  BY <1>1, <1>2, <1>3, CookieStepKeeps

\* Confirming the parked secret.
LEMMA EnableKeeps ==
  ASSUME AccountsInv, NEW b \in Browsers, Enable(b)
  PROVE  AccountsInv'
<1> DEFINE row == asking[b].row
           secret == cookie[b].parked
<1>1. AccountsTyped /\ SessionsInv /\ StoryInv
  BY DEF AccountsInv
<1>2. /\ asking[b] # Quiet /\ Done(b)
      /\ UNCHANGED <<minute, enrolments, proof, streak, crossed>>
  BY InFlight DEF Enable
<1>3. /\ row \in UserRows /\ cookie[b] \in CookieJar /\ secret \in Nat
      /\ asking' \in [Browsers -> RequestsInFlight \cup {Quiet}]
      /\ \A d \in Browsers : asking'[d] = IF d = b THEN Quiet ELSE asking[d]
  BY <1>1, <1>2, Answered DEF RequestsInFlight, AccountsTyped, CookieJar
<1>4. /\ \A d \in Browsers : asking'[d].op = "challenge" => asking[d].op = "challenge"
      /\ \A d \in Browsers \ {b} : asking'[d] = asking[d]
      /\ asking'[b].op # "challenge"
  BY <1>3 DEF Quiet
<1>5. CASE UNCHANGED <<user, cookie>>
  <2>1. CountersFollowTheStory'
    BY <1>1, <1>2, <1>5 DEF StoryInv, CountersFollowTheStory
  <2>2. SessionsInv' /\ StoryInv'
    BY <1>1, <1>2, <1>4, <1>5, <2>1, SameSessions, AnswerKeepsStory
  <2>3. AccountsTyped'
    BY <1>1, <1>2, <1>3, <1>5 DEF AccountsTyped
  <2>4. QED
    BY <2>2, <2>3 DEF AccountsInv
<1>6. CASE /\ user' = Flushed(row, Confirmed(row, secret))
           /\ cookie' = [cookie EXCEPT ![b].parked = None]
  <2>1. StoryInv' /\ user' \in UserRows
    <3> DEFINE edited == Confirmed(row, secret)
    <3>1. edited \in UserRows
      BY <1>1, <1>3, EditsAreRows, 0 \in Nat
    <3>2. /\ edited.failed = row.failed /\ edited.lockedUntil = row.lockedUntil
          /\ \A code \in edited.codes : code[1] = edited.secret
      BY <1>3 DEF Confirmed, UserRows
    <3>3. user' = Flushed(asking[b].row, edited)
      BY <1>6
    <3> HIDE DEF edited
    <3>4. ~crossed => /\ edited.failed = (streak' % MaxFailedSignIns)
                      /\ streak' >= MaxFailedSignIns <=> edited.lockedUntil # None
                      /\ \A code \in edited.codes : code[1] = edited.secret
      BY <1>1, <1>2, <3>2 DEF StoryInv, CountersFollowTheStory, OneAtATime
    <3>5. QED
      BY <1>2, <3>1, <3>3, <3>4, CommitKeepsStory
  <2>2. /\ SessionsInv' /\ cookie' \in [Browsers -> CookieJar]
        /\ proof' \in [Browsers -> Proofs]
    <3> DEFINE c == [cookie[b] EXCEPT !.parked = None]
    <3>1. c \in CookieJar
      BY <1>3 DEF CookieJar, None
    <3>2. ProvenSession(c, proof[b])
      BY <1>1, <1>3 DEF SessionsInv, ProvenSession, CookieJar
    <3>3. cookie' = [cookie EXCEPT ![b] = c]
      BY <1>6
    <3>4. proof' = [proof EXCEPT ![b] = proof[b]] /\ proof[b] \in Proofs
      BY <1>1, <1>2 DEF AccountsTyped
    <3> HIDE DEF c
    <3>5. QED
      BY <1>1, <1>4, <3>1, <3>2, <3>3, <3>4, OneSession
  <2>3. AccountsTyped'
    BY <1>1, <1>2, <1>3, <2>1, <2>2 DEF AccountsTyped
  <2>4. QED
    BY <2>1, <2>2, <2>3 DEF AccountsInv
<1>7. QED
  BY <1>5, <1>6 DEF Enable

\* Taking the second factor off.
LEMMA DisableKeeps ==
  ASSUME AccountsInv, NEW b \in Browsers, Disable(b)
  PROVE  AccountsInv'
<1> DEFINE row == asking[b].row
<1>1. AccountsTyped /\ SessionsInv /\ StoryInv
  BY DEF AccountsInv
<1>2. /\ asking[b] # Quiet /\ Done(b)
      /\ UNCHANGED <<minute, cookie, enrolments, proof, streak, crossed>>
  BY InFlight DEF Disable
<1>3. /\ row \in UserRows
      /\ asking' \in [Browsers -> RequestsInFlight \cup {Quiet}]
      /\ \A d \in Browsers : asking'[d] = IF d = b THEN Quiet ELSE asking[d]
  BY <1>1, <1>2, Answered DEF RequestsInFlight
<1>4. SessionsInv'
  <2>1. \A d \in Browsers : asking'[d].op = "challenge" => asking[d].op = "challenge"
    BY <1>3 DEF Quiet
  <2>2. QED
    BY <1>1, <1>2, <2>1, SameSessions
<1>5. StoryInv' /\ user' \in UserRows
  <2>1. CASE UNCHANGED user
    <3>1. CountersFollowTheStory'
      BY <1>1, <1>2, <2>1 DEF StoryInv, CountersFollowTheStory
    <3>2. QED
      BY <1>1, <1>2, <2>1, <3>1, AnswerKeepsStory DEF AccountsTyped
  <2>2. CASE user' = Flushed(row, Unenrolled(row))
    <3> DEFINE edited == Unenrolled(row)
    <3>1. edited \in UserRows
      BY <1>1, <1>3, EditsAreRows, 0 \in Nat
    <3>2. /\ edited.failed = row.failed /\ edited.lockedUntil = row.lockedUntil
          /\ edited.codes = {}
      BY <1>3 DEF Unenrolled, UserRows
    <3>3. user' = Flushed(asking[b].row, edited)
      BY <2>2
    <3> HIDE DEF edited
    <3>4. ~crossed => /\ edited.failed = (streak' % MaxFailedSignIns)
                      /\ streak' >= MaxFailedSignIns <=> edited.lockedUntil # None
                      /\ \A code \in edited.codes : code[1] = edited.secret
      BY <1>1, <1>2, <3>2 DEF StoryInv, CountersFollowTheStory, OneAtATime
    <3>5. QED
      BY <1>2, <3>1, <3>3, <3>4, CommitKeepsStory
  <2>3. QED
    BY <2>1, <2>2 DEF Disable
<1>6. AccountsTyped'
  BY <1>1, <1>2, <1>3, <1>5 DEF AccountsTyped
<1>7. QED
  BY <1>4, <1>5, <1>6 DEF AccountsInv

\* What an operator does to the account behind the back of the sessions.
LEMMA OperateKeeps ==
  ASSUME AccountsInv, Operate
  PROVE  AccountsInv'
<1>1. AccountsTyped /\ SessionsInv /\ StoryInv
  BY DEF AccountsInv
<1>2. UNCHANGED <<minute, cookie, asking, enrolments, proof, streak, crossed>>
  BY DEF Operate
<1>3. /\ user' \in UserRows /\ user'.failed = user.failed
      /\ user'.lockedUntil = user.lockedUntil
      /\ user'.secret = user.secret /\ user'.codes = user.codes
  BY <1>1 DEF Operate, AccountsTyped, UserRows
<1>4. AccountsTyped' /\ SessionsInv'
  BY <1>1, <1>2, <1>3, SameSessions DEF AccountsTyped
<1>5. StoryInv'
  BY <1>1, <1>2, <1>3 DEF StoryInv, CountersFollowTheStory, OneAtATime
<1>6. QED
  BY <1>4, <1>5 DEF AccountsInv

\* Every step keeps the invariant.
LEMMA AccountsInvInductive == AccountsInv /\ [AccountsNext]_accountVars => AccountsInv'
<1> SUFFICES ASSUME AccountsInv, [AccountsNext]_accountVars PROVE AccountsInv'
  OBVIOUS
<1>1. CASE PassMinute
  <2>1. minute' \in Nat /\ minute' >= 1
    BY <1>1 DEF PassMinute, AccountsInv, AccountsTyped
  <2>2. UNCHANGED <<user, cookie, asking, enrolments, proof, streak, crossed>>
    BY <1>1 DEF PassMinute
  <2>3. AccountsTyped' /\ SessionsInv'
    BY <2>1, <2>2, SameSessions DEF AccountsInv, AccountsTyped
  <2>4. StoryInv'
    BY <2>2 DEF AccountsInv, StoryInv, CountersFollowTheStory, OneAtATime
  <2>5. QED
    BY <2>3, <2>4 DEF AccountsInv
<1>2. CASE UNCHANGED accountVars
  <2>1. UNCHANGED <<minute, user, cookie, asking, enrolments, proof, streak, crossed>>
    BY <1>2 DEF accountVars
  <2>2. AccountsTyped' /\ SessionsInv'
    BY <2>1, SameSessions DEF AccountsInv, AccountsTyped
  <2>3. StoryInv'
    BY <2>1 DEF AccountsInv, StoryInv, CountersFollowTheStory, OneAtATime
  <2>4. QED
    BY <2>2, <2>3 DEF AccountsInv
<1>3. QED
  BY <1>1, <1>2, OperateKeeps, LoadKeeps, SignInKeeps, SsoCallbackKeeps,
     ChallengeKeeps, SetupKeeps, EnableKeeps, DisableKeeps, SwitchOrgKeeps, SignOutKeeps
  DEF AccountsNext

\* The invariant holds of a new account nobody has signed in to.
LEMMA AccountsInvInitially == AccountsInit => AccountsInv
<1> SUFFICES ASSUME AccountsInit PROVE AccountsInv
  OBVIOUS
<1>1. MaxFailedSignIns \in Nat \ {0}
  BY AccountsAssumption DEF AccountsAssumption
<1>2. AccountsTyped
  <2>1. EmptyCookie \in CookieJar /\ NoProof \in Proofs
    BY DEF EmptyCookie, CookieJar, NoProof, Proofs, None
  <2>2. user \in UserRows
    BY DEF AccountsInit, UserRows, None
  <2>3. minute \in Nat /\ minute >= 1 /\ enrolments \in Nat /\ streak \in Nat
    BY DEF AccountsInit
  <2>4. /\ cookie \in [Browsers -> CookieJar] /\ proof \in [Browsers -> Proofs]
        /\ asking \in [Browsers -> RequestsInFlight \cup {Quiet}]
        /\ crossed \in BOOLEAN
    BY <2>1 DEF AccountsInit
  <2>5. QED
    BY <2>2, <2>3, <2>4 DEF AccountsTyped
<1>3. SessionsInv
  BY DEF AccountsInit, SessionsInv, ProvenSession, EmptyCookie, Quiet
<1>4. StoryInv
  <2>1. 0 = (0 % MaxFailedSignIns) /\ ~(0 >= MaxFailedSignIns)
    BY <1>1, RemainderOfNext
  <2>2. CountersFollowTheStory
    BY <2>1 DEF AccountsInit, CountersFollowTheStory, None
  <2>3. QED
    BY <2>2 DEF AccountsInit, StoryInv, OneAtATime, Quiet
<1>5. QED
  BY <1>2, <1>3, <1>4 DEF AccountsInv

(* A browser is signed in only on the word of the identity provider, or on *)
(* a password and, when the account was enrolled as the password was       *)
(* accepted, a code, and to an organisation the user was in; in between it *)
(* is signed in to nothing (auth.py:35-81, 153-243, deps.py:116-136).      *)
THEOREM SignedInMeansProven == AccountsSpec => []SessionsAreProven
<1>1. AccountsInv => SessionsAreProven
  <2> SUFFICES ASSUME AccountsInv, NEW b \in Browsers
               PROVE  /\ cookie[b].signedIn => Vouched(proof[b])
                      /\ cookie[b].pending => ~cookie[b].signedIn
                      /\ cookie[b].signedIn => cookie[b].org \in Orgs
    BY DEF SessionsAreProven, Vouched
  <2>1. ProvenSession(cookie[b], proof[b])
    BY DEF AccountsInv, SessionsInv
  <2>2. QED
    BY <2>1 DEF ProvenSession
<1>2. QED
  BY <1>1, AccountsInvInitially, AccountsInvInductive, PTL DEF AccountsSpec

(* While no two requests overlap, the failure counter is the streak of     *)
(* refused passwords modulo the limit, the account has been locked exactly *)
(* when the streak reached it, and the recovery codes are those of the     *)
(* stored secret (accounts.py:263-301, mfa.py:102-122).  What is asked of  *)
(* a locked or disabled account, or of a user in no organisation, is not   *)
(* part of the streak.                                                     *)
THEOREM LockFollowsTheStreak == AccountsSpec => []CountersFollowTheStory
<1>1. AccountsInv => CountersFollowTheStory
  BY DEF AccountsInv, StoryInv
<1>2. QED
  BY <1>1, AccountsInvInitially, AccountsInvInductive, PTL DEF AccountsSpec

-----------------------------------------------------------------------------
(* The production board.                                                   *)

Rows == [week : Mondays, removed : Int,
         completed : {NoAnswer, "met", "missed"}, reason : BOOLEAN]

(* Promises are numbered in the order they were stored. *)
BoardTyped ==
    /\ IsFiniteSet(PromiseIds) /\ PromiseIds = 1..Cardinality(PromiseIds)
    /\ \A p \in PromiseIds : promises[p] \in Rows
    /\ DOMAIN desk = Planners

(* A week is open exactly for the promises made in it. *)
WeeksHavePromises ==
    /\ \A p \in PromiseIds : promises[p].week \in plans
    /\ \A monday \in plans : \E p \in PromiseIds : promises[p].week = monday

Assessing(c, p) == desk[c].op = "assess" /\ desk[c].of = p

(* An edit holds a row as it once was; what an assessment writes over is   *)
(* still what it loaded, unless another assessment of the promise overlaps *)
(* it.                                                                     *)
EditsAreCurrent ==
    \A c \in Planners :
        /\ desk[c].op \in {"assess", "clear"} =>
             /\ desk[c].of \in PromiseIds
             /\ desk[c].row \in Rows
        /\ desk[c].op = "assess" /\ desk[c].of \notin raced =>
             /\ desk[c].row.week = promises[desk[c].of].week
             /\ desk[c].row.completed = promises[desk[c].of].completed
             /\ desk[c].row.reason = promises[desk[c].of].reason
             /\ \A d \in Planners : Assessing(d, desk[c].of) => d = c

RowsAreReadable == \A p \in PromiseIds : ~IsReadable(promises[p]) => p \in raced

BoardInv == BoardTyped /\ WeeksHavePromises /\ EditsAreCurrent /\ RowsAreReadable

-----------------------------------------------------------------------------
(* What an edit writes.                                                    *)

(* Only the columns an edit changed are written over the stored row.       *)
LEMMA FlushColumns ==
  ASSUME NEW loaded \in Rows, NEW edited \in Rows, NEW stored \in Rows
  PROVE  LET row == Flush(loaded, edited, stored) IN
         /\ row \in Rows
         /\ row.week = IF edited.week = loaded.week THEN stored.week ELSE edited.week
         /\ row.completed = IF edited.completed = loaded.completed
                              THEN stored.completed ELSE edited.completed
         /\ row.reason = IF edited.reason = loaded.reason THEN stored.reason ELSE edited.reason
<1> DEFINE row == Flush(loaded, edited, stored)
<1>1. DOMAIN stored = {"week", "removed", "completed", "reason"}
  BY DEF Rows
<1>2. row = [f \in {"week", "removed", "completed", "reason"} |->
               IF edited[f] = loaded[f] THEN stored[f] ELSE edited[f]]
  BY <1>1 DEF Flush
<1>3. row = [week |-> IF edited.week = loaded.week THEN stored.week ELSE edited.week,
             removed |-> IF edited.removed = loaded.removed
                           THEN stored.removed ELSE edited.removed,
             completed |-> IF edited.completed = loaded.completed
                             THEN stored.completed ELSE edited.completed,
             reason |-> IF edited.reason = loaded.reason THEN stored.reason ELSE edited.reason]
  BY <1>2
<1> HIDE DEF row
<1>4. row \in Rows
  BY <1>3 DEF Rows
<1>5. QED
  BY <1>3, <1>4 DEF row

(* An assessment leaves the week alone, and over the row it had loaded it  *)
(* leaves one the engine accepts.                                          *)
LEMMA AssessmentIsReadable ==
  ASSUME NEW loaded \in Rows, NEW stored \in Rows, NEW met \in BOOLEAN
  PROVE  LET row == Flush(loaded, Assessed(loaded, met), stored) IN
         /\ row \in Rows
         /\ row.week = stored.week
         /\ loaded.completed = stored.completed /\ loaded.reason = stored.reason =>
              IsReadable(row)
<1> DEFINE edited == Assessed(loaded, met)
<1>1. /\ edited \in Rows
      /\ edited.week = loaded.week
      /\ edited.completed = IF met THEN "met" ELSE "missed"
      /\ edited.reason = ~met
  BY DEF Assessed, Rows
<1> HIDE DEF edited
<1> DEFINE row == Flush(loaded, edited, stored)
<1>2. /\ row \in Rows
      /\ row.week = stored.week
      /\ row.completed = IF edited.completed = loaded.completed
                           THEN stored.completed ELSE edited.completed
      /\ row.reason = IF edited.reason = loaded.reason THEN stored.reason ELSE edited.reason
  BY <1>1, FlushColumns
<1> HIDE DEF row
<1>3. loaded.completed = stored.completed /\ loaded.reason = stored.reason => IsReadable(row)
  BY <1>1, <1>2 DEF IsReadable
<1>4. QED
  BY <1>2, <1>3 DEF row, edited

(* Clearing a constraint touches neither the week nor the assessment.      *)
LEMMA ClearingTouchesTheDayOnly ==
  ASSUME NEW loaded \in Rows, NEW stored \in Rows, NEW day \in Int
  PROVE  LET row == Flush(loaded, Cleared(loaded, day), stored) IN
         /\ row \in Rows
         /\ row.week = stored.week
         /\ row.completed = stored.completed
         /\ row.reason = stored.reason
<1> DEFINE edited == Cleared(loaded, day)
<1>1. /\ edited \in Rows
      /\ edited.week = loaded.week
      /\ edited.completed = loaded.completed
      /\ edited.reason = loaded.reason
  BY DEF Cleared, Rows
<1> HIDE DEF edited
<1>2. QED
  BY <1>1, FlushColumns DEF edited

(* A promise just made is a row the engine accepts, whatever the form says. *)
LEMMA PromiseIsReadable ==
  ASSUME NEW f \in Forms
  PROVE  /\ NewRow(f) \in Rows
         /\ NewRow(f).week = f.week
         /\ IsReadable(NewRow(f))
<1>1. /\ f.week \in Mondays
      /\ f.removed \in {Free, Never, 0}
  BY DEF Forms
<1>2. Free \in Int /\ Never \in Int
  BY BoardAssumption DEF Free, Never, BoardAssumption
<1>3. QED
  BY <1>1, <1>2 DEF NewRow, Rows, IsReadable, NoAnswer

-----------------------------------------------------------------------------
(* Steps of the board.                                                     *)

(* An edit of promise p leaves a row the engine accepts, or else two       *)
(* assessments of p overlapped; nobody else's assessment is overtaken.     *)
LEMMA EditKeeps ==
  ASSUME BoardInv, NEW c \in Planners, desk[c].op \in {"assess", "clear"},
         NEW row \in Rows,
         row.week = promises[desk[c].of].week,
         desk[c].op = "assess" /\ desk[c].of \notin raced => IsReadable(row),
         desk[c].op = "clear" => /\ row.completed = promises[desk[c].of].completed
                                 /\ row.reason = promises[desk[c].of].reason,
         promises' = [promises EXCEPT ![desk[c].of] = row],
         desk' = [desk EXCEPT ![c] = Idle],
         UNCHANGED <<plans, raced>>
  PROVE  BoardInv'
<1> DEFINE p == desk[c].of
<1>1. /\ IsFiniteSet(PromiseIds) /\ PromiseIds = 1..Cardinality(PromiseIds)
      /\ \A q \in PromiseIds : promises[q] \in Rows
      /\ DOMAIN desk = Planners
      /\ p \in PromiseIds
      /\ p \notin raced => IsReadable(promises[p])
  BY DEF BoardInv, BoardTyped, EditsAreCurrent, RowsAreReadable
<1>2. /\ PromiseIds' = PromiseIds
      /\ promises'[p] = row
      /\ \A q \in PromiseIds : q # p => promises'[q] = promises[q]
      /\ \A q \in PromiseIds : promises'[q].week = promises[q].week
  BY <1>1 DEF PromiseIds
<1>3. /\ DOMAIN desk' = Planners
      /\ desk'[c].op = "idle"
      /\ \A d \in Planners : d # c => desk'[d] = desk[d]
  BY <1>1 DEF Idle
<1>4. p \notin raced => IsReadable(row)
  BY <1>1 DEF IsReadable
<1> HIDE DEF p
<1>5. BoardTyped'
  BY <1>1, <1>2, <1>3 DEF BoardTyped
<1>6. WeeksHavePromises'
  BY <1>2 DEF BoardInv, WeeksHavePromises
<1>7. RowsAreReadable'
  BY <1>2, <1>4 DEF BoardInv, RowsAreReadable
<1>8. EditsAreCurrent'
  <2> SUFFICES ASSUME NEW d \in Planners, desk'[d].op \in {"assess", "clear"}
               PROVE  /\ desk'[d].of \in PromiseIds'
                      /\ desk'[d].row \in Rows
                      /\ desk'[d].op = "assess" /\ desk'[d].of \notin raced' =>
                           /\ desk'[d].row.week = promises'[desk'[d].of].week
                           /\ desk'[d].row.completed = promises'[desk'[d].of].completed
                           /\ desk'[d].row.reason = promises'[desk'[d].of].reason
                           /\ \A e \in Planners :
                                desk'[e].op = "assess" /\ desk'[e].of = desk'[d].of => e = d
    BY DEF EditsAreCurrent, Assessing
  <2>1. d # c /\ desk'[d] = desk[d]
    BY <1>3
  <2>2. desk[d].of \in PromiseIds /\ desk[d].row \in Rows
    BY <2>1 DEF BoardInv, EditsAreCurrent
  <2>3. ASSUME desk[d].op = "assess", desk[d].of \notin raced
        PROVE  /\ desk[d].row.week = promises'[desk[d].of].week
               /\ desk[d].row.completed = promises'[desk[d].of].completed
               /\ desk[d].row.reason = promises'[desk[d].of].reason
               /\ \A e \in Planners :
                    desk'[e].op = "assess" /\ desk'[e].of = desk[d].of => e = d
    <3>1. /\ desk[d].row.week = promises[desk[d].of].week
          /\ desk[d].row.completed = promises[desk[d].of].completed
          /\ desk[d].row.reason = promises[desk[d].of].reason
          /\ \A e \in Planners : desk[e].op = "assess" /\ desk[e].of = desk[d].of => e = d
      BY <2>3 DEF BoardInv, EditsAreCurrent, Assessing
    <3>2. /\ promises'[desk[d].of].week = promises[desk[d].of].week
          /\ promises'[desk[d].of].completed = promises[desk[d].of].completed
          /\ promises'[desk[d].of].reason = promises[desk[d].of].reason
      <4>1. CASE desk[d].of # p
        BY <1>2, <2>2, <4>1
      <4>2. CASE desk[d].of = p
        <5>1. desk[c].op = "clear"
          BY <2>1, <3>1, <4>2 DEF p
        <5>2. QED
          BY <1>2, <4>2, <5>1 DEF p
      <4>3. QED
        BY <4>1, <4>2
    <3>3. \A e \in Planners : desk'[e].op = "assess" => e # c /\ desk'[e] = desk[e]
      BY <1>3
    <3>4. QED
      BY <3>1, <3>2, <3>3
  <2>4. QED
    BY <1>2, <2>1, <2>2, <2>3
<1>9. QED
  BY <1>5, <1>6, <1>7, <1>8 DEF BoardInv

(* A request that has loaded a promise holds the row as it is stored now.  *)
LEMMA LoadForEditKeeps ==
  ASSUME BoardInv, NEW c \in Planners, LoadForEdit(c)
  PROVE  BoardInv'
<1>1. PICK p \in PromiseIds, op \in {"assess", "clear"} :
        /\ desk' = [desk EXCEPT ![c] = [op |-> op, of |-> p, row |-> promises[p]]]
        /\ raced' = IF op = "assess" /\ \E d \in Planners \ {c} :
                          desk[d].op = "assess" /\ desk[d].of = p
                      THEN raced \cup {p} ELSE raced
  BY DEF LoadForEdit
<1>2. UNCHANGED <<plans, promises>> /\ UNCHANGED PromiseIds
  BY DEF LoadForEdit, PromiseIds
<1>3. /\ DOMAIN desk' = Planners
      /\ desk'[c].op = op /\ desk'[c].of = p /\ desk'[c].row = promises[p]
      /\ \A d \in Planners : d # c => desk'[d] = desk[d]
      /\ raced \subseteq raced'
      /\ promises[p] \in Rows
  BY <1>1 DEF BoardInv, BoardTyped
<1>4. BoardTyped' /\ WeeksHavePromises' /\ RowsAreReadable'
  BY <1>2, <1>3 DEF BoardInv, BoardTyped, WeeksHavePromises, RowsAreReadable
<1>5. ASSUME NEW d \in Planners, NEW e \in Planners, d # e,
             desk'[d].op = "assess", desk'[e].op = "assess", desk'[d].of = desk'[e].of
      PROVE  desk'[d].of \in raced'
  <2>1. CASE d # c /\ e # c
    <3>1. desk[d].of \in raced
      BY <1>3, <1>5, <2>1 DEF BoardInv, EditsAreCurrent, Assessing
    <3>2. QED
      BY <1>3, <2>1, <3>1
  <2>2. CASE d = c \/ e = c
    <3>1. \E f \in Planners \ {c} : desk[f].op = "assess" /\ desk[f].of = p
      BY <1>3, <1>5, <2>2
    <3>2. op = "assess" /\ desk'[d].of = p
      BY <1>3, <1>5, <2>2
    <3>3. QED
      BY <1>1, <3>1, <3>2
  <2>3. QED
    BY <2>1, <2>2
<1>6. ASSUME NEW d \in Planners, desk'[d].op \in {"assess", "clear"}
      PROVE  /\ desk'[d].of \in PromiseIds
             /\ desk'[d].row \in Rows
             /\ desk'[d].op = "assess" /\ desk'[d].of \notin raced' =>
                  /\ desk'[d].row.week = promises[desk'[d].of].week
                  /\ desk'[d].row.completed = promises[desk'[d].of].completed
                  /\ desk'[d].row.reason = promises[desk'[d].of].reason
  <2>1. CASE d = c
    BY <1>3, <2>1
  <2>2. CASE d # c
    BY <1>3, <1>6, <2>2 DEF BoardInv, EditsAreCurrent
  <2>3. QED
    BY <2>1, <2>2
<1>7. EditsAreCurrent'
  BY <1>2, <1>5, <1>6 DEF EditsAreCurrent, Assessing
<1>8. QED
  BY <1>4, <1>7 DEF BoardInv

(* A refused promise changes no row; an accepted one is the next number    *)
(* and opens its week along with it.                                       *)
LEMMA FinishCommitKeeps ==
  ASSUME BoardInv, NEW c \in Planners, FinishCommit(c)
  PROVE  BoardInv'
<1>1. /\ desk' = [desk EXCEPT ![c] = Idle]
      /\ UNCHANGED raced
      /\ \/ UNCHANGED <<plans, promises>>
         \/ \E f \in Forms :
              /\ plans' = Opened(f)
              /\ promises' = [p \in 1..(Cardinality(PromiseIds) + 1) |->
                                IF p \in PromiseIds THEN promises[p] ELSE NewRow(f)]
  BY DEF FinishCommit
<1>2. /\ DOMAIN desk' = Planners
      /\ desk'[c].op = "idle"
      /\ \A d \in Planners : d # c => desk'[d] = desk[d]
  BY <1>1 DEF Idle, BoardInv, BoardTyped
<1>3. /\ IsFiniteSet(PromiseIds) /\ PromiseIds = 1..Cardinality(PromiseIds)
      /\ \A q \in PromiseIds : promises[q] \in Rows
  BY DEF BoardInv, BoardTyped
<1>4. /\ PromiseIds \subseteq PromiseIds'
      /\ \A q \in PromiseIds : promises'[q] = promises[q]
      /\ IsFiniteSet(PromiseIds') /\ PromiseIds' = 1..Cardinality(PromiseIds')
      /\ \A q \in PromiseIds' : promises'[q] \in Rows
      /\ \A q \in PromiseIds' \ PromiseIds : IsReadable(promises'[q])
      /\ WeeksHavePromises'
  <2>1. CASE UNCHANGED <<plans, promises>>
    <3>1. PromiseIds' = PromiseIds /\ promises' = promises /\ plans' = plans
      BY <2>1 DEF PromiseIds
    <3>2. WeeksHavePromises'
      BY <3>1 DEF BoardInv, WeeksHavePromises
    <3>3. QED
      BY <1>3, <3>1, <3>2
  <2>2. ASSUME NEW f \in Forms,
               plans' = Opened(f),
               promises' = [p \in 1..(Cardinality(PromiseIds) + 1) |->
                              IF p \in PromiseIds THEN promises[p] ELSE NewRow(f)]
        PROVE  /\ PromiseIds \subseteq PromiseIds'
               /\ \A q \in PromiseIds : promises'[q] = promises[q]
               /\ IsFiniteSet(PromiseIds') /\ PromiseIds' = 1..Cardinality(PromiseIds')
               /\ \A q \in PromiseIds' : promises'[q] \in Rows
               /\ \A q \in PromiseIds' \ PromiseIds : IsReadable(promises'[q])
               /\ WeeksHavePromises'
    <3> DEFINE n == Cardinality(PromiseIds)
    <3>1. n \in Nat
      BY <1>3, FS_CardinalityType
    <3>2. PromiseIds = 1..n
      BY <1>3
    <3> HIDE DEF n
    <3>3. PromiseIds' = 1..(n + 1)
      BY <2>2 DEF PromiseIds, n
    <3>4. PromiseIds' = PromiseIds \cup {n + 1} /\ n + 1 \notin PromiseIds
      BY <3>1, <3>2, <3>3
    <3>5. IsFiniteSet(PromiseIds') /\ PromiseIds' = 1..Cardinality(PromiseIds')
      <4>1. 1 \in Int /\ n + 1 \in Int /\ ~(1 > n + 1) /\ (n + 1) - 1 + 1 = n + 1
        BY <3>1
      <4>2. IsFiniteSet(1..(n + 1)) /\ Cardinality(1..(n + 1)) = n + 1
        BY <4>1, FS_Interval
      <4>3. QED
        BY <3>3, <4>2
    <3>6. /\ \A q \in PromiseIds : promises'[q] = promises[q]
          /\ promises'[n + 1] = NewRow(f)
      <4>1. /\ n + 1 \in 1..(n + 1) /\ n + 1 \notin PromiseIds
            /\ \A q \in PromiseIds : q \in 1..(n + 1)
        BY <3>1, <3>2, <3>3, <3>4
      <4>2. promises' = [p \in 1..(n + 1) |->
                           IF p \in PromiseIds THEN promises[p] ELSE NewRow(f)]
        BY <2>2 DEF n
      <4>3. \A q \in 1..(n + 1) :
              promises'[q] = IF q \in PromiseIds THEN promises[q] ELSE NewRow(f)
        BY <4>2
      <4> HIDE DEF n
      <4>4. QED
        BY <4>1, <4>3
    <3>7. NewRow(f) \in Rows /\ NewRow(f).week = f.week /\ IsReadable(NewRow(f))
      BY PromiseIsReadable
    <3>8. plans' = plans \cup {f.week}
      BY <2>2 DEF Opened
    <3>9. WeeksHavePromises'
      BY <3>4, <3>6, <3>7, <3>8 DEF WeeksHavePromises, BoardInv
    <3>10. QED
      BY <1>3, <3>4, <3>5, <3>6, <3>7, <3>9
  <2>3. QED
    BY <1>1, <2>1, <2>2
<1>5. BoardTyped'
  BY <1>2, <1>4 DEF BoardTyped
<1>6. RowsAreReadable'
  BY <1>1, <1>4 DEF RowsAreReadable, BoardInv
<1>7. EditsAreCurrent'
  <2>1. \A d \in Planners : desk'[d].op \in {"assess", "clear"} => d # c /\ desk'[d] = desk[d]
    BY <1>2
  <2>2. QED
    BY <1>1, <1>4, <2>1 DEF EditsAreCurrent, Assessing, BoardInv
<1>8. QED
  BY <1>4, <1>5, <1>6, <1>7 DEF BoardInv

(* Every step of the board keeps its rows in order.                        *)
LEMMA BoardInvHolds == BoardSpec => []BoardInv
<1>1. BoardInit => BoardInv
  <2> SUFFICES ASSUME BoardInit PROVE BoardInv
    OBVIOUS
  <2>1. /\ PromiseIds = {} /\ plans = {}
        /\ DOMAIN desk = Planners
        /\ \A c \in Planners : desk[c].op = "idle"
    BY DEF BoardInit, PromiseIds, Idle
  <2>2. IsFiniteSet(PromiseIds) /\ PromiseIds = 1..Cardinality(PromiseIds)
    BY <2>1, FS_EmptySet
  <2>3. QED
    BY <2>1, <2>2 DEF BoardInv, BoardTyped, WeeksHavePromises, EditsAreCurrent,
                      RowsAreReadable
<1>2. BoardInv /\ [BoardNext]_boardVars => BoardInv'
  <2> SUFFICES ASSUME BoardInv, [BoardNext]_boardVars PROVE BoardInv'
    OBVIOUS
  <2>1. ASSUME UNCHANGED <<plans, promises, desk, raced>> PROVE BoardInv'
    BY <2>1 DEF BoardInv, BoardTyped, WeeksHavePromises, EditsAreCurrent, RowsAreReadable,
                Assessing, PromiseIds
  <2>2. CASE UNCHANGED boardVars
    BY <2>1, <2>2 DEF boardVars
  <2>3. CASE NextDay
    BY <2>1, <2>3 DEF NextDay
  <2>4. ASSUME NEW c \in Planners, LoadForCommit(c) PROVE BoardInv'
    <3>1. /\ UNCHANGED <<plans, promises, raced>>
          /\ UNCHANGED PromiseIds
          /\ DOMAIN desk' = DOMAIN desk
          /\ \A d \in Planners : d # c => desk'[d] = desk[d]
          /\ desk'[c].op = "commit"
      BY <2>4 DEF LoadForCommit, BoardInv, BoardTyped, PromiseIds
    <3>2. \A d \in Planners : desk'[d].op \in {"assess", "clear"} => desk'[d] = desk[d]
      BY <3>1
    <3>3. EditsAreCurrent'
      BY <3>1, <3>2 DEF BoardInv, EditsAreCurrent, Assessing
    <3>4. QED
      BY <3>1, <3>3 DEF BoardInv, BoardTyped, WeeksHavePromises, RowsAreReadable
  <2>5. ASSUME NEW c \in Planners, FinishCommit(c) PROVE BoardInv'
    BY <2>5, FinishCommitKeeps
  <2>6. ASSUME NEW c \in Planners, LoadForEdit(c) PROVE BoardInv'
    BY <2>6, LoadForEditKeeps
  <2>7. ASSUME NEW c \in Planners, FinishAssess(c) PROVE BoardInv'
    <3> DEFINE p == desk[c].of
               loaded == desk[c].row
    <3>1. /\ desk[c].op = "assess"
          /\ loaded \in Rows /\ p \in PromiseIds /\ promises[p] \in Rows
          /\ p \notin raced => /\ loaded.completed = promises[p].completed
                               /\ loaded.reason = promises[p].reason
      BY <2>7 DEF FinishAssess, BoardInv, BoardTyped, EditsAreCurrent
    <3>2. PICK met \in BOOLEAN :
            promises' = [promises EXCEPT ![p] = Flush(loaded, Assessed(loaded, met), promises[p])]
      BY <2>7 DEF FinishAssess
    <3> DEFINE row == Flush(loaded, Assessed(loaded, met), promises[p])
    <3>3. /\ row \in Rows /\ row.week = promises[p].week
          /\ p \notin raced => IsReadable(row)
      BY <3>1, AssessmentIsReadable
    <3>4. UNCHANGED <<plans, raced>> /\ desk' = [desk EXCEPT ![c] = Idle]
      BY <2>7 DEF FinishAssess
    <3>5. promises' = [promises EXCEPT ![p] = row]
      BY <3>2
    <3> HIDE DEF row
    <3>6. QED
      BY <3>1, <3>3, <3>4, <3>5, EditKeeps
  <2>8. ASSUME NEW c \in Planners, FinishClear(c) PROVE BoardInv'
    <3> DEFINE p == desk[c].of
               loaded == desk[c].row
    <3>1. /\ desk[c].op = "clear"
          /\ loaded \in Rows /\ p \in PromiseIds /\ promises[p] \in Rows
      BY <2>8 DEF FinishClear, BoardInv, BoardTyped, EditsAreCurrent
    <3>2. PICK day \in 0..LastDay :
            promises' = [promises EXCEPT ![p] = Flush(loaded, Cleared(loaded, day), promises[p])]
      BY <2>8 DEF FinishClear
    <3>3. day \in Int
      BY <3>2, BoardAssumption DEF BoardAssumption
    <3> DEFINE row == Flush(loaded, Cleared(loaded, day), promises[p])
    <3>4. /\ row \in Rows /\ row.week = promises[p].week
          /\ row.completed = promises[p].completed /\ row.reason = promises[p].reason
      BY <3>1, <3>3, ClearingTouchesTheDayOnly
    <3>5. UNCHANGED <<plans, raced>> /\ desk' = [desk EXCEPT ![c] = Idle]
      BY <2>8 DEF FinishClear
    <3>6. promises' = [promises EXCEPT ![p] = row]
      BY <3>2
    <3> HIDE DEF row
    <3>7. QED
      BY <3>1, <3>4, <3>5, <3>6, EditKeeps
  <2>9. QED
    BY <2>2, <2>3, <2>4, <2>5, <2>6, <2>7, <2>8 DEF BoardNext
<1>3. QED
  BY <1>1, <1>2, PTL DEF BoardSpec

(* Whatever two planners load and commit over each other, a refused        *)
(* promise leaves nothing behind, not even the week it opened, and every   *)
(* stored row is one the engine accepts unless two assessments of the      *)
(* promise overlapped.                                                     *)
THEOREM TheBoardCanBeOpened == BoardSpec => []BoardStaysReadable
<1>1. BoardInv => BoardStaysReadable
  BY DEF BoardInv, WeeksHavePromises, RowsAreReadable, BoardStaysReadable, OfWeek, PromiseIds
<1>2. QED
  BY <1>1, BoardInvHolds, PTL

-----------------------------------------------------------------------------
(* Projects, their baselines and the trail.                                *)

ProjectColumns == {"stored", "code", "plan", "shown", "headline", "headlinePlan"}
BaselineColumns == {"project", "name", "plan", "current"}

ProjectsTyped ==
    /\ Len(projects) \in Nat
    /\ projects = [p \in 1..Len(projects) |-> projects[p]]
    /\ \A p \in DOMAIN projects :
         DOMAIN projects[p] = ProjectColumns /\ projects[p].stored \in BOOLEAN
    /\ DOMAIN inHand = Clients

(* A baseline belongs to a stored project, under a name of its own.        *)
BaselinesTyped ==
    /\ \A b \in baselines : DOMAIN b = BaselineColumns /\ b.project \in Stored
    /\ \A b, d \in baselines : b.project = d.project /\ b.name = d.name => b = d

(* A request holds baselines of its own project only.                      *)
RequestsFit ==
    \A c \in Clients : inHand[c].op \in {"baseline", "delete", "reimport"} =>
        /\ inHand[c].project \in DOMAIN projects
        /\ \A b \in inHand[c].baselines : b.project = inHand[c].project
        /\ inHand[c].op = "baseline" => inHand[c].name \in Names

(* The headline is copied from a baseline that is still current.           *)
HeadlinesAreCurrent ==
    \A p \in Stored :
        /\ projects[p].shown = projects[p].plan
        /\ CurrentBaselines(p) = {} =>
             projects[p].headline = NoName /\ projects[p].headlinePlan = 0
        /\ CurrentBaselines(p) # {} =>
             \E b \in CurrentBaselines(p) :
                b.name = projects[p].headline /\ b.plan = projects[p].headlinePlan

(* The trail is a bag of what happened to projects that exist or existed.  *)
TrailIsABag == \A e \in DOMAIN trail : trail[e] \in Nat \ {0} /\ e.project \in DOMAIN projects

(* One import each; a deletion for those that are gone; one baseline set   *)
(* for every name a stored project has.                                    *)
TrailCounts ==
    \A p \in DOMAIN projects :
        /\ Count("project.import", p, NoName) = 1
        /\ projects[p].stored <=> Count("project.delete", p, NoName) = 0
        /\ \A n \in Names :
             projects[p].stored =>
               Count("baseline.set", p, n) =
                 IF \E b \in baselines : b.project = p /\ b.name = n THEN 1 ELSE 0

ProjectsInv ==
    /\ ProjectsTyped /\ BaselinesTyped /\ RequestsFit
    /\ HeadlinesAreCurrent /\ TrailIsABag /\ TrailCounts

(* A function on 1..n is a list of length n.                               *)
LEMMA NumberedRows ==
  ASSUME NEW n \in Nat, NEW f, f = [i \in 1..n |-> f[i]]
  PROVE  Len(f) = n
<1> DEFINE S == {f[i] : i \in 1..n}
<1>1. f \in [1..n -> S]
  OBVIOUS
<1> HIDE DEF S
<1>2. f \in Seq(S)
  BY <1>1
<1>3. Len(f) \in Nat /\ 1..Len(f) = 1..n
  BY <1>1, <1>2
<1>4. QED
  BY <1>3

(* A row stored after the others leaves them where they are.               *)
LEMMA NextRow ==
  ASSUME NEW s, Len(s) \in Nat, s = [i \in 1..Len(s) |-> s[i]], NEW e
  PROVE  LET t == Append(s, e) IN
         /\ Len(t) = Len(s) + 1
         /\ t = [i \in 1..Len(t) |-> t[i]]
         /\ DOMAIN t = DOMAIN s \cup {Len(s) + 1} /\ Len(s) + 1 \notin DOMAIN s
         /\ \A i \in DOMAIN s : t[i] = s[i]
         /\ t[Len(s) + 1] = e
<1> DEFINE S == {s[i] : i \in 1..Len(s)} \cup {e}
<1>1. s \in [1..Len(s) -> S] /\ e \in S
  OBVIOUS
<1> HIDE DEF S
<1>2. s \in Seq(S)
  BY <1>1
<1>3. /\ Append(s, e) \in Seq(S)
      /\ Len(Append(s, e)) = Len(s) + 1
      /\ \A i \in 1..Len(s) : Append(s, e)[i] = s[i]
      /\ Append(s, e)[Len(s) + 1] = e
  BY <1>1, <1>2
<1>4. Append(s, e) \in [1..(Len(s) + 1) -> S]
  <2>1. Append(s, e) \in [1..Len(Append(s, e)) -> S]
    BY <1>3, LenProperties
  <2>2. QED
    BY <1>3, <2>1
<1>5. DOMAIN s = 1..Len(s) /\ DOMAIN Append(s, e) = 1..(Len(s) + 1)
  BY <1>1, <1>4
<1>6. 1..(Len(s) + 1) = 1..Len(s) \cup {Len(s) + 1} /\ Len(s) + 1 \notin 1..Len(s)
  OBVIOUS
<1>7. Append(s, e) = [i \in 1..Len(Append(s, e)) |-> Append(s, e)[i]]
  BY <1>3, <1>4
<1>8. QED
  BY <1>3, <1>5, <1>6, <1>7

(* What a record adds to the trail: one to its own count and nothing to    *)
(* any other.                                                              *)
LEMMA RecordedCounts ==
  ASSUME TrailIsABag, NEW action, NEW p, NEW name,
         trail' = Recorded(action, p, name)
  PROVE  /\ \A e \in DOMAIN trail' : trail'[e] \in Nat \ {0}
         /\ \A e \in DOMAIN trail' : e \in DOMAIN trail \/ e.project = p
         /\ \A a, q, n : Count(a, q, n) \in Nat
         /\ \A a, q, n : Count(a, q, n)' =
              IF a = action /\ q = p /\ n = name THEN Count(a, q, n) + 1 ELSE Count(a, q, n)
<1> DEFINE entry == [action |-> action, project |-> p, name |-> name]
<1>1. /\ DOMAIN trail' = DOMAIN trail \cup {entry}
      /\ \A e \in DOMAIN trail' :
           trail'[e] = (IF e \in DOMAIN trail THEN trail[e] ELSE 0) + (IF e = entry THEN 1 ELSE 0)
  <2> HIDE DEF entry
  <2>1. trail' = trail (+) SetToBag({entry})
    BY DEF Recorded, entry
  <2>2. DOMAIN SetToBag({entry}) = {entry} /\ SetToBag({entry})[entry] = 1
    BY DEF SetToBag
  <2>3. trail' = [e \in DOMAIN trail \cup {entry} |->
                    (IF e \in DOMAIN trail THEN trail[e] ELSE 0)
                      + (IF e \in {entry} THEN SetToBag({entry})[e] ELSE 0)]
    BY <2>1, <2>2 DEF (+)
  <2>4. QED
    BY <2>2, <2>3
<1>2. \A e \in DOMAIN trail : trail[e] \in Nat \ {0}
  BY DEF TrailIsABag
<1>3. entry.project = p
  OBVIOUS
<1>4. /\ \A e \in DOMAIN trail' : trail'[e] \in Nat \ {0}
      /\ \A e \in DOMAIN trail' : e \in DOMAIN trail \/ e.project = p
  <2> HIDE DEF entry
  <2>1. QED
    BY <1>1, <1>2, <1>3
<1>5. ASSUME NEW a, NEW q, NEW n
      PROVE  /\ Count(a, q, n) \in Nat
             /\ Count(a, q, n)' =
                  IF a = action /\ q = p /\ n = name THEN Count(a, q, n) + 1 ELSE Count(a, q, n)
  <2> DEFINE other == [action |-> a, project |-> q, name |-> n]
  <2>1. other = entry <=> a = action /\ q = p /\ n = name
    OBVIOUS
  <2>2. /\ Count(a, q, n) = IF other \in DOMAIN trail THEN trail[other] ELSE 0
        /\ Count(a, q, n)' = IF other \in DOMAIN trail' THEN trail'[other] ELSE 0
    BY DEF Count
  <2> HIDE DEF other, entry
  <2>3. QED
    BY <1>1, <1>2, <2>1, <2>2
<1>6. QED
  BY <1>4, <1>5

-----------------------------------------------------------------------------
(* Steps on projects.                                                      *)

(* A request that ends leaves the others' as they were.                    *)
LEMMA RequestEnds ==
  ASSUME ProjectsInv, NEW c \in Clients,
         inHand' = [inHand EXCEPT ![c] = Waiting],
         DOMAIN projects \subseteq DOMAIN projects'
  PROVE  DOMAIN inHand' = Clients /\ RequestsFit'
<1>1. /\ DOMAIN inHand' = Clients
      /\ inHand'[c].op = "none"
      /\ \A d \in Clients : d # c => inHand'[d] = inHand[d]
  BY DEF ProjectsInv, ProjectsTyped, Waiting
<1>2. \A d \in Clients : inHand'[d].op \in {"baseline", "delete", "reimport"} =>
        inHand'[d] = inHand[d]
  BY <1>1
<1>3. QED
  BY <1>1, <1>2 DEF ProjectsInv, RequestsFit

(* A step that stores nothing keeps everything that is stored.             *)
LEMMA NothingIsStored ==
  ASSUME ProjectsInv, UNCHANGED <<projects, baselines, trail>>,
         DOMAIN inHand' = Clients, RequestsFit'
  PROVE  ProjectsInv'
<1>1. /\ UNCHANGED Stored
      /\ \A p : CurrentBaselines(p)' = CurrentBaselines(p)
      /\ \A a, p, n : Count(a, p, n)' = Count(a, p, n)
  BY DEF Stored, CurrentBaselines, BaselinesOf, Count
<1>2. ProjectsTyped' /\ BaselinesTyped' /\ TrailIsABag'
  BY <1>1 DEF ProjectsInv, ProjectsTyped, BaselinesTyped, TrailIsABag
<1>3. HeadlinesAreCurrent'
  BY <1>1 DEF ProjectsInv, HeadlinesAreCurrent
<1>4. TrailCounts'
  BY <1>1 DEF ProjectsInv, TrailCounts
<1>5. QED
  BY <1>2, <1>3, <1>4 DEF ProjectsInv

(* One stored project's columns are written.                               *)
LEMMA OneRowWritten ==
  ASSUME ProjectsInv, NEW p \in DOMAIN projects, NEW row,
         DOMAIN row = ProjectColumns, row.stored \in BOOLEAN,
         projects' = [projects EXCEPT ![p] = row],
         DOMAIN inHand' = Clients
  PROVE  /\ ProjectsTyped'
         /\ DOMAIN projects' = DOMAIN projects
         /\ projects'[p] = row
         /\ \A q \in DOMAIN projects : q # p => projects'[q] = projects[q]
<1> DEFINE n == Len(projects)
<1>1. /\ n \in Nat /\ projects = [q \in 1..n |-> projects[q]] /\ DOMAIN projects = 1..n
      /\ \A q \in DOMAIN projects :
           DOMAIN projects[q] = ProjectColumns /\ projects[q].stored \in BOOLEAN
  BY DEF ProjectsInv, ProjectsTyped
<1> HIDE DEF n
<1>2. /\ projects' = [q \in 1..n |-> projects'[q]]
      /\ DOMAIN projects' = DOMAIN projects
      /\ projects'[p] = row
      /\ \A q \in DOMAIN projects : q # p => projects'[q] = projects[q]
  BY <1>1
<1>3. Len(projects') = n
  BY <1>1, <1>2, NumberedRows
<1>4. QED
  BY <1>1, <1>2, <1>3 DEF ProjectsTyped

(* An import stores a project without a baseline and records it.           *)
LEMMA ImportKeeps ==
  ASSUME ProjectsInv, NEW c \in Clients, NEW code, NEW plan,
         inHand' = [inHand EXCEPT ![c] = Waiting],
         projects' = Append(projects, NewProject(code, plan)),
         trail' = Recorded("project.import", Len(projects) + 1, NoName),
         UNCHANGED baselines
  PROVE  ProjectsInv'
<1> DEFINE n == Len(projects) + 1
           row == NewProject(code, plan)
<1>1. /\ DOMAIN row = ProjectColumns
      /\ row.stored = TRUE /\ row.shown = row.plan
      /\ row.headline = NoName /\ row.headlinePlan = 0
  BY DEF NewProject, ProjectColumns
<1> HIDE DEF row
<1>2. /\ Len(projects) \in Nat /\ projects = [p \in 1..Len(projects) |-> projects[p]]
      /\ \A p \in DOMAIN projects :
           DOMAIN projects[p] = ProjectColumns /\ projects[p].stored \in BOOLEAN
  BY DEF ProjectsInv, ProjectsTyped
<1>3. projects' = Append(projects, row)
  BY DEF row
<1>4. /\ Len(projects') = n
      /\ projects' = [p \in 1..Len(projects') |-> projects'[p]]
      /\ DOMAIN projects' = DOMAIN projects \cup {n} /\ n \notin DOMAIN projects
      /\ \A p \in DOMAIN projects : projects'[p] = projects[p]
      /\ projects'[n] = row
  BY <1>2, <1>3, NextRow
<1>5. DOMAIN inHand' = Clients /\ RequestsFit'
  BY <1>4, RequestEnds
<1>6. n \in Nat
  BY <1>2
<1> HIDE DEF n
<1>7. ProjectsTyped'
  <2>1. \A p \in DOMAIN projects' :
          DOMAIN projects'[p] = ProjectColumns /\ projects'[p].stored \in BOOLEAN
    <3>1. DOMAIN row = ProjectColumns /\ row.stored \in BOOLEAN
      BY <1>1
    <3>2. \A p \in DOMAIN projects' :
            \/ p \in DOMAIN projects /\ projects'[p] = projects[p]
            \/ projects'[p] = row
      BY <1>4
    <3>3. QED
      BY <1>2, <3>1, <3>2
  <2>2. Len(projects') \in Nat
    BY <1>4, <1>6
  <2>3. projects' = [p \in 1..Len(projects') |-> projects'[p]]
    BY <1>4
  <2>4. QED
    BY <1>5, <2>1, <2>2, <2>3 DEF ProjectsTyped
<1>8. Stored' = Stored \cup {n} /\ n \notin Stored
  BY <1>1, <1>4 DEF Stored
<1>9. BaselinesTyped'
  BY <1>8 DEF ProjectsInv, BaselinesTyped
<1>10. \A p : CurrentBaselines(p)' = CurrentBaselines(p)
  BY DEF CurrentBaselines, BaselinesOf
<1>11. CurrentBaselines(n) = {}
  BY <1>8 DEF ProjectsInv, BaselinesTyped, CurrentBaselines, BaselinesOf
<1>12. \A p \in Stored : p \in DOMAIN projects
  BY DEF Stored
<1>13. HeadlinesAreCurrent'
  <2> SUFFICES ASSUME NEW p \in Stored'
               PROVE  /\ projects'[p].shown = projects'[p].plan
                      /\ CurrentBaselines(p) = {} =>
                           projects'[p].headline = NoName /\ projects'[p].headlinePlan = 0
                      /\ CurrentBaselines(p) # {} =>
                           \E b \in CurrentBaselines(p) :
                              b.name = projects'[p].headline /\ b.plan = projects'[p].headlinePlan
    BY <1>10 DEF HeadlinesAreCurrent
  <2>1. CASE p = n
    BY <1>1, <1>4, <1>11, <2>1
  <2>2. CASE p # n
    <3>1. p \in Stored /\ projects'[p] = projects[p]
      BY <1>4, <1>8, <1>12, <2>2
    <3>2. QED
      BY <3>1 DEF ProjectsInv, HeadlinesAreCurrent
  <2>3. QED
    BY <2>1, <2>2
<1>14. TrailIsABag
  BY DEF ProjectsInv
<1>15. trail' = Recorded("project.import", n, NoName)
  BY DEF n
<1>16. /\ \A e \in DOMAIN trail' : trail'[e] \in Nat \ {0}
       /\ \A e \in DOMAIN trail' : e \in DOMAIN trail \/ e.project = n
       /\ \A a, q, m : Count(a, q, m)' =
            IF a = "project.import" /\ q = n /\ m = NoName
              THEN Count(a, q, m) + 1 ELSE Count(a, q, m)
  BY <1>14, <1>15, RecordedCounts
<1>17. TrailIsABag'
  BY <1>4, <1>14, <1>16 DEF TrailIsABag
<1>18. \A a, m : Count(a, n, m) = 0
  <2> SUFFICES ASSUME NEW a, NEW m,
                      [action |-> a, project |-> n, name |-> m] \in DOMAIN trail
               PROVE  FALSE
    BY DEF Count
  <2>1. QED
    BY <1>4, <1>14 DEF TrailIsABag
<1>19. TrailCounts'
  <2> SUFFICES ASSUME NEW p \in DOMAIN projects'
               PROVE  /\ Count("project.import", p, NoName)' = 1
                      /\ projects'[p].stored <=> Count("project.delete", p, NoName)' = 0
                      /\ \A m \in Names : projects'[p].stored =>
                           Count("baseline.set", p, m)' =
                             IF \E b \in baselines : b.project = p /\ b.name = m THEN 1 ELSE 0
    BY DEF TrailCounts
  <2>1. CASE p = n
    <3>1. \A b \in baselines : b.project # n
      BY <1>8 DEF ProjectsInv, BaselinesTyped
    <3>2. projects'[p].stored = TRUE
      BY <1>1, <1>4, <2>1
    <3>3. /\ Count("project.import", p, NoName)' = 0 + 1
          /\ Count("project.delete", p, NoName)' = 0
          /\ \A m \in Names : Count("baseline.set", p, m)' = 0
      BY <1>16, <1>18, <2>1
    <3>4. QED
      BY <2>1, <3>1, <3>2, <3>3
  <2>2. CASE p # n
    <3>1. p \in DOMAIN projects /\ projects'[p] = projects[p]
      BY <1>4, <2>2
    <3>2. \A a, m : Count(a, p, m)' = Count(a, p, m)
      BY <1>16, <2>2
    <3>3. QED
      BY <3>1, <3>2 DEF ProjectsInv, TrailCounts
  <2>3. QED
    BY <2>1, <2>2
<1>20. QED
  BY <1>5, <1>7, <1>9, <1>13, <1>17, <1>19 DEF ProjectsInv

(* A baseline becomes the one its project's headline is copied from, and   *)
(* is recorded once, under a name the project had not used.                *)
LEMMA SetBaselineKeeps ==
  ASSUME ProjectsInv, NEW c \in Clients, SetBaseline(c)
  PROVE  ProjectsInv'
<1> DEFINE request == inHand[c]
           p == request.project
           name == request.name
           frozen == WriteBack(request.row).shown
           new == [project |-> p, name |-> name, plan |-> frozen, current |-> TRUE]
           row == [projects[p] EXCEPT !.headline = name, !.headlinePlan = frozen]
           After(b) == IF b \in request.baselines THEN [b EXCEPT !.current = FALSE] ELSE b
<1>1. /\ request.op = "baseline"
      /\ inHand' = [inHand EXCEPT ![c] = Waiting]
  BY DEF SetBaseline
<1>2. CASE ~BaselineAccepted(request)
  <2>1. UNCHANGED <<projects, baselines, trail>>
    BY <1>2 DEF SetBaseline
  <2>2. QED
    BY <1>1, <2>1, RequestEnds, NothingIsStored
<1>3. ASSUME BaselineAccepted(request) PROVE ProjectsInv'
  <2>1. /\ baselines' = {After(b) : b \in baselines} \cup {new}
        /\ projects' = [projects EXCEPT ![p] = row]
        /\ trail' = Recorded("baseline.set", p, name)
    BY <1>3 DEF SetBaseline, WithNewBaseline
  <2>2. /\ p \in Stored /\ p \in DOMAIN projects /\ name \in Names
        /\ projects[p].stored = TRUE
        /\ \A b \in request.baselines : b.project = p
        /\ \A b \in baselines : ~(b.project = p /\ b.name = name)
    BY <1>1, <1>3 DEF BaselineAccepted, NamesOf, BaselinesOf, Stored, ProjectsInv,
                      RequestsFit, ProjectsTyped
  <2>3. /\ DOMAIN row = ProjectColumns
        /\ row.stored = TRUE
        /\ row.headline = name /\ row.headlinePlan = frozen
        /\ row.shown = projects[p].shown /\ row.plan = projects[p].plan
    BY <2>2 DEF ProjectsInv, ProjectsTyped, ProjectColumns
  <2>4. /\ DOMAIN new = BaselineColumns
        /\ new.project = p /\ new.name = name /\ new.plan = frozen /\ new.current = TRUE
    BY DEF BaselineColumns
  <2>5. \A b \in baselines :
          /\ DOMAIN After(b) = BaselineColumns
          /\ After(b).project = b.project /\ After(b).name = b.name
          /\ b.project # p => After(b) = b
    BY <2>2 DEF ProjectsInv, BaselinesTyped, BaselineColumns
  <2> HIDE DEF row, new, frozen, name, p, After
  <2>6. row.stored \in BOOLEAN
    BY <2>3
  <2>7. DOMAIN inHand' = Clients
    BY <1>1 DEF ProjectsInv, ProjectsTyped
  <2>8. /\ ProjectsTyped'
        /\ DOMAIN projects' = DOMAIN projects
        /\ projects'[p] = row
        /\ \A q \in DOMAIN projects : q # p => projects'[q] = projects[q]
    BY <2>1, <2>2, <2>3, <2>6, <2>7, OneRowWritten
  <2>9. RequestsFit'
    BY <1>1, <2>8, RequestEnds
  <2>10. Stored' = Stored
    <3>1. \A q \in DOMAIN projects : projects'[q].stored = projects[q].stored
      BY <2>2, <2>3, <2>8
    <3>2. QED
      BY <2>8, <3>1 DEF Stored
  <2>11. BaselinesTyped'
    <3>1. ASSUME NEW b \in baselines' PROVE DOMAIN b = BaselineColumns /\ b.project \in Stored
      BY <2>1, <2>2, <2>4, <2>5, <3>1 DEF ProjectsInv, BaselinesTyped
    <3>2. ASSUME NEW b \in baselines', NEW d \in baselines', b.project = d.project, b.name = d.name
          PROVE  b = d
      <4>1. CASE b = new /\ d = new
        BY <4>1
      <4>2. CASE b = new /\ d # new
        BY <2>1, <2>2, <2>4, <2>5, <3>2, <4>2
      <4>3. CASE b # new /\ d = new
        BY <2>1, <2>2, <2>4, <2>5, <3>2, <4>3
      <4>4. CASE b # new /\ d # new
        <5>1. PICK x \in baselines : b = After(x)
          BY <2>1, <4>4
        <5>2. PICK y \in baselines : d = After(y)
          BY <2>1, <4>4
        <5>3. x.project = y.project /\ x.name = y.name
          BY <2>5, <3>2, <5>1, <5>2
        <5>4. QED
          BY <5>1, <5>2, <5>3 DEF ProjectsInv, BaselinesTyped
      <4>5. QED
        BY <4>1, <4>2, <4>3, <4>4
    <3>3. QED
      BY <2>10, <3>1, <3>2 DEF BaselinesTyped
  <2>12. \A q : q = p => new \in CurrentBaselines(q)'
    BY <2>1, <2>4 DEF CurrentBaselines, BaselinesOf
  <2>13. \A q : q # p => CurrentBaselines(q)' = CurrentBaselines(q)
    BY <2>1, <2>4, <2>5 DEF CurrentBaselines, BaselinesOf
  <2>14. HeadlinesAreCurrent'
    <3> SUFFICES ASSUME NEW q \in Stored
                 PROVE  /\ projects'[q].shown = projects'[q].plan
                        /\ CurrentBaselines(q)' = {} =>
                             projects'[q].headline = NoName /\ projects'[q].headlinePlan = 0
                        /\ CurrentBaselines(q)' # {} =>
                             \E b \in CurrentBaselines(q)' :
                                /\ b.name = projects'[q].headline
                                /\ b.plan = projects'[q].headlinePlan
      BY <2>10 DEF HeadlinesAreCurrent
    <3>1. CASE q = p
      <4>1. projects'[p].shown = projects'[p].plan
        BY <2>2, <2>3, <2>8 DEF ProjectsInv, HeadlinesAreCurrent
      <4>2. new.name = projects'[p].headline /\ new.plan = projects'[p].headlinePlan
        BY <2>3, <2>4, <2>8
      <4>3. QED
        BY <2>12, <3>1, <4>1, <4>2
    <3>2. CASE q # p
      <4>1. projects'[q] = projects[q] /\ CurrentBaselines(q)' = CurrentBaselines(q)
        BY <2>8, <2>13, <3>2 DEF Stored
      <4>2. QED
        BY <4>1 DEF ProjectsInv, HeadlinesAreCurrent
    <3>3. QED
      BY <3>1, <3>2
  <2>15. /\ \A e \in DOMAIN trail' : trail'[e] \in Nat \ {0}
         /\ \A e \in DOMAIN trail' : e \in DOMAIN trail \/ e.project = p
         /\ \A a, q, n : Count(a, q, n)' =
              IF a = "baseline.set" /\ q = p /\ n = name
                THEN Count(a, q, n) + 1 ELSE Count(a, q, n)
    BY <2>1, RecordedCounts DEF ProjectsInv
  <2>16. TrailIsABag'
    BY <2>2, <2>8, <2>15 DEF ProjectsInv, TrailIsABag
  <2>17. \A q, n : (\E b \in baselines' : b.project = q /\ b.name = n) <=>
           \/ q = p /\ n = name
           \/ \E b \in baselines : b.project = q /\ b.name = n
    BY <2>1, <2>4, <2>5
  <2>18. TrailCounts'
    <3> SUFFICES ASSUME NEW q \in DOMAIN projects
                 PROVE  /\ Count("project.import", q, NoName)' = 1
                        /\ projects'[q].stored <=> Count("project.delete", q, NoName)' = 0
                        /\ \A n \in Names : projects'[q].stored =>
                             Count("baseline.set", q, n)' =
                               IF \E b \in baselines' : b.project = q /\ b.name = n
                                 THEN 1 ELSE 0
      BY <2>8 DEF TrailCounts
    <3>1. /\ Count("project.import", q, NoName)' = Count("project.import", q, NoName)
          /\ Count("project.delete", q, NoName)' = Count("project.delete", q, NoName)
      BY <2>15
    <3>2. projects'[q].stored = projects[q].stored
      BY <2>2, <2>3, <2>8
    <3>3. ASSUME NEW n \in Names, projects[q].stored
          PROVE  Count("baseline.set", q, n)' =
                   IF \E b \in baselines' : b.project = q /\ b.name = n THEN 1 ELSE 0
      <4>1. Count("baseline.set", q, n) =
              IF \E b \in baselines : b.project = q /\ b.name = n THEN 1 ELSE 0
        BY <3>3 DEF ProjectsInv, TrailCounts
      <4>2. CASE q = p /\ n = name
        <5>1. Count("baseline.set", q, n) = 0
          BY <2>2, <4>1, <4>2
        <5>2. Count("baseline.set", q, n)' = Count("baseline.set", q, n) + 1
          BY <2>15, <4>2
        <5>3. QED
          BY <2>17, <4>2, <5>1, <5>2
      <4>3. CASE ~(q = p /\ n = name)
        <5>1. Count("baseline.set", q, n)' = Count("baseline.set", q, n)
          BY <2>15, <4>3
        <5>2. (\E b \in baselines' : b.project = q /\ b.name = n) <=>
                (\E b \in baselines : b.project = q /\ b.name = n)
          BY <2>17, <4>3
        <5>3. QED
          BY <4>1, <5>1, <5>2
      <4>4. QED
        BY <4>2, <4>3
    <3>4. QED
      BY <3>1, <3>2, <3>3 DEF ProjectsInv, TrailCounts
  <2>19. QED
    BY <2>8, <2>9, <2>11, <2>14, <2>16, <2>18 DEF ProjectsInv
<1>4. QED
  BY <1>2, <1>3

(* A project that goes takes its baselines along and leaves one more       *)
(* deletion in the trail.                                                  *)
LEMMA DeleteProjectKeeps ==
  ASSUME ProjectsInv, NEW c \in Clients, DeleteProject(c)
  PROVE  ProjectsInv'
<1> DEFINE p == inHand[c].project
           row == [projects[p] EXCEPT !.stored = FALSE]
<1>1. /\ inHand[c].op = "delete"
      /\ inHand' = [inHand EXCEPT ![c] = Waiting]
      /\ projects' = [projects EXCEPT ![p] = row]
      /\ baselines' = {b \in baselines : b.project # p}
      /\ trail' = Recorded("project.delete", p, NoName)
  BY DEF DeleteProject, BaselinesOf
<1>2. p \in DOMAIN projects
  BY <1>1 DEF ProjectsInv, RequestsFit
<1>3. DOMAIN row = ProjectColumns /\ row.stored = FALSE
  BY <1>2 DEF ProjectsInv, ProjectsTyped, ProjectColumns
<1>4. DOMAIN inHand' = Clients
  BY <1>1 DEF ProjectsInv, ProjectsTyped
<1> HIDE DEF p, row
<1>5. row.stored \in BOOLEAN
  BY <1>3
<1>6. /\ ProjectsTyped'
      /\ DOMAIN projects' = DOMAIN projects
      /\ projects'[p] = row
      /\ \A q \in DOMAIN projects : q # p => projects'[q] = projects[q]
  BY <1>1, <1>2, <1>3, <1>4, <1>5, OneRowWritten
<1>7. RequestsFit'
  BY <1>1, <1>6, RequestEnds
<1>8. /\ \A q \in Stored' : q \in Stored /\ q # p
      /\ \A q \in Stored : q # p => q \in Stored'
  BY <1>3, <1>6 DEF Stored
<1>9. BaselinesTyped'
  BY <1>1, <1>8 DEF ProjectsInv, BaselinesTyped
<1>10. \A q : q # p => CurrentBaselines(q)' = CurrentBaselines(q)
  BY <1>1 DEF CurrentBaselines, BaselinesOf
<1>11. HeadlinesAreCurrent'
  <2> SUFFICES ASSUME NEW q \in Stored'
               PROVE  /\ projects'[q].shown = projects'[q].plan
                      /\ CurrentBaselines(q)' = {} =>
                           projects'[q].headline = NoName /\ projects'[q].headlinePlan = 0
                      /\ CurrentBaselines(q)' # {} =>
                           \E b \in CurrentBaselines(q)' :
                              /\ b.name = projects'[q].headline
                              /\ b.plan = projects'[q].headlinePlan
    BY DEF HeadlinesAreCurrent
  <2>1. q \in Stored /\ q # p
    BY <1>8
  <2>2. projects'[q] = projects[q] /\ CurrentBaselines(q)' = CurrentBaselines(q)
    BY <1>6, <1>10, <2>1 DEF Stored
  <2>3. QED
    BY <2>1, <2>2 DEF ProjectsInv, HeadlinesAreCurrent
<1>12. /\ \A e \in DOMAIN trail' : trail'[e] \in Nat \ {0}
       /\ \A e \in DOMAIN trail' : e \in DOMAIN trail \/ e.project = p
       /\ \A a, q, n : Count(a, q, n) \in Nat
       /\ \A a, q, n : Count(a, q, n)' =
            IF a = "project.delete" /\ q = p /\ n = NoName
              THEN Count(a, q, n) + 1 ELSE Count(a, q, n)
  BY <1>1, RecordedCounts DEF ProjectsInv
<1>13. TrailIsABag'
  BY <1>2, <1>6, <1>12 DEF ProjectsInv, TrailIsABag
<1>14. TrailCounts'
  <2> SUFFICES ASSUME NEW q \in DOMAIN projects
               PROVE  /\ Count("project.import", q, NoName)' = 1
                      /\ projects'[q].stored <=> Count("project.delete", q, NoName)' = 0
                      /\ \A n \in Names : projects'[q].stored =>
                           Count("baseline.set", q, n)' =
                             IF \E b \in baselines' : b.project = q /\ b.name = n THEN 1 ELSE 0
    BY <1>6 DEF TrailCounts
  <2>1. Count("project.import", q, NoName)' = Count("project.import", q, NoName)
    BY <1>12
  <2>2. CASE q = p
    <3>1. projects'[q].stored = FALSE
      BY <1>3, <1>6, <2>2
    <3>2. /\ Count("project.delete", q, NoName)' = Count("project.delete", q, NoName) + 1
          /\ Count("project.delete", q, NoName) \in Nat
      BY <1>12, <2>2
    <3>3. QED
      BY <2>1, <3>1, <3>2 DEF ProjectsInv, TrailCounts
  <2>3. CASE q # p
    <3>1. /\ projects'[q] = projects[q]
          /\ Count("project.delete", q, NoName)' = Count("project.delete", q, NoName)
          /\ \A n : Count("baseline.set", q, n)' = Count("baseline.set", q, n)
          /\ \A n : (\E b \in baselines' : b.project = q /\ b.name = n) <=>
                      \E b \in baselines : b.project = q /\ b.name = n
      BY <1>1, <1>6, <1>12, <2>3
    <3>2. QED
      BY <2>1, <3>1 DEF ProjectsInv, TrailCounts
  <2>4. QED
    BY <2>2, <2>3
<1>15. QED
  BY <1>6, <1>7, <1>9, <1>11, <1>13, <1>14 DEF ProjectsInv

(* A revision replaces the plan and the dates shown, and nothing else.     *)
LEMMA ReimportKeeps ==
  ASSUME ProjectsInv, NEW c \in Clients, Reimport(c)
  PROVE  ProjectsInv'
<1> DEFINE p == inHand[c].project
           row == [projects[p] EXCEPT !.plan = lastPlan + 1, !.shown = lastPlan + 1]
<1>1. /\ inHand[c].op = "reimport"
      /\ inHand' = [inHand EXCEPT ![c] = Waiting]
      /\ UNCHANGED <<baselines, trail>>
      /\ UNCHANGED projects \/ projects' = [projects EXCEPT ![p] = row]
  BY DEF Reimport
<1>2. CASE UNCHANGED projects
  BY <1>1, <1>2, RequestEnds, NothingIsStored
<1>3. ASSUME projects' = [projects EXCEPT ![p] = row] PROVE ProjectsInv'
  <2>1. p \in DOMAIN projects
    BY <1>1 DEF ProjectsInv, RequestsFit
  <2>2. /\ DOMAIN row = ProjectColumns
        /\ row.stored = projects[p].stored /\ row.stored \in BOOLEAN
        /\ row.headline = projects[p].headline /\ row.headlinePlan = projects[p].headlinePlan
        /\ row.shown = row.plan
    BY <2>1 DEF ProjectsInv, ProjectsTyped, ProjectColumns
  <2>3. DOMAIN inHand' = Clients
    BY <1>1 DEF ProjectsInv, ProjectsTyped
  <2> HIDE DEF p, row
  <2>4. /\ ProjectsTyped'
        /\ DOMAIN projects' = DOMAIN projects
        /\ projects'[p] = row
        /\ \A q \in DOMAIN projects : q # p => projects'[q] = projects[q]
    BY <1>3, <2>1, <2>2, <2>3, OneRowWritten
  <2>5. RequestsFit'
    BY <1>1, <2>4, RequestEnds
  <2>6. /\ \A q \in DOMAIN projects :
             /\ projects'[q].stored = projects[q].stored
             /\ projects'[q].headline = projects[q].headline
             /\ projects'[q].headlinePlan = projects[q].headlinePlan
             /\ projects[q].shown = projects[q].plan => projects'[q].shown = projects'[q].plan
    BY <2>2, <2>4
  <2>7. /\ UNCHANGED Stored
        /\ \A q : CurrentBaselines(q)' = CurrentBaselines(q)
        /\ \A a, q, n : Count(a, q, n)' = Count(a, q, n)
        /\ \A q \in Stored : q \in DOMAIN projects
    BY <1>1, <2>4, <2>6 DEF Stored, CurrentBaselines, BaselinesOf, Count
  <2>8. BaselinesTyped' /\ TrailIsABag'
    BY <1>1, <2>4, <2>7 DEF ProjectsInv, BaselinesTyped, TrailIsABag
  <2>9. HeadlinesAreCurrent'
    BY <2>6, <2>7 DEF ProjectsInv, HeadlinesAreCurrent
  <2>10. TrailCounts'
    BY <1>1, <2>4, <2>6, <2>7 DEF ProjectsInv, TrailCounts
  <2>11. QED
    BY <2>4, <2>5, <2>8, <2>9, <2>10 DEF ProjectsInv
<1>4. QED
  BY <1>1, <1>2, <1>3

(* Every step keeps the rows, the requests and the trail together.         *)
LEMMA ProjectsInvHolds == ProjectsSpec => []ProjectsInv
<1>1. ProjectsInit => ProjectsInv
  <2> SUFFICES ASSUME ProjectsInit PROVE ProjectsInv
    OBVIOUS
  <2>1. /\ projects = <<>> /\ baselines = {} /\ DOMAIN trail = {}
        /\ DOMAIN inHand = Clients /\ \A c \in Clients : inHand[c].op = "none"
    BY DEF ProjectsInit, EmptyBag, SetToBag, Waiting
  <2>2. /\ Len(projects) = 0 /\ DOMAIN projects = {} /\ Stored = {}
        /\ projects = [p \in 1..Len(projects) |-> projects[p]]
    BY <2>1 DEF Stored
  <2>3. QED
    BY <2>1, <2>2 DEF ProjectsInv, ProjectsTyped, BaselinesTyped, RequestsFit,
                      HeadlinesAreCurrent, TrailIsABag, TrailCounts
<1>2. ProjectsInv /\ [ProjectsNext]_projectVars => ProjectsInv'
  <2> SUFFICES ASSUME ProjectsInv, [ProjectsNext]_projectVars PROVE ProjectsInv'
    OBVIOUS
  <2>1. CASE UNCHANGED projectVars
    <3>1. UNCHANGED <<projects, baselines, trail, inHand>>
      BY <2>1 DEF projectVars
    <3>2. DOMAIN inHand' = Clients /\ RequestsFit'
      BY <3>1 DEF ProjectsInv, ProjectsTyped, RequestsFit
    <3>3. QED
      BY <3>1, <3>2, NothingIsStored
  <2>2. ASSUME NEW c \in Clients, LoadForUpload(c) PROVE ProjectsInv'
    <3>1. /\ UNCHANGED <<projects, baselines, trail>>
          /\ DOMAIN inHand' = Clients
          /\ inHand'[c].op = "upload"
          /\ \A d \in Clients : d # c => inHand'[d] = inHand[d]
      BY <2>2 DEF LoadForUpload, ProjectsInv, ProjectsTyped
    <3>2. RequestsFit'
      <4>1. \A d \in Clients : inHand'[d].op \in {"baseline", "delete", "reimport"} =>
              inHand'[d] = inHand[d]
        BY <3>1
      <4>2. QED
        BY <3>1, <4>1 DEF ProjectsInv, RequestsFit
    <3>3. QED
      BY <3>1, <3>2, NothingIsStored
  <2>3. ASSUME NEW c \in Clients, Upload(c) PROVE ProjectsInv'
    <3>1. /\ inHand' = [inHand EXCEPT ![c] = Waiting]
          /\ UNCHANGED baselines
          /\ \/ UNCHANGED <<projects, trail>>
             \/ /\ projects' = Append(projects, NewProject(inHand[c].code, lastPlan + 1))
                /\ trail' = Recorded("project.import", Len(projects) + 1, NoName)
      BY <2>3 DEF Upload
    <3>2. CASE UNCHANGED <<projects, trail>>
      BY <3>1, <3>2, RequestEnds, NothingIsStored
    <3>3. CASE /\ projects' = Append(projects, NewProject(inHand[c].code, lastPlan + 1))
               /\ trail' = Recorded("project.import", Len(projects) + 1, NoName)
      BY <3>1, <3>3, ImportKeeps
    <3>4. QED
      BY <3>1, <3>2, <3>3
  <2>4. ASSUME NEW c \in Clients, LoadForChange(c) PROVE ProjectsInv'
    <3>1. PICK p \in Stored, op \in {"baseline", "delete", "reimport"}, name \in Names :
            inHand' = [inHand EXCEPT ![c] =
                        [op |-> op, project |-> p, row |-> projects[p],
                         baselines |-> BaselinesOf(p, baselines),
                         name |-> IF op = "baseline" THEN name ELSE NoName]]
      BY <2>4 DEF LoadForChange
    <3>2. /\ UNCHANGED <<projects, baselines, trail>>
          /\ DOMAIN inHand' = Clients
          /\ inHand'[c].op = op /\ inHand'[c].project = p
          /\ inHand'[c].baselines = BaselinesOf(p, baselines)
          /\ op = "baseline" => inHand'[c].name = name
          /\ \A d \in Clients : d # c => inHand'[d] = inHand[d]
      BY <2>4, <3>1 DEF LoadForChange, ProjectsInv, ProjectsTyped
    <3>3. RequestsFit'
      <4> SUFFICES ASSUME NEW d \in Clients,
                          inHand'[d].op \in {"baseline", "delete", "reimport"}
                   PROVE  /\ inHand'[d].project \in DOMAIN projects
                          /\ \A b \in inHand'[d].baselines : b.project = inHand'[d].project
                          /\ inHand'[d].op = "baseline" => inHand'[d].name \in Names
        BY <3>2 DEF RequestsFit
      <4>1. CASE d = c
        BY <3>2, <4>1 DEF BaselinesOf, Stored
      <4>2. CASE d # c
        BY <3>2, <4>2 DEF ProjectsInv, RequestsFit
      <4>3. QED
        BY <4>1, <4>2
    <3>4. QED
      BY <3>2, <3>3, NothingIsStored
  <2>5. ASSUME NEW c \in Clients, SetBaseline(c) PROVE ProjectsInv'
    BY <2>5, SetBaselineKeeps
  <2>6. ASSUME NEW c \in Clients, DeleteProject(c) PROVE ProjectsInv'
    BY <2>6, DeleteProjectKeeps
  <2>7. ASSUME NEW c \in Clients, Reimport(c) PROVE ProjectsInv'
    BY <2>7, ReimportKeeps
  <2>8. ASSUME NEW c \in Clients, Abandon(c) PROVE ProjectsInv'
    <3>1. /\ UNCHANGED <<projects, baselines, trail>>
          /\ inHand' = [inHand EXCEPT ![c] = Waiting]
      BY <2>8 DEF Abandon
    <3>2. QED
      BY <3>1, RequestEnds, NothingIsStored
  <2>9. QED
    BY <2>1, <2>2, <2>3, <2>4, <2>5, <2>6, <2>7, <2>8 DEF ProjectsNext
<1>3. QED
  BY <1>1, <1>2, PTL DEF ProjectsSpec

(* The list of projects prints what the project's page computes, whoever   *)
(* sets a baseline or imports a revision in between: the same dates and a  *)
(* current baseline with the finish it froze.                              *)
THEOREM TheListIsThePage == ProjectsSpec => []ListAgreesWithPage
<1>1. ASSUME ProjectsInv, NEW p \in Stored
      PROVE  StoredSummary(p) \in Summary(p)
  <2>1. projects[p].shown = projects[p].plan
    BY <1>1 DEF ProjectsInv, HeadlinesAreCurrent
  <2>2. CASE CurrentBaselines(p) = {}
    BY <1>1, <2>1, <2>2 DEF ProjectsInv, HeadlinesAreCurrent, StoredSummary, Summary
  <2>3. CASE CurrentBaselines(p) # {}
    <3>1. PICK b \in CurrentBaselines(p) :
            b.name = projects[p].headline /\ b.plan = projects[p].headlinePlan
      BY <1>1, <2>3 DEF ProjectsInv, HeadlinesAreCurrent
    <3>2. QED
      BY <2>1, <2>3, <3>1 DEF StoredSummary, Summary
  <2>4. QED
    BY <2>2, <2>3
<1>2. ProjectsInv => ListAgreesWithPage
  BY <1>1 DEF ListAgreesWithPage
<1>3. QED
  BY <1>2, ProjectsInvHolds, PTL

(* The trail, and the events queued with it, tell what happened and only   *)
(* that: an import each, a deletion for what is gone, a baseline set for   *)
(* each one stored.                                                        *)
THEOREM TheTrailIsTrue == ProjectsSpec => []TrailTellsWhatHappened
<1>1. ASSUME ProjectsInv, NEW p \in DOMAIN projects, NEW n \in Names, projects[p].stored
      PROVE  Count("baseline.set", p, n) =
               Cardinality({b \in baselines : b.project = p /\ b.name = n})
  <2> DEFINE named == {b \in baselines : b.project = p /\ b.name = n}
  <2>1. Count("baseline.set", p, n) =
          IF \E b \in baselines : b.project = p /\ b.name = n THEN 1 ELSE 0
    BY <1>1 DEF ProjectsInv, TrailCounts
  <2>2. CASE named = {}
    BY <2>1, <2>2, FS_EmptySet
  <2>3. CASE named # {}
    <3>1. PICK b \in named : TRUE
      BY <2>3
    <3>2. \A d \in named : d = b
      BY <1>1, <3>1 DEF ProjectsInv, BaselinesTyped
    <3>3. named = {b}
      BY <3>1, <3>2
    <3>4. Cardinality(named) = 1
      BY <3>3, FS_Singleton
    <3>5. QED
      BY <2>1, <3>1, <3>4
  <2>4. QED
    BY <2>2, <2>3
<1>2. ProjectsInv => TrailTellsWhatHappened
  BY <1>1 DEF ProjectsInv, TrailCounts, BaselinesTyped, TrailTellsWhatHappened
<1>3. QED
  BY <1>2, ProjectsInvHolds, PTL

-----------------------------------------------------------------------------
(* The location breakdown.                                                 *)

(* The rows of a breakdown are those of a list, numbered as it was typed.  *)
IsListed(stored, list) == \E made \in 0..writes :
    stored = {[key |-> list[i], sequence |-> i - 1, made |-> made] : i \in DOMAIN list}

BreakdownTyped == DOMAIN form = Editors /\ typed \in Lists /\ writes \in Nat

(* While requests do not overlap, the one in flight works on the rows as   *)
(* they are stored.                                                        *)
FormsAreCurrent ==
    ~overlapped =>
        /\ \A d, e \in Editors : form[d].op # "blank" /\ form[e].op # "blank" => d = e
        /\ \A e \in Editors : form[e].op = "locations" => form[e].places = places
        /\ IsListed(places, typed)

(* A quantity is of a place and a trade that are stored.                   *)
NothingOutlives ==
    \A a \in amounts : a.place \in places /\ \E r \in crews : r.key = a.trade

BreakdownInv == BreakdownTyped /\ FormsAreCurrent /\ NothingOutlives

(* Numbers that only grow along 1..n, and stay in it, are 1 to n.          *)
LEMMA GrowingNumbers ==
  ASSUME NEW n \in Nat, NEW g \in [1..n -> 1..n],
         \A i, j \in 1..n : i < j => g[i] < g[j]
  PROVE  \A i \in 1..n : g[i] = i
<1> SUFFICES ASSUME NEW i \in 1..n PROVE g[i] = i
  OBVIOUS
<1>1. g[i] \in 1..n /\ i \in Nat /\ g[i] \in Nat
  OBVIOUS
<1>2. \A j \in 1..n : g[j] \in 1..n /\ g[j] \in Int /\ j \in Int
  OBVIOUS
<1>3. i <= g[i]
  <2> DEFINE h == [j \in 1..i |-> g[j]]
  <2>1. \A j \in 1..i : j \in 1..n /\ g[j] \in 1..g[i]
    <3>1. \A j \in 1..i : j \in 1..n /\ (j < i \/ j = i)
      BY <1>1
    <3>2. \A j \in 1..i : g[j] \in 1..n /\ (g[j] < g[i] \/ g[j] = g[i])
      BY <3>1
    <3>3. ASSUME NEW j \in 1..i PROVE g[j] \in 1..g[i]
      <4> DEFINE a == g[j]
                 b == g[i]
      <4>1. a \in 1..n /\ b \in 1..n
        BY <1>1, <3>2
      <4>2. a < b \/ a = b
        BY <3>2
      <4> HIDE DEF a, b
      <4>3. a \in 1..b
        BY <4>1, <4>2
      <4>4. QED
        BY <4>3 DEF a, b
    <3>4. QED
      BY <3>1, <3>3
  <2>2. \A j, k \in 1..i : j # k => g[j] # g[k]
    <3>1. \A j, k \in 1..i : j # k => j < k \/ k < j
      BY <1>1
    <3>2. \A j, k \in 1..i : j # k => g[j] < g[k] \/ g[k] < g[j]
      BY <2>1, <3>1
    <3>3. QED
      BY <1>2, <2>1, <3>2
  <2>3. h \in Injection(1..i, 1..g[i])
    BY <2>1, <2>2 DEF Injection, IsInjective
  <2>4. IsFiniteSet(1..g[i]) /\ Cardinality(1..g[i]) = g[i]
    BY <1>1, FS_Interval
  <2>5. Cardinality(1..i) = i
    BY <1>1, FS_Interval
  <2>6. Cardinality(1..i) <= Cardinality(1..g[i])
    BY <2>3, <2>4, FS_Injection
  <2>7. QED
    BY <2>4, <2>5, <2>6
<1>4. g[i] <= i
  <2> DEFINE h == [j \in i..n |-> g[j]]
  <2>1. \A j \in i..n : j \in 1..n /\ g[j] \in g[i]..n
    <3>1. \A j \in i..n : j \in 1..n /\ (i < j \/ j = i)
      BY <1>1
    <3>2. \A j \in i..n : g[j] \in 1..n /\ (g[i] < g[j] \/ g[j] = g[i])
      BY <3>1
    <3>3. ASSUME NEW j \in i..n PROVE g[j] \in g[i]..n
      <4> DEFINE a == g[j]
                 b == g[i]
      <4>1. a \in 1..n /\ b \in 1..n
        BY <1>1, <3>2
      <4>2. b < a \/ a = b
        BY <3>2
      <4> HIDE DEF a, b
      <4>3. a \in b..n
        BY <4>1, <4>2
      <4>4. QED
        BY <4>3 DEF a, b
    <3>4. QED
      BY <3>1, <3>3
  <2>2. \A j, k \in i..n : j # k => g[j] # g[k]
    <3>1. \A j, k \in i..n : j # k => j < k \/ k < j
      BY <1>1
    <3>2. \A j, k \in i..n : j # k => g[j] < g[k] \/ g[k] < g[j]
      BY <2>1, <3>1
    <3>3. QED
      BY <1>2, <2>1, <3>2
  <2>3. h \in Injection(i..n, g[i]..n)
    BY <2>1, <2>2 DEF Injection, IsInjective
  <2>4. IsFiniteSet(g[i]..n) /\ Cardinality(g[i]..n) = n - g[i] + 1
    <3>1. g[i] \in Int /\ n \in Int /\ ~(g[i] > n)
      BY <1>1
    <3>2. QED
      BY <3>1, FS_Interval
  <2>5. Cardinality(i..n) = n - i + 1
    BY <1>1, FS_Interval
  <2>6. Cardinality(i..n) <= Cardinality(g[i]..n)
    BY <2>3, <2>4, FS_Injection
  <2>7. QED
    BY <1>1, <2>4, <2>5, <2>6
<1>5. QED
  BY <1>1, <1>3, <1>4

(* Sorting rows that are numbered as their list was typed gives the list   *)
(* back.                                                                   *)
LEMMA SortingGivesTheList ==
  ASSUME NEW list \in Lists, NEW stored, IsListed(stored, list)
  PROVE  InOrder(stored) = list
<1>1. PICK made \in 0..writes :
         stored = {[key |-> list[i], sequence |-> i - 1, made |-> made] : i \in DOMAIN list}
  BY DEF IsListed
<1> DEFINE RowAt(i) == [key |-> list[i], sequence |-> i - 1, made |-> made]
           numbered(n) == [i \in 1..n |-> RowAt(i)]
<1>2. PICK n \in 0..Cardinality(Keys) : list \in [1..n -> Keys]
  BY DEF Lists
<1>3. n \in Nat
  BY <1>2, FS_CardinalityType, BreakdownAssumption DEF BreakdownAssumption
<1>4. /\ \A i \in 1..n : RowAt(i).key = list[i] /\ RowAt(i).sequence = i - 1
      /\ stored = {RowAt(i) : i \in 1..n}
  BY <1>2, <1>1
<1> HIDE DEF RowAt
<1>5. \A i, j \in 1..n : RowAt(i) = RowAt(j) => i = j
  <2> SUFFICES ASSUME NEW i \in 1..n, NEW j \in 1..n, RowAt(i) = RowAt(j) PROVE i = j
    OBVIOUS
  <2>1. i - 1 = j - 1
    BY <1>4
  <2>2. QED
    BY <1>3, <2>1
<1>6. Cardinality(stored) = n
  <2>1. numbered(n) \in Bijection(1..n, stored)
    BY <1>4, <1>5 DEF Bijection, Injection, Surjection, IsInjective
  <2>2. QED
    BY <1>3, <2>1, FS_CountingElements DEF ExistsBijection
<1> DEFINE Sorted(s) == \A i, j \in DOMAIN s : i < j => Before(s[i], s[j])
           Numberings == [1..Cardinality(stored) -> stored]
           sorted == CHOOSE s \in Numberings : Sorted(s)
<1>7. numbered(n) \in [1..n -> stored] /\ Sorted(numbered(n))
  <2>1. numbered(n) \in [1..n -> stored] /\ \A i \in 1..n : numbered(n)[i] = RowAt(i)
    BY <1>4
  <2>2. ASSUME NEW i \in 1..n, NEW j \in 1..n, i < j PROVE Before(RowAt(i), RowAt(j))
    <3>1. RowAt(i).sequence < RowAt(j).sequence
      BY <1>3, <1>4, <2>2
    <3>2. QED
      BY <3>1 DEF Before
  <2>3. QED
    BY <2>1, <2>2
<1>8. sorted \in [1..n -> stored] /\ Sorted(sorted)
  <2>1. Numberings = [1..n -> stored]
    BY <1>6
  <2> HIDE DEF Sorted, numbered, Numberings
  <2>2. \E s \in Numberings : Sorted(s)
    BY <1>7, <2>1
  <2>3. QED
    BY <2>1, <2>2
<1>9. InOrder(stored) = [i \in DOMAIN sorted |-> sorted[i].key]
  BY DEF InOrder
<1> HIDE DEF sorted
<1>10. \A i, j \in 1..n : i < j => Before(sorted[i], sorted[j])
  BY <1>8
<1> DEFINE g == [i \in 1..n |-> sorted[i].sequence + 1]
<1>11. \A i \in 1..n : g[i] \in 1..n /\ sorted[i] = RowAt(g[i]) /\ sorted[i].sequence + 1 = g[i]
  <2> SUFFICES ASSUME NEW i \in 1..n
               PROVE  g[i] \in 1..n /\ sorted[i] = RowAt(g[i]) /\ sorted[i].sequence + 1 = g[i]
    OBVIOUS
  <2>1. PICK k \in 1..n : sorted[i] = RowAt(k)
    BY <1>4, <1>8
  <2>2. sorted[i].sequence + 1 = k
    BY <1>3, <1>4, <2>1
  <2>3. QED
    BY <2>1, <2>2
<1>12. \A i, j \in 1..n : i < j => g[i] < g[j]
  <2> SUFFICES ASSUME NEW i \in 1..n, NEW j \in 1..n, i < j PROVE g[i] < g[j]
    OBVIOUS
  <2>1. Before(sorted[i], sorted[j])
    BY <1>10
  <2>2. sorted[i].sequence = g[i] - 1 /\ sorted[j].sequence = g[j] - 1
    BY <1>4, <1>11
  <2>3. CASE sorted[i].sequence < sorted[j].sequence
    BY <1>11, <2>2, <2>3
  <2>4. CASE ~(sorted[i].sequence < sorted[j].sequence)
    <3>1. PICK a \in DOMAIN Rank, b \in DOMAIN Rank :
            /\ sorted[i].sequence = sorted[j].sequence
            /\ a < b /\ Rank[a] = sorted[i].key /\ Rank[b] = sorted[j].key
      BY <2>1, <2>4 DEF Before
    <3>2. sorted[i] = sorted[j]
      BY <1>11, <3>1
    <3>3. a = b
      BY <3>1, <3>2, BreakdownAssumption DEF BreakdownAssumption
    <3>4. QED
      BY <3>1, <3>3, BreakdownAssumption DEF BreakdownAssumption
  <2>5. QED
    BY <2>3, <2>4
<1>13. g \in [1..n -> 1..n]
  BY <1>11
<1>14. \A i \in 1..n : g[i] = i
  <2> HIDE DEF g
  <2>1. QED
    BY <1>3, <1>12, <1>13, GrowingNumbers
<1>15. \A i \in 1..n : sorted[i].key = list[i]
  BY <1>4, <1>11, <1>14
<1>16. DOMAIN sorted = 1..n /\ list = [i \in 1..n |-> list[i]]
  BY <1>2, <1>8
<1>17. QED
  BY <1>9, <1>15, <1>16

-----------------------------------------------------------------------------
(* Steps on the breakdown.                                                 *)

(* A request that ends while no two overlapped leaves none in flight.      *)
LEMMA FormEnds ==
  ASSUME BreakdownInv, NEW e \in Editors, form[e].op # "blank",
         form' = [form EXCEPT ![e] = Blank], UNCHANGED overlapped
  PROVE  /\ DOMAIN form' = Editors
         /\ ~overlapped' => \A d \in Editors : form'[d].op = "blank"
<1>1. /\ DOMAIN form' = Editors
      /\ form'[e].op = "blank"
      /\ \A d \in Editors : d # e => form'[d] = form[d]
  BY DEF BreakdownInv, BreakdownTyped, Blank
<1>2. ASSUME ~overlapped', NEW d \in Editors PROVE form'[d].op = "blank"
  BY <1>1, <1>2 DEF BreakdownInv, FormsAreCurrent
<1>3. QED
  BY <1>1, <1>2

(* A step that leaves the places alone keeps them listed.                  *)
LEMMA PlacesStayListed ==
  ASSUME BreakdownInv, NEW e \in Editors, form[e].op # "blank",
         form' = [form EXCEPT ![e] = Blank],
         UNCHANGED <<places, typed, overlapped>>,
         writes' \in Nat, writes' >= writes
  PROVE  BreakdownTyped' /\ FormsAreCurrent'
<1>1. /\ DOMAIN form' = Editors
      /\ ~overlapped' => \A d \in Editors : form'[d].op = "blank"
  BY FormEnds
<1>2. BreakdownTyped'
  BY <1>1 DEF BreakdownInv, BreakdownTyped
<1>3. \A m \in 0..writes : m \in 0..writes'
  BY DEF BreakdownInv, BreakdownTyped
<1>4. ASSUME ~overlapped PROVE IsListed(places, typed)'
  <2>1. PICK m \in 0..writes :
          places = {[key |-> typed[i], sequence |-> i - 1, made |-> m] : i \in DOMAIN typed}
    BY <1>4 DEF BreakdownInv, FormsAreCurrent, IsListed
  <2>2. m \in 0..writes'
    BY <1>3
  <2>3. places' = {[key |-> typed'[i], sequence |-> i - 1, made |-> m] : i \in DOMAIN typed'}
    BY <2>1
  <2>4. QED
    BY <2>2, <2>3 DEF IsListed
<1>5. QED
  BY <1>1, <1>2, <1>4 DEF FormsAreCurrent

(* A breakdown saved whole replaces the rows it had loaded, and takes      *)
(* their quantities along.                                                 *)
LEMMA SaveLocationsKeeps ==
  ASSUME BreakdownInv, NEW e \in Editors, SaveLocations(e)
  PROVE  BreakdownInv'
<1> DEFINE loaded == form[e]
           kept == places \ loaded.places
<1>1. /\ loaded.op = "locations"
      /\ form' = [form EXCEPT ![e] = Blank]
      /\ UNCHANGED <<crews, overlapped>>
  BY DEF SaveLocations
<1>2. form[e].op # "blank" /\ writes \in Nat
  BY <1>1 DEF BreakdownInv, BreakdownTyped
<1>3. CASE UNCHANGED <<places, amounts, writes, typed>>
  <2>1. writes' \in Nat /\ writes' >= writes
    BY <1>2, <1>3
  <2>2. BreakdownTyped' /\ FormsAreCurrent'
    BY <1>1, <1>2, <1>3, <2>1, PlacesStayListed
  <2>3. QED
    BY <1>1, <1>3, <2>2 DEF BreakdownInv, NothingOutlives
<1>4. ASSUME NEW list \in Lists,
             places' = kept \cup NewPlaces(list),
             amounts' = {a \in amounts : a.place \notin loaded.places},
             writes' = writes + 1, typed' = list
      PROVE  BreakdownInv'
  <2>1. /\ DOMAIN form' = Editors
        /\ ~overlapped' => \A d \in Editors : form'[d].op = "blank"
    BY <1>1, <1>2, FormEnds
  <2>2. BreakdownTyped'
    BY <1>2, <1>4, <2>1 DEF BreakdownTyped
  <2>3. ASSUME ~overlapped PROVE IsListed(places, typed)'
    <3>1. kept = {}
      BY <1>1, <2>3 DEF BreakdownInv, FormsAreCurrent
    <3>2. writes + 1 \in 0..writes'
      BY <1>2, <1>4
    <3>3. places' = {[key |-> typed'[i], sequence |-> i - 1, made |-> writes + 1] :
                       i \in DOMAIN typed'}
      BY <1>4, <3>1 DEF NewPlaces
    <3>4. QED
      BY <3>2, <3>3 DEF IsListed
  <2>4. FormsAreCurrent'
    BY <1>1, <2>1, <2>3 DEF FormsAreCurrent
  <2>5. NothingOutlives'
    BY <1>1, <1>4 DEF BreakdownInv, NothingOutlives
  <2>6. QED
    BY <2>2, <2>4, <2>5 DEF BreakdownInv
<1>5. QED
  BY <1>1, <1>3, <1>4 DEF SaveLocations

(* A take-off refers to places that are stored, of a trade that is stored  *)
(* with it or was before.                                                  *)
LEMMA SaveTradeKeeps ==
  ASSUME BreakdownInv, NEW e \in Editors, SaveTrade(e)
  PROVE  BreakdownInv'
<1> DEFINE loaded == form[e]
<1>1. /\ loaded.op = "trade"
      /\ form' = [form EXCEPT ![e] = Blank]
      /\ UNCHANGED <<places, typed, overlapped>>
  BY DEF SaveTrade
<1>2. form[e].op # "blank" /\ writes \in Nat
  BY <1>1 DEF BreakdownInv, BreakdownTyped
<1>3. CASE UNCHANGED <<crews, amounts, writes>>
  <2>1. writes' \in Nat /\ writes' >= writes
    BY <1>2, <1>3
  <2>2. BreakdownTyped' /\ FormsAreCurrent'
    BY <1>1, <1>2, <2>1, PlacesStayListed
  <2>3. QED
    BY <1>1, <1>3, <2>2 DEF BreakdownInv, NothingOutlives
<1>4. ASSUME NEW t, NEW given, ~Clashes(loaded, t, given),
             crews' = WithTrade(loaded, t, given).crews,
             amounts' = WithTrade(loaded, t, given).amounts,
             writes' = writes + 1
      PROVE  BreakdownInv'
  <2>1. BreakdownTyped' /\ FormsAreCurrent'
    <3>1. writes' \in Nat /\ writes' >= writes
      BY <1>2, <1>4
    <3>2. QED
      BY <1>1, <1>2, <3>1, PlacesStayListed
  <2>2. given \subseteq places
    BY <1>4 DEF Clashes
  <2> DEFINE added == [key |-> t, sequence |-> Cardinality(loaded.crews), made |-> writes + 1]
  <2>3. crews' = IF IsNew(loaded, t) THEN crews \cup {added} ELSE crews
    BY <1>4 DEF WithTrade
  <2>4. \E r \in crews' : r.key = t
    <3>1. CASE IsNew(loaded, t)
      <4>1. added.key = t
        OBVIOUS
      <4>2. added \in crews'
        BY <2>3, <3>1
      <4>3. QED
        BY <4>1, <4>2
    <3>2. CASE ~IsNew(loaded, t)
      BY <1>4, <2>3, <3>2 DEF Clashes
    <3>3. QED
      BY <3>1, <3>2
  <2>5. crews \subseteq crews'
    BY <2>3
  <2>6. \A a \in amounts' :
          \/ a \in amounts
          \/ a.trade = t /\ a.place \in given
    BY <1>4 DEF WithTrade
  <2>7. NothingOutlives'
    BY <1>1, <2>2, <2>4, <2>5, <2>6 DEF BreakdownInv, NothingOutlives
  <2>8. QED
    BY <2>1, <2>7 DEF BreakdownInv
<1>5. QED
  BY <1>1, <1>3, <1>4 DEF SaveTrade

(* A trade that goes takes its quantities along.                           *)
LEMMA RemoveTradeKeeps ==
  ASSUME BreakdownInv, NEW e \in Editors, RemoveTrade(e)
  PROVE  BreakdownInv'
<1>1. /\ form[e].op = "remove"
      /\ form' = [form EXCEPT ![e] = Blank]
      /\ UNCHANGED <<places, typed, overlapped>>
      /\ writes' = writes + 1
  BY DEF RemoveTrade
<1>2. form[e].op # "blank" /\ writes \in Nat
  BY <1>1 DEF BreakdownInv, BreakdownTyped
<1>3. BreakdownTyped' /\ FormsAreCurrent'
  <2>1. writes' \in Nat /\ writes' >= writes
    BY <1>1, <1>2
  <2>2. QED
    BY <1>1, <1>2, <2>1, PlacesStayListed
<1>4. PICK r \in form[e].crews :
        /\ crews' = crews \ {r}
        /\ amounts' = IF r \in crews THEN {a \in amounts : a.trade # r.key} ELSE amounts
  BY DEF RemoveTrade
<1>5. NothingOutlives'
  BY <1>1, <1>4 DEF BreakdownInv, NothingOutlives
<1>6. QED
  BY <1>3, <1>5 DEF BreakdownInv

(* Every step keeps the breakdown as it was typed.                         *)
LEMMA BreakdownInvHolds == BreakdownSpec => []BreakdownInv
<1>1. BreakdownInit => BreakdownInv
  <2> SUFFICES ASSUME BreakdownInit PROVE BreakdownInv
    OBVIOUS
  <2>1. /\ places = {} /\ crews = {} /\ amounts = {} /\ writes = 0 /\ typed = <<>>
        /\ DOMAIN form = Editors /\ \A e \in Editors : form[e].op = "blank"
    BY DEF BreakdownInit, Blank
  <2>2. DOMAIN typed = {} /\ typed \in [1..0 -> Keys]
    BY <2>1
  <2>3. Cardinality(Keys) \in Nat
    BY FS_CardinalityType, BreakdownAssumption DEF BreakdownAssumption
  <2>4. typed \in Lists
    <3>1. 0 \in 0..Cardinality(Keys)
      BY <2>3
    <3>2. typed \in {l \in [1..0 -> Keys] : \A i, j \in 1..0 : l[i] = l[j] => i = j}
      BY <2>2
    <3>3. QED
      BY <3>1, <3>2 DEF Lists
  <2>5. IsListed(places, typed)
    <3>1. 0 \in 0..writes
      BY <2>1
    <3>2. places = {[key |-> typed[i], sequence |-> i - 1, made |-> 0] : i \in DOMAIN typed}
      BY <2>1, <2>2
    <3>3. QED
      BY <3>1, <3>2 DEF IsListed
  <2>6. QED
    BY <2>1, <2>4, <2>5 DEF BreakdownInv, BreakdownTyped, FormsAreCurrent, NothingOutlives
<1>2. BreakdownInv /\ [BreakdownNext]_breakdownVars => BreakdownInv'
  <2> SUFFICES ASSUME BreakdownInv, [BreakdownNext]_breakdownVars PROVE BreakdownInv'
    OBVIOUS
  <2>1. CASE UNCHANGED breakdownVars
    BY <2>1 DEF breakdownVars, BreakdownInv, BreakdownTyped, FormsAreCurrent,
                NothingOutlives, IsListed
  <2>2. ASSUME NEW e \in Editors, LoadForm(e) PROVE BreakdownInv'
    <3>1. PICK op \in {"locations", "trade", "remove"} :
            form' = [form EXCEPT ![e] = [op |-> op, places |-> places, crews |-> crews,
                                         amounts |-> amounts]]
      BY <2>2 DEF LoadForm
    <3>2. /\ DOMAIN form' = Editors
          /\ form'[e].places = places
          /\ \A d \in Editors : d # e => form'[d] = form[d]
      BY <3>1 DEF BreakdownInv, BreakdownTyped
    <3>3. /\ UNCHANGED <<places, crews, amounts, writes, typed>>
          /\ DOMAIN form' = Editors
          /\ form'[e].places = places
          /\ \A d \in Editors : d # e => form'[d] = form[d]
          /\ ~overlapped' => ~overlapped /\ \A d \in Editors : d # e => form[d] = Blank
      BY <2>2, <3>2 DEF LoadForm
    <3>4. ~overlapped' => \A d \in Editors : d # e => form'[d].op = "blank"
      BY <3>3 DEF Blank
    <3>5. FormsAreCurrent'
      BY <3>3, <3>4 DEF BreakdownInv, FormsAreCurrent, IsListed
    <3>6. QED
      BY <3>3, <3>5 DEF BreakdownInv, BreakdownTyped, NothingOutlives
  <2>3. ASSUME NEW e \in Editors, SaveLocations(e) PROVE BreakdownInv'
    BY <2>3, SaveLocationsKeeps
  <2>4. ASSUME NEW e \in Editors, SaveTrade(e) PROVE BreakdownInv'
    BY <2>4, SaveTradeKeeps
  <2>5. ASSUME NEW e \in Editors, RemoveTrade(e) PROVE BreakdownInv'
    BY <2>5, RemoveTradeKeeps
  <2>6. ASSUME NEW e \in Editors, Discard(e) PROVE BreakdownInv'
    <3>1. /\ UNCHANGED <<places, crews, amounts, writes, typed, overlapped>>
          /\ DOMAIN form' = Editors
          /\ form'[e].op = "blank"
          /\ \A d \in Editors : d # e => form'[d] = form[d]
      BY <2>6 DEF Discard, BreakdownInv, BreakdownTyped, Blank
    <3>2. \A d \in Editors : form'[d].op # "blank" => form'[d] = form[d]
      BY <3>1
    <3>3. FormsAreCurrent'
      BY <3>1, <3>2 DEF BreakdownInv, FormsAreCurrent, IsListed
    <3>4. QED
      BY <3>1, <3>3 DEF BreakdownInv, BreakdownTyped, NothingOutlives
  <2>7. QED
    BY <2>1, <2>2, <2>3, <2>4, <2>5, <2>6 DEF BreakdownNext
<1>3. QED
  BY <1>1, <1>2, PTL DEF BreakdownSpec

(* The flow that is drawn is the list that was typed last, in its order,   *)
(* unless two forms were open at once; and no quantity outlives its place  *)
(* or its trade.                                                           *)
THEOREM TheFlowIsTheList == BreakdownSpec => []BreakdownIsAsTyped
<1>1. BreakdownInv /\ ~overlapped => Flow = typed
  <2> SUFFICES ASSUME BreakdownInv, ~overlapped PROVE Flow = typed
    OBVIOUS
  <2>1. typed \in Lists /\ IsListed(places, typed)
    BY DEF BreakdownInv, BreakdownTyped, FormsAreCurrent
  <2>2. InOrder(places) = typed
    BY <2>1, SortingGivesTheList
  <2>3. QED
    BY <2>2 DEF Flow
<1>2. BreakdownInv => BreakdownIsAsTyped
  BY <1>1 DEF BreakdownInv, NothingOutlives, BreakdownIsAsTyped
<1>3. QED
  BY <1>2, BreakdownInvHolds, PTL

-----------------------------------------------------------------------------
(* The rate limits.  Windows first.                                        *)

(* The start of the window a second is in: at most that second, less than  *)
(* a window ago, and the next second is in the same window or starts one.  *)
LEMMA Seconds ==
  ASSUME NEW c \in Nat, NEW n \in Nat \ {0}
  PROVE  /\ c - (c % n) \in Nat /\ c - (c % n) <= c /\ c < c - (c % n) + n
         /\ \/ (c + 1) - ((c + 1) % n) = c - (c % n)
            \/ (c + 1) - ((c + 1) % n) = c + 1 /\ c + 1 = c - (c % n) + n
<1>1. /\ c % n \in 0..(n - 1) /\ c \div n \in Int
      /\ c = n * (c \div n) + (c % n)
  OBVIOUS
<1>2. /\ (c + 1) % n \in 0..(n - 1) /\ (c + 1) \div n \in Int
      /\ c + 1 = n * ((c + 1) \div n) + ((c + 1) % n)
  OBVIOUS
<1> DEFINE q == c \div n
           r == c % n
           p == (c + 1) \div n
           s == (c + 1) % n
<1>3. /\ q \in Int /\ p \in Int /\ r \in 0..(n - 1) /\ s \in 0..(n - 1)
      /\ c = n * q + r /\ c + 1 = n * p + s
  BY <1>1, <1>2
<1> HIDE DEF q, r, p, s
<1>4. p = q \/ p = q + 1
  <2>1. CASE p >= q + 2
    <3>1. n * p >= n * (q + 2)
      BY <1>3, <2>1
    <3>2. n * (q + 2) = n * q + 2 * n
      BY <1>3
    <3>3. QED
      BY <1>3, <3>1, <3>2
  <2>2. CASE p <= q - 1
    <3>1. n * p <= n * (q - 1)
      BY <1>3, <2>2
    <3>2. n * (q - 1) = n * q - n
      BY <1>3
    <3>3. QED
      BY <1>3, <3>1, <3>2
  <2>3. QED
    BY <1>3, <2>1, <2>2
<1>5. CASE p = q
  BY <1>3, <1>5 DEF r, s
<1>6. CASE p = q + 1
  <2>1. n * p = n * q + n
    BY <1>3, <1>6
  <2>2. s = 0 /\ r = n - 1
    BY <1>3, <2>1
  <2>3. QED
    BY <1>3, <2>2 DEF r, s
<1>7. QED
  BY <1>4, <1>5, <1>6

-----------------------------------------------------------------------------
(* The inductive invariant.                                                *)

AtMost(hits, limit) == IF hits <= limit THEN hits ELSE limit

(* The window of an endpoint that is open now: its row, and its name in    *)
(* the history.                                                            *)
CurrentRow(e) == <<e, WindowStart(e)>>
CurrentKey(e) == <<Shared, e, WindowStart(e) + Limit[e].seconds>>

LimitTyped ==
  /\ clock \in Nat
  /\ store \in {"database", "memory"}
  /\ windows \in [Workers -> [Endpoints -> [count : Nat, ends : Nat]]]
  /\ DOMAIN rows \subseteq Endpoints \X Nat
  /\ \A r \in DOMAIN rows : rows[r] \in Nat
  /\ \A k \in DOMAIN admitted : admitted[k] \in Nat
  /\ rejected \subseteq DOMAIN admitted

(* With a database, the history has open windows only; a row that is there *)
(* was let through up to the limit; and a window whose row no sweep took   *)
(* let no more through than that.                                          *)
DatabaseCounts ==
  /\ \A r \in DOMAIN rows : r[2] <= WindowStart(r[1])
  /\ \A k \in DOMAIN admitted : \E e \in Endpoints : k = CurrentKey(e)
  /\ \A e \in Endpoints :
       /\ CurrentRow(e) \in DOMAIN rows =>
            /\ CurrentKey(e) \in DOMAIN admitted
            /\ admitted[CurrentKey(e)] >= AtMost(rows[CurrentRow(e)], Limit[e].count)
       /\ CurrentKey(e) \in DOMAIN admitted /\ CurrentKey(e) \notin swept =>
            /\ CurrentRow(e) \in DOMAIN rows
            /\ admitted[CurrentKey(e)] <= AtMost(rows[CurrentRow(e)], Limit[e].count)
       /\ CurrentKey(e) \in rejected => admitted[CurrentKey(e)] >= Limit[e].count

(* In memory, the history has the open windows of the workers, each with   *)
(* what its worker counted, up to the limit.                               *)
OpenWindow(w, e) == <<w, e, windows[w][e].ends>>

MemoryCounts ==
  /\ \A k \in DOMAIN admitted :
       \E w \in Workers, e \in Endpoints : k = OpenWindow(w, e) /\ clock < windows[w][e].ends
  /\ \A w \in Workers, e \in Endpoints : clock < windows[w][e].ends =>
       /\ OpenWindow(w, e) \in DOMAIN admitted
       /\ admitted[OpenWindow(w, e)] = AtMost(windows[w][e].count, Limit[e].count)
       /\ OpenWindow(w, e) \in rejected => admitted[OpenWindow(w, e)] >= Limit[e].count

LimitInv ==
  /\ LimitTyped
  /\ store = "database" => DatabaseCounts
  /\ store = "memory" => MemoryCounts

-----------------------------------------------------------------------------
(* Facts the steps need.                                                   *)

(* The limits, and where their windows are.                                *)
LEMMA WindowFacts ==
  ASSUME clock \in Nat, NEW e \in Endpoints
  PROVE  /\ Limit[e].count \in Nat /\ Limit[e].seconds \in Nat \ {0}
         /\ WindowStart(e) \in Nat /\ WindowStart(e) <= clock
         /\ clock < WindowStart(e) + Limit[e].seconds
<1>1. Limit[e].count \in Nat /\ Limit[e].seconds \in Nat \ {0}
  BY RateLimitAssumption DEF RateLimitAssumption
<1>2. QED
  BY <1>1, Seconds DEF WindowStart

(* One hit more in a tally.                                                *)
LEMMA TallyCounts ==
  ASSUME LimitTyped, NEW key, NEW allowed \in BOOLEAN
  PROVE  /\ DOMAIN Tally(key, allowed) = DOMAIN admitted \cup {key}
         /\ \A k \in DOMAIN admitted : k # key => Tally(key, allowed)[k] = admitted[k]
         /\ key \in DOMAIN admitted =>
              Tally(key, allowed)[key] = admitted[key] + (IF allowed THEN 1 ELSE 0)
         /\ key \notin DOMAIN admitted => Tally(key, allowed)[key] = IF allowed THEN 1 ELSE 0
         /\ \A k \in DOMAIN Tally(key, allowed) : Tally(key, allowed)[k] \in Nat
<1> DEFINE T == Tally(key, allowed)
<1>1. T = [k \in DOMAIN admitted \cup {key} |->
             (IF k \in DOMAIN admitted THEN admitted[k] ELSE 0)
               + (IF k = key /\ allowed THEN 1 ELSE 0)]
  BY DEF Tally
<1>2. \A k \in DOMAIN admitted : admitted[k] \in Nat
  BY DEF LimitTyped
<1>3. DOMAIN T = DOMAIN admitted \cup {key}
  BY <1>1
<1>4. \A k \in DOMAIN admitted : k # key => T[k] = admitted[k]
  BY <1>1, <1>2
<1>5. key \in DOMAIN admitted => T[key] = admitted[key] + (IF allowed THEN 1 ELSE 0)
  BY <1>1
<1>6. key \notin DOMAIN admitted => T[key] = IF allowed THEN 1 ELSE 0
  BY <1>1
<1> HIDE DEF T
<1>7. \A k \in DOMAIN T : T[k] \in Nat
  BY <1>2, <1>3, <1>4, <1>5, <1>6
<1>8. QED
  BY <1>3, <1>4, <1>5, <1>6, <1>7 DEF T

-----------------------------------------------------------------------------
(* Steps.                                                                  *)

(* Time passes: a window that is still open stays what it was, another one *)
(* is forgotten.                                                           *)
LEMMA LimitTickKeeps ==
  ASSUME LimitInv, Tick
  PROVE  LimitInv'
<1> DEFINE Open(keys) == {k \in keys : k[3] > clock + 1}
<1>1. /\ LimitTyped /\ clock \in Nat
      /\ clock' = clock + 1
      /\ admitted' = [k \in Open(DOMAIN admitted) |-> admitted[k]]
      /\ rejected' = Open(rejected) /\ swept' = Open(swept)
      /\ UNCHANGED <<store, rows, windows>>
  BY DEF LimitInv, LimitTyped, Tick
<1>2. /\ DOMAIN admitted' = Open(DOMAIN admitted)
      /\ \A k \in DOMAIN admitted' : k \in DOMAIN admitted /\ admitted'[k] = admitted[k]
      /\ \A k : k \in rejected' <=> k \in rejected /\ k[3] > clock + 1
      /\ \A k : k \in swept' <=> k \in swept /\ k[3] > clock + 1
      /\ \A k : k \in DOMAIN admitted' <=> k \in DOMAIN admitted /\ k[3] > clock + 1
  BY <1>1
<1> HIDE DEF Open
<1>3. LimitTyped'
  BY <1>1, <1>2 DEF LimitTyped
<1>4. ASSUME NEW e \in Endpoints
      PROVE  /\ WindowStart(e) \in Nat /\ Limit[e].seconds \in Nat
             /\ \/ /\ WindowStart(e)' = WindowStart(e)
                   /\ WindowStart(e) + Limit[e].seconds > clock + 1
                \/ /\ WindowStart(e)' = clock + 1 /\ WindowStart(e) < clock + 1
                   /\ WindowStart(e) + Limit[e].seconds = clock + 1
  <2>1. /\ WindowStart(e) \in Nat /\ WindowStart(e) <= clock /\ Limit[e].seconds \in Nat \ {0}
    BY <1>1, WindowFacts
  <2>2. \/ WindowStart(e)' = WindowStart(e)
        \/ /\ WindowStart(e)' = clock + 1
           /\ WindowStart(e) + Limit[e].seconds = clock + 1
    BY <1>1, <2>1, Seconds DEF WindowStart
  <2>3. clock' \in Nat /\ clock' < WindowStart(e)' + Limit[e].seconds
    <3>1. clock' \in Nat
      BY <1>1, <2>1
    <3>2. clock' < (clock' - (clock' % Limit[e].seconds)) + Limit[e].seconds
      BY <1>1, <2>1, <3>1, Seconds
    <3>3. QED
      BY <3>1, <3>2 DEF WindowStart
  <2>4. QED
    BY <1>1, <2>1, <2>2, <2>3
<1>5. ASSUME store = "database" PROVE DatabaseCounts'
  <2>1. DatabaseCounts
    BY <1>5 DEF LimitInv
  <2>2. ASSUME NEW r \in DOMAIN rows' PROVE r[2] <= WindowStart(r[1])'
    <3>1. r[1] \in Endpoints /\ r[2] \in Nat /\ r[2] <= WindowStart(r[1])
      BY <1>1, <2>1, <2>2 DEF DatabaseCounts, LimitTyped
    <3>2. WindowStart(r[1]) <= WindowStart(r[1])' /\ WindowStart(r[1]) \in Nat
          /\ WindowStart(r[1])' \in Nat
      BY <1>1, <1>4, <3>1
    <3>3. QED
      BY <3>1, <3>2
  <2>3. ASSUME NEW k \in DOMAIN admitted' PROVE \E e \in Endpoints : k = CurrentKey(e)'
    <3>1. k \in DOMAIN admitted /\ k[3] > clock + 1
      BY <1>2, <2>3
    <3>2. PICK e \in Endpoints : k = CurrentKey(e)
      BY <2>1, <3>1 DEF DatabaseCounts
    <3>3. k[3] = WindowStart(e) + Limit[e].seconds
      BY <3>2 DEF CurrentKey
    <3>4. WindowStart(e)' = WindowStart(e)
      BY <1>1, <1>4, <3>1, <3>3
    <3>5. QED
      BY <3>2, <3>4 DEF CurrentKey
  <2>4. ASSUME NEW e \in Endpoints
        PROVE  /\ CurrentRow(e)' \in DOMAIN rows' =>
                    /\ CurrentKey(e)' \in DOMAIN admitted'
                    /\ admitted'[CurrentKey(e)'] >= AtMost(rows'[CurrentRow(e)'], Limit[e].count)
               /\ CurrentKey(e)' \in DOMAIN admitted' /\ CurrentKey(e)' \notin swept' =>
                    /\ CurrentRow(e)' \in DOMAIN rows'
                    /\ admitted'[CurrentKey(e)'] <= AtMost(rows'[CurrentRow(e)'], Limit[e].count)
               /\ CurrentKey(e)' \in rejected' =>
                    admitted'[CurrentKey(e)'] >= Limit[e].count
    <3>1. CASE /\ WindowStart(e)' = WindowStart(e)
               /\ WindowStart(e) + Limit[e].seconds > clock + 1
      <4>1. /\ CurrentKey(e)' = CurrentKey(e) /\ CurrentRow(e)' = CurrentRow(e)
            /\ CurrentKey(e)[3] > clock + 1
        BY <3>1 DEF CurrentKey, CurrentRow
      <4>2. /\ CurrentKey(e) \in DOMAIN admitted' <=> CurrentKey(e) \in DOMAIN admitted
            /\ CurrentKey(e) \in swept' <=> CurrentKey(e) \in swept
            /\ CurrentKey(e) \in rejected' <=> CurrentKey(e) \in rejected
            /\ CurrentKey(e) \in DOMAIN admitted =>
                 admitted'[CurrentKey(e)] = admitted[CurrentKey(e)]
            /\ rejected \subseteq DOMAIN admitted
        BY <1>1, <1>2, <4>1 DEF LimitTyped
      <4>3. QED
        BY <1>1, <2>1, <4>1, <4>2 DEF DatabaseCounts
    <3>2. CASE WindowStart(e)' = clock + 1 /\ WindowStart(e) < clock + 1
      <4>1. CurrentRow(e)' \notin DOMAIN rows'
        <5>1. CurrentRow(e)'[1] = e /\ CurrentRow(e)'[2] = clock + 1
          BY <3>2 DEF CurrentRow
        <5>2. ~(clock + 1 <= WindowStart(e))
          BY <1>1, <1>4, <3>2
        <5>3. QED
          BY <1>1, <2>1, <5>1, <5>2 DEF DatabaseCounts
      <4>2. CurrentKey(e)' \notin DOMAIN admitted
        <5>1. /\ CurrentKey(e)'[2] = e
              /\ CurrentKey(e)'[3] = (clock + 1) + Limit[e].seconds
          BY <3>2 DEF CurrentKey
        <5>2. ASSUME NEW f \in Endpoints, CurrentKey(e)' = CurrentKey(f) PROVE FALSE
          <6>1. f = e /\ WindowStart(e) + Limit[e].seconds = (clock + 1) + Limit[e].seconds
            BY <5>1, <5>2 DEF CurrentKey
          <6>2. QED
            BY <1>1, <1>4, <3>2, <6>1
        <5>3. QED
          BY <2>1, <5>2 DEF DatabaseCounts
      <4>3. CurrentKey(e)' \notin DOMAIN admitted' /\ CurrentKey(e)' \notin rejected'
        BY <1>1, <1>2, <4>2 DEF LimitTyped
      <4>4. QED
        BY <4>1, <4>3
    <3>3. QED
      BY <1>4, <3>1, <3>2
  <2>5. QED
    BY <1>1, <2>2, <2>3, <2>4 DEF DatabaseCounts
<1>6. ASSUME store = "memory" PROVE MemoryCounts'
  <2>1. MemoryCounts
    BY <1>6 DEF LimitInv
  <2>2. \A w \in Workers, e \in Endpoints :
          /\ OpenWindow(w, e)' = OpenWindow(w, e) /\ OpenWindow(w, e)[3] = windows[w][e].ends
          /\ windows[w][e].ends \in Nat
    BY <1>1 DEF OpenWindow, LimitTyped
  <2>3. ASSUME NEW k \in DOMAIN admitted'
        PROVE  \E w \in Workers, e \in Endpoints :
                 k = OpenWindow(w, e)' /\ clock' < windows'[w][e].ends
    <3>1. k \in DOMAIN admitted /\ k[3] > clock + 1
      BY <1>2, <2>3
    <3>2. PICK w \in Workers, e \in Endpoints : k = OpenWindow(w, e)
      BY <2>1, <3>1 DEF MemoryCounts
    <3>3. clock' < windows'[w][e].ends
      BY <1>1, <2>2, <3>1, <3>2
    <3>4. QED
      BY <2>2, <3>2, <3>3
  <2>4. ASSUME NEW w \in Workers, NEW e \in Endpoints, clock' < windows'[w][e].ends
        PROVE  /\ OpenWindow(w, e)' \in DOMAIN admitted'
               /\ admitted'[OpenWindow(w, e)'] = AtMost(windows'[w][e].count, Limit[e].count)
               /\ OpenWindow(w, e)' \in rejected' =>
                    admitted'[OpenWindow(w, e)'] >= Limit[e].count
    <3>1. clock < windows[w][e].ends /\ OpenWindow(w, e)[3] > clock + 1
      BY <1>1, <2>2, <2>4
    <3>2. /\ OpenWindow(w, e) \in DOMAIN admitted
          /\ admitted[OpenWindow(w, e)] = AtMost(windows[w][e].count, Limit[e].count)
          /\ OpenWindow(w, e) \in rejected => admitted[OpenWindow(w, e)] >= Limit[e].count
      BY <2>1, <3>1 DEF MemoryCounts
    <3>3. QED
      BY <1>1, <1>2, <2>2, <3>1, <3>2
  <2>5. QED
    BY <2>3, <2>4 DEF MemoryCounts
<1>7. QED
  BY <1>1, <1>3, <1>5, <1>6 DEF LimitInv

(* A worker that restarts forgets its windows, and the history with it.    *)
LEMMA RestartKeeps ==
  ASSUME LimitInv, NEW v \in Workers, Restart(v)
  PROVE  LimitInv'
<1>1. /\ LimitTyped /\ MemoryCounts /\ clock \in Nat /\ store = "memory"
      /\ windows' = [windows EXCEPT ![v] = [e \in Endpoints |-> NoWindow]]
      /\ admitted' = [k \in {k \in DOMAIN admitted : k[1] # v} |-> admitted[k]]
      /\ rejected' = {k \in rejected : k[1] # v}
      /\ UNCHANGED <<clock, store, rows, swept>>
  BY DEF LimitInv, LimitTyped, Restart
<1>2. /\ windows' \in [Workers -> [Endpoints -> [count : Nat, ends : Nat]]]
      /\ \A w \in Workers, e \in Endpoints :
           windows'[w][e] = IF w = v THEN NoWindow ELSE windows[w][e]
      /\ NoWindow.ends = 0
  BY <1>1 DEF LimitTyped, NoWindow
<1>3. /\ \A k : k \in DOMAIN admitted' <=> k \in DOMAIN admitted /\ k[1] # v
      /\ \A k \in DOMAIN admitted' : admitted'[k] = admitted[k]
      /\ \A k : k \in rejected' <=> k \in rejected /\ k[1] # v
  BY <1>1
<1>4. LimitTyped'
  BY <1>1, <1>2, <1>3 DEF LimitTyped
<1>5. MemoryCounts'
  <2>1. \A w \in Workers, e \in Endpoints :
          /\ OpenWindow(w, e)[1] = w
          /\ w # v => OpenWindow(w, e)' = OpenWindow(w, e)
          /\ w = v => ~(clock' < windows'[w][e].ends)
    BY <1>1, <1>2 DEF OpenWindow
  <2>2. ASSUME NEW k \in DOMAIN admitted'
        PROVE  \E w \in Workers, e \in Endpoints :
                 k = OpenWindow(w, e)' /\ clock' < windows'[w][e].ends
    <3>1. PICK w \in Workers, e \in Endpoints :
            k = OpenWindow(w, e) /\ clock < windows[w][e].ends
      BY <1>1, <1>3, <2>2 DEF MemoryCounts
    <3>2. QED
      BY <1>1, <1>2, <1>3, <2>1, <2>2, <3>1
  <2>3. ASSUME NEW w \in Workers, NEW e \in Endpoints, clock' < windows'[w][e].ends
        PROVE  /\ OpenWindow(w, e)' \in DOMAIN admitted'
               /\ admitted'[OpenWindow(w, e)'] = AtMost(windows'[w][e].count, Limit[e].count)
               /\ OpenWindow(w, e)' \in rejected' =>
                    admitted'[OpenWindow(w, e)'] >= Limit[e].count
    <3>1. w # v /\ clock < windows[w][e].ends /\ windows'[w][e] = windows[w][e]
      BY <1>1, <1>2, <2>1, <2>3
    <3>2. /\ OpenWindow(w, e) \in DOMAIN admitted
          /\ admitted[OpenWindow(w, e)] = AtMost(windows[w][e].count, Limit[e].count)
          /\ OpenWindow(w, e) \in rejected => admitted[OpenWindow(w, e)] >= Limit[e].count
      BY <1>1, <3>1 DEF MemoryCounts
    <3>3. QED
      BY <1>3, <2>1, <3>1, <3>2
  <2>4. QED
    BY <2>2, <2>3 DEF MemoryCounts
<1>6. QED
  BY <1>1, <1>4, <1>5 DEF LimitInv

(* A hit counted in memory.                                                *)
LEMMA HitMemoryKeeps ==
  ASSUME LimitInv, NEW v \in Workers, NEW f \in Endpoints, HitMemory(v, f)
  PROVE  LimitInv'
<1> DEFINE old == windows[v][f]
           new == NextWindow(v, f)
           key == <<v, f, new.ends>>
           allowed == new.count <= Limit[f].count
<1>1. /\ LimitTyped /\ MemoryCounts /\ clock \in Nat /\ store = "memory"
      /\ windows' = [windows EXCEPT ![v][f] = new]
      /\ UNCHANGED <<clock, store, rows, swept>>
  BY DEF LimitInv, LimitTyped, HitMemory
<1>2. /\ admitted' = Tally(key, allowed)
      /\ rejected' = IF allowed THEN rejected ELSE rejected \cup {key}
  BY <1>1, Zenon DEF HitMemory, Record, Counted, Allows, Shared
<1>3. old \in [count : Nat, ends : Nat] /\ Limit[f].count \in Nat /\ Limit[f].seconds \in Nat \ {0}
  BY <1>1, WindowFacts DEF LimitTyped
<1>4. /\ new \in [count : Nat, ends : Nat] /\ new.count \in Nat \ {0} /\ clock < new.ends
      /\ clock < old.ends => new.ends = old.ends /\ old.count = new.count - 1
      /\ ~(clock < old.ends) => new.count = 1
  <2>1. CASE clock >= old.ends
    <3>1. new = [[count |-> 0, ends |-> clock + Limit[f].seconds] EXCEPT !.count = @ + 1]
      BY <2>1 DEF NextWindow
    <3>2. new = [count |-> 1, ends |-> clock + Limit[f].seconds]
      BY <3>1
    <3>3. QED
      BY <1>1, <1>3, <2>1, <3>2
  <2>2. CASE ~(clock >= old.ends)
    <3>1. new = [old EXCEPT !.count = @ + 1]
      BY <2>2 DEF NextWindow
    <3>2. new \in [count : Nat, ends : Nat] /\ new.count = old.count + 1 /\ new.ends = old.ends
      BY <1>3, <3>1
    <3>3. QED
      BY <1>1, <1>3, <2>2, <3>2
  <2>3. QED
    BY <2>1, <2>2
<1>5. allowed \in BOOLEAN
  BY <1>3, <1>4
<1> HIDE DEF new, old, allowed
<1>6. /\ DOMAIN admitted' = DOMAIN admitted \cup {key}
      /\ \A k \in DOMAIN admitted : k # key => admitted'[k] = admitted[k]
      /\ key \in DOMAIN admitted => admitted'[key] = admitted[key] + (IF allowed THEN 1 ELSE 0)
      /\ key \notin DOMAIN admitted => admitted'[key] = IF allowed THEN 1 ELSE 0
      /\ \A k \in DOMAIN admitted' : admitted'[k] \in Nat
  <2> HIDE DEF key
  <2>1. QED
    BY <1>1, <1>2, <1>5, TallyCounts
<1>7. /\ windows' \in [Workers -> [Endpoints -> [count : Nat, ends : Nat]]]
      /\ \A w \in Workers, e \in Endpoints :
           windows'[w][e] = IF w = v /\ e = f THEN new ELSE windows[w][e]
  BY <1>1, <1>4 DEF LimitTyped
<1>8. LimitTyped'
  <2>1. rejected' \subseteq DOMAIN admitted'
    BY <1>1, <1>2, <1>6 DEF LimitTyped
  <2>2. QED
    BY <1>1, <1>6, <1>7, <2>1 DEF LimitTyped
<1>9. /\ clock < old.ends => key = OpenWindow(v, f)
      /\ ~(clock < old.ends) => key \notin DOMAIN admitted
      /\ OpenWindow(v, f)' = key
  <2>1. clock < old.ends => key = OpenWindow(v, f)
    BY <1>4 DEF OpenWindow, old
  <2>2. ASSUME key \in DOMAIN admitted PROVE clock < old.ends
    <3>1. PICK w \in Workers, e \in Endpoints : key = OpenWindow(w, e) /\ clock < windows[w][e].ends
      BY <1>1, <2>2 DEF MemoryCounts
    <3>2. w = v /\ e = f
      BY <3>1 DEF OpenWindow
    <3>3. QED
      BY <3>1, <3>2 DEF old
  <2>3. OpenWindow(v, f)' = key
    BY <1>7 DEF OpenWindow
  <2>4. QED
    BY <2>1, <2>2, <2>3
<1>10. /\ admitted'[key] = AtMost(new.count, Limit[f].count)
       /\ key \in rejected' => admitted'[key] >= Limit[f].count
  <2>1. CASE clock < old.ends
    <3>1. /\ key \in DOMAIN admitted /\ admitted[key] \in Nat
          /\ admitted[key] = AtMost(new.count - 1, Limit[f].count)
          /\ key \in rejected => admitted[key] >= Limit[f].count
      BY <1>1, <1>4, <1>9, <2>1 DEF MemoryCounts, LimitTyped, old
    <3>2. admitted'[key] = admitted[key] + (IF new.count <= Limit[f].count THEN 1 ELSE 0)
      BY <1>6, <3>1 DEF allowed
    <3> HIDE DEF key
    <3>3. admitted'[key] = AtMost(new.count, Limit[f].count)
      BY <1>3, <1>4, <3>1, <3>2 DEF AtMost
    <3>4. key \in rejected' => key \in rejected \/ ~(new.count <= Limit[f].count)
      BY <1>2 DEF allowed
    <3>5. key \in rejected => admitted'[key] >= Limit[f].count
      BY <1>3, <3>1, <3>2
    <3>6. ~(new.count <= Limit[f].count) => admitted'[key] >= Limit[f].count
      BY <1>3, <1>4, <3>3 DEF AtMost
    <3>7. QED
      BY <3>3, <3>4, <3>5, <3>6
  <2>2. CASE ~(clock < old.ends)
    <3>1. key \notin DOMAIN admitted /\ key \notin rejected /\ new.count = 1
      BY <1>1, <1>4, <1>9, <2>2 DEF LimitTyped
    <3>2. admitted'[key] = IF 1 <= Limit[f].count THEN 1 ELSE 0
      BY <1>6, <3>1 DEF allowed
    <3>3. key \in rejected' => ~(1 <= Limit[f].count)
      BY <1>2, <3>1 DEF allowed
    <3> HIDE DEF key
    <3>4. QED
      BY <1>3, <3>1, <3>2, <3>3 DEF AtMost
  <2>3. QED
    BY <2>1, <2>2
<1>11. MemoryCounts'
  <2>1. ASSUME NEW w \in Workers, NEW e \in Endpoints, ~(w = v /\ e = f)
        PROVE  /\ OpenWindow(w, e)' = OpenWindow(w, e) /\ OpenWindow(w, e) # key
               /\ windows'[w][e] = windows[w][e]
    BY <1>7, <2>1 DEF OpenWindow
  <2>2. ASSUME NEW k \in DOMAIN admitted'
        PROVE  \E w \in Workers, e \in Endpoints :
                 k = OpenWindow(w, e)' /\ clock' < windows'[w][e].ends
    <3>1. CASE k = key
      BY <1>1, <1>4, <1>7, <1>9, <3>1
    <3>2. CASE k # key
      <4>1. PICK w \in Workers, e \in Endpoints :
              k = OpenWindow(w, e) /\ clock < windows[w][e].ends
        BY <1>1, <1>6, <2>2, <3>2 DEF MemoryCounts
      <4>2. ~(w = v /\ e = f)
        BY <1>9, <3>2, <4>1 DEF old
      <4>3. QED
        BY <1>1, <2>1, <4>1, <4>2
    <3>3. QED
      BY <3>1, <3>2
  <2>3. ASSUME NEW w \in Workers, NEW e \in Endpoints, clock' < windows'[w][e].ends
        PROVE  /\ OpenWindow(w, e)' \in DOMAIN admitted'
               /\ admitted'[OpenWindow(w, e)'] = AtMost(windows'[w][e].count, Limit[e].count)
               /\ OpenWindow(w, e)' \in rejected' =>
                    admitted'[OpenWindow(w, e)'] >= Limit[e].count
    <3>1. CASE w = v /\ e = f
      BY <1>6, <1>7, <1>9, <1>10, <3>1
    <3>2. CASE ~(w = v /\ e = f)
      <4>1. /\ OpenWindow(w, e) \in DOMAIN admitted
            /\ admitted[OpenWindow(w, e)] = AtMost(windows[w][e].count, Limit[e].count)
            /\ OpenWindow(w, e) \in rejected => admitted[OpenWindow(w, e)] >= Limit[e].count
        BY <1>1, <2>1, <2>3, <3>2 DEF MemoryCounts
      <4>2. OpenWindow(w, e) \in rejected' => OpenWindow(w, e) \in rejected
        BY <1>2, <2>1, <3>2
      <4>3. QED
        BY <1>6, <2>1, <3>2, <4>1, <4>2
    <3>3. QED
      BY <3>1, <3>2
  <2>4. QED
    BY <2>2, <2>3 DEF MemoryCounts
<1>12. QED
  BY <1>1, <1>8, <1>11 DEF LimitInv

(* A hit counted in the database, and the sweep it may end with.           *)
LEMMA HitDatabaseKeeps ==
  ASSUME LimitInv, NEW v \in Workers, NEW f \in Endpoints, HitDatabase(v, f)
  PROVE  LimitInv'
<1> DEFINE line == CurrentRow(f)
           key == CurrentKey(f)
           n == Upserted(f)[line]
           allowed == n <= Limit[f].count
<1>1. /\ LimitTyped /\ DatabaseCounts /\ clock \in Nat /\ store = "database"
      /\ UNCHANGED <<clock, store, windows>>
  BY DEF LimitInv, LimitTyped, HitDatabase
<1>2. /\ admitted' = Tally(key, allowed)
      /\ rejected' = IF allowed THEN rejected ELSE rejected \cup {key}
  <2>1. Counted(v, f) = key
    BY <1>1 DEF Counted, CurrentKey
  <2>2. Record(v, f, n)
    BY DEF HitDatabase, CurrentRow
  <2>3. QED
    BY <2>1, <2>2 DEF Record, Allows
<1>3. PICK gone \in SUBSET DOMAIN rows :
        /\ \A r \in gone : r[2] < WindowStart(f)
        /\ rows' = [r \in DOMAIN Upserted(f) \ gone |-> Upserted(f)[r]]
        /\ swept' = swept \cup {<<Shared, r[1], r[2] + Limit[r[1]].seconds>> :
                                  r \in {r \in gone : r[2] + Limit[r[1]].seconds > clock}}
  <2>1. PICK sweep \in BOOLEAN :
          LET gone == IF sweep THEN Sweepable(f) ELSE {}
          IN  /\ rows' = [r \in DOMAIN Upserted(f) \ gone |-> Upserted(f)[r]]
              /\ swept' = swept \cup {<<Shared, r[1], r[2] + Limit[r[1]].seconds>> :
                                        r \in {r \in gone : r[2] + Limit[r[1]].seconds > clock}}
    BY DEF HitDatabase
  <2>2. /\ (IF sweep THEN Sweepable(f) ELSE {}) \in SUBSET DOMAIN rows
        /\ \A r \in (IF sweep THEN Sweepable(f) ELSE {}) : r[2] < WindowStart(f)
    BY DEF Sweepable
  <2>3. QED
    BY <2>1, <2>2
<1>4. \A e \in Endpoints :
        /\ Limit[e].count \in Nat /\ Limit[e].seconds \in Nat \ {0}
        /\ WindowStart(e) \in Nat /\ WindowStart(e) <= clock
        /\ clock < WindowStart(e) + Limit[e].seconds
        /\ CurrentRow(e) = <<e, WindowStart(e)>>
        /\ CurrentKey(e) = <<Shared, e, WindowStart(e) + Limit[e].seconds>>
  BY <1>1, WindowFacts DEF CurrentRow, CurrentKey
<1>5. /\ DOMAIN Upserted(f) = DOMAIN rows \cup {line}
      /\ \A r \in DOMAIN rows : r # line => Upserted(f)[r] = rows[r]
      /\ n = IF line \in DOMAIN rows THEN rows[line] + 1 ELSE 1
      /\ \A r \in DOMAIN Upserted(f) : Upserted(f)[r] \in Nat
      /\ n \in Nat \ {0}
  <2>1. \A r \in DOMAIN rows : rows[r] \in Nat
    BY <1>1 DEF LimitTyped
  <2>2. Upserted(f) = [r \in DOMAIN rows \cup {line} |->
           (IF r \in DOMAIN rows THEN rows[r] ELSE 0) + (IF r = line THEN 1 ELSE 0)]
    BY DEF Upserted, CurrentRow
  <2> HIDE DEF line
  <2>3. /\ DOMAIN Upserted(f) = DOMAIN rows \cup {line}
        /\ \A r \in DOMAIN rows : r # line => Upserted(f)[r] = rows[r]
        /\ Upserted(f)[line] = IF line \in DOMAIN rows THEN rows[line] + 1 ELSE 1
    BY <2>1, <2>2
  <2>4. \A r \in DOMAIN Upserted(f) : Upserted(f)[r] \in Nat
    BY <2>1, <2>3
  <2>5. Upserted(f)[line] \in Nat \ {0}
    BY <2>1, <2>3
  <2>6. QED
    BY <2>3, <2>4, <2>5
<1>6. allowed \in BOOLEAN
  OBVIOUS
<1> HIDE DEF allowed
<1>7. /\ DOMAIN admitted' = DOMAIN admitted \cup {key}
      /\ \A k \in DOMAIN admitted : k # key => admitted'[k] = admitted[k]
      /\ key \in DOMAIN admitted => admitted'[key] = admitted[key] + (IF allowed THEN 1 ELSE 0)
      /\ key \notin DOMAIN admitted => admitted'[key] = IF allowed THEN 1 ELSE 0
      /\ \A k \in DOMAIN admitted' : admitted'[k] \in Nat
  <2> HIDE DEF key
  <2>1. QED
    BY <1>1, <1>2, <1>6, TallyCounts
<1> HIDE DEF line, key, n
<1>8. /\ line \notin gone
      /\ DOMAIN rows' = (DOMAIN rows \cup {line}) \ gone
      /\ line \in DOMAIN rows' /\ rows'[line] = n
      /\ \A r \in DOMAIN rows' : r # line => r \in DOMAIN rows /\ rows'[r] = rows[r]
      /\ \A r \in DOMAIN rows' : rows'[r] \in Nat
  <2>1. line \notin gone
    BY <1>3, <1>4 DEF line
  <2>2. QED
    BY <1>3, <1>5, <2>1 DEF n
<1>9. LimitTyped'
  <2>1. rejected' \subseteq DOMAIN admitted'
    BY <1>1, <1>2, <1>7 DEF LimitTyped
  <2>2. line \in Endpoints \X Nat
    BY <1>4 DEF line
  <2>3. DOMAIN rows' \subseteq Endpoints \X Nat
    BY <1>1, <1>8, <2>2 DEF LimitTyped
  <2>4. QED
    BY <1>1, <1>7, <1>8, <2>1, <2>3 DEF LimitTyped
<1>10. \A e \in Endpoints : /\ WindowStart(e)' = WindowStart(e)
                            /\ CurrentRow(e)' = CurrentRow(e) /\ CurrentKey(e)' = CurrentKey(e)
  BY <1>1 DEF WindowStart, CurrentRow, CurrentKey
<1>11. \A e \in Endpoints :
         /\ CurrentRow(e) \in gone => CurrentKey(e) \in swept'
         /\ CurrentKey(e) \notin swept' => CurrentKey(e) \notin swept
         /\ e # f => CurrentRow(e) # line /\ CurrentKey(e) # key
  <2> SUFFICES ASSUME NEW e \in Endpoints
               PROVE  /\ CurrentRow(e) \in gone => CurrentKey(e) \in swept'
                      /\ CurrentKey(e) \notin swept' => CurrentKey(e) \notin swept
                      /\ e # f => CurrentRow(e) # line /\ CurrentKey(e) # key
    OBVIOUS
  <2>1. ASSUME CurrentRow(e) \in gone PROVE CurrentKey(e) \in swept'
    <3>1. CurrentRow(e)[1] = e /\ CurrentRow(e)[2] = WindowStart(e)
      BY <1>4
    <3>2. CurrentRow(e) \in {r \in gone : r[2] + Limit[r[1]].seconds > clock}
      BY <1>1, <1>4, <2>1, <3>1
    <3>3. CurrentKey(e) = <<Shared, CurrentRow(e)[1], CurrentRow(e)[2] + Limit[CurrentRow(e)[1]].seconds>>
      BY <1>4, <3>1
    <3>4. QED
      BY <1>3, <3>2, <3>3
  <2>2. QED
    BY <1>3, <1>4, <2>1 DEF line, key
<1>12. /\ admitted'[key] >= AtMost(n, Limit[f].count)
       /\ key \notin swept' => admitted'[key] <= AtMost(n, Limit[f].count)
       /\ key \in rejected' => admitted'[key] >= Limit[f].count
  <2>1. /\ line \in DOMAIN rows =>
             key \in DOMAIN admitted /\ admitted[key] >= AtMost(rows[line], Limit[f].count)
        /\ key \in DOMAIN admitted /\ key \notin swept =>
             line \in DOMAIN rows /\ admitted[key] <= AtMost(rows[line], Limit[f].count)
        /\ key \in rejected => admitted[key] >= Limit[f].count
        /\ key \notin swept' => key \notin swept
        /\ key \in rejected => key \in DOMAIN admitted
        /\ key \in DOMAIN admitted => admitted[key] \in Nat
        /\ line \in DOMAIN rows => rows[line] \in Nat
    BY <1>1, <1>11 DEF DatabaseCounts, LimitTyped, line, key
  <2>2. key \in rejected' => key \in rejected \/ ~allowed
    BY <1>2
  <2>3. Limit[f].count \in Nat
    BY <1>4
  <2> DEFINE limit == Limit[f].count
  <2> HIDE DEF limit
  <2>4. /\ limit \in Nat /\ Limit[f].count = limit
        /\ (IF allowed THEN 1 ELSE 0) = (IF n <= limit THEN 1 ELSE 0)
        /\ ~allowed => ~(n <= limit)
    BY <2>3 DEF limit, allowed
  <2>5. CASE line \in DOMAIN rows
    <3>1. /\ rows[line] \in Nat /\ rows[line] = n - 1 /\ admitted[key] \in Nat
          /\ admitted'[key] = admitted[key] + (IF n <= limit THEN 1 ELSE 0)
      BY <1>5, <1>7, <2>1, <2>4, <2>5
    <3>2. /\ admitted[key] >= AtMost(n - 1, limit)
          /\ key \notin swept' => admitted[key] <= AtMost(n - 1, limit)
          /\ key \in rejected => admitted[key] >= limit
      BY <2>1, <2>4, <2>5, <3>1
    <3> DEFINE before == admitted[key]
               after == admitted'[key]
    <3>3. /\ n \in Nat /\ limit \in Nat /\ before \in Nat
          /\ after = IF n <= limit THEN before + 1 ELSE before
          /\ before >= IF n - 1 <= limit THEN n - 1 ELSE limit
          /\ key \notin swept' => before <= IF n - 1 <= limit THEN n - 1 ELSE limit
      <4>1. n \in Nat /\ limit \in Nat
        BY <1>5, <2>4
      <4>2. AtMost(n - 1, limit) = IF n - 1 <= limit THEN n - 1 ELSE limit
        BY DEF AtMost
      <4>3. QED
        BY <3>1, <3>2, <4>1, <4>2
    <3> HIDE DEF before, after
    <3>4. /\ after >= IF n <= limit THEN n ELSE limit
          /\ key \notin swept' => after <= IF n <= limit THEN n ELSE limit
      BY <3>3
    <3>8. /\ admitted'[key] >= AtMost(n, limit)
          /\ key \notin swept' => admitted'[key] <= AtMost(n, limit)
      BY <3>4 DEF AtMost, before, after
    <3>5. key \in rejected => admitted'[key] >= limit
      BY <2>4, <3>1, <3>2
    <3>6. ~(n <= limit) => admitted'[key] >= limit
      BY <3>8 DEF AtMost
    <3>7. QED
      BY <2>2, <2>4, <3>5, <3>6, <3>8
  <2>6. CASE line \notin DOMAIN rows
    <3>1. /\ n = 1 /\ (key \in DOMAIN admitted => key \in swept')
          /\ (IF allowed THEN 1 ELSE 0) = (IF 1 <= limit THEN 1 ELSE 0)
          /\ AtMost(n, limit) = (IF 1 <= limit THEN 1 ELSE limit)
          /\ ~allowed => limit = 0
      BY <1>5, <2>1, <2>4, <2>6 DEF AtMost
    <3>2. CASE key \in DOMAIN admitted
      <4>1. /\ admitted'[key] = admitted[key] + (IF 1 <= limit THEN 1 ELSE 0)
            /\ admitted[key] \in Nat /\ key \in swept'
        BY <1>7, <2>1, <3>1, <3>2
      <4>2. admitted'[key] >= AtMost(n, limit) /\ (limit = 0 => admitted'[key] >= limit)
        BY <2>4, <3>1, <4>1
      <4>3. key \in rejected => admitted'[key] >= limit
        BY <2>1, <2>4, <4>1
      <4>4. QED
        BY <2>2, <2>4, <3>1, <4>1, <4>2, <4>3
    <3>3. CASE key \notin DOMAIN admitted
      <4>1. /\ admitted'[key] = (IF 1 <= limit THEN 1 ELSE 0)
            /\ key \in rejected' => limit = 0
        BY <1>7, <2>1, <2>2, <3>1, <3>3
      <4>2. admitted'[key] = AtMost(n, limit) /\ admitted'[key] \in Nat /\ AtMost(n, limit) \in Nat
        BY <2>4, <3>1, <4>1
      <4>3. QED
        BY <2>4, <4>1, <4>2
    <3>4. QED
      BY <3>2, <3>3
  <2>7. QED
    BY <2>5, <2>6
<1>13. DatabaseCounts'
  <2>1. ASSUME NEW r \in DOMAIN rows' PROVE r[2] <= WindowStart(r[1])'
    <3>1. CASE r = line
      BY <1>4, <1>10, <3>1 DEF line
    <3>2. CASE r # line
      <4>1. r \in DOMAIN rows /\ r[1] \in Endpoints
        BY <1>1, <1>8, <2>1, <3>2 DEF LimitTyped
      <4>2. QED
        BY <1>1, <1>10, <4>1 DEF DatabaseCounts
    <3>3. QED
      BY <3>1, <3>2
  <2>2. ASSUME NEW k \in DOMAIN admitted' PROVE \E e \in Endpoints : k = CurrentKey(e)'
    BY <1>1, <1>7, <1>10, <2>2 DEF DatabaseCounts, key
  <2>3. ASSUME NEW e \in Endpoints
        PROVE  /\ CurrentRow(e) \in DOMAIN rows' =>
                    /\ CurrentKey(e) \in DOMAIN admitted'
                    /\ admitted'[CurrentKey(e)] >= AtMost(rows'[CurrentRow(e)], Limit[e].count)
               /\ CurrentKey(e) \in DOMAIN admitted' /\ CurrentKey(e) \notin swept' =>
                    /\ CurrentRow(e) \in DOMAIN rows'
                    /\ admitted'[CurrentKey(e)] <= AtMost(rows'[CurrentRow(e)], Limit[e].count)
               /\ CurrentKey(e) \in rejected' =>
                    admitted'[CurrentKey(e)] >= Limit[e].count
    <3>1. CASE e = f
      BY <1>7, <1>8, <1>12, <3>1 DEF line, key
    <3>2. CASE e # f
      <4>1. /\ CurrentRow(e) # line /\ CurrentKey(e) # key
            /\ CurrentRow(e) \in gone => CurrentKey(e) \in swept'
            /\ CurrentKey(e) \notin swept' => CurrentKey(e) \notin swept
        BY <1>11, <3>2
      <4>2. /\ CurrentRow(e) \in DOMAIN rows' => CurrentRow(e) \in DOMAIN rows
            /\ CurrentRow(e) \in DOMAIN rows /\ CurrentRow(e) \notin gone =>
                 CurrentRow(e) \in DOMAIN rows'
            /\ CurrentRow(e) \in DOMAIN rows' => rows'[CurrentRow(e)] = rows[CurrentRow(e)]
            /\ CurrentKey(e) \in DOMAIN admitted' <=> CurrentKey(e) \in DOMAIN admitted
            /\ CurrentKey(e) \in DOMAIN admitted =>
                 admitted'[CurrentKey(e)] = admitted[CurrentKey(e)]
            /\ CurrentKey(e) \in rejected' => CurrentKey(e) \in rejected
            /\ rejected \subseteq DOMAIN admitted
        BY <1>1, <1>2, <1>7, <1>8, <4>1 DEF LimitTyped
      <4>3. /\ CurrentRow(e) \in DOMAIN rows =>
                 /\ CurrentKey(e) \in DOMAIN admitted
                 /\ admitted[CurrentKey(e)] >= AtMost(rows[CurrentRow(e)], Limit[e].count)
            /\ CurrentKey(e) \in DOMAIN admitted /\ CurrentKey(e) \notin swept =>
                 /\ CurrentRow(e) \in DOMAIN rows
                 /\ admitted[CurrentKey(e)] <= AtMost(rows[CurrentRow(e)], Limit[e].count)
            /\ CurrentKey(e) \in rejected => admitted[CurrentKey(e)] >= Limit[e].count
        BY <1>1 DEF DatabaseCounts
      <4>4. QED
        BY <4>1, <4>2, <4>3
    <3>3. QED
      BY <3>1, <3>2
  <2>4. ASSUME NEW e \in Endpoints
        PROVE  /\ CurrentRow(e)' \in DOMAIN rows' =>
                    /\ CurrentKey(e)' \in DOMAIN admitted'
                    /\ admitted'[CurrentKey(e)'] >= AtMost(rows'[CurrentRow(e)'], Limit[e].count)
               /\ CurrentKey(e)' \in DOMAIN admitted' /\ CurrentKey(e)' \notin swept' =>
                    /\ CurrentRow(e)' \in DOMAIN rows'
                    /\ admitted'[CurrentKey(e)'] <= AtMost(rows'[CurrentRow(e)'], Limit[e].count)
               /\ CurrentKey(e)' \in rejected' =>
                    admitted'[CurrentKey(e)'] >= Limit[e].count
    BY <1>10, <2>3
  <2>5. QED
    BY <2>1, <2>2, <2>4 DEF DatabaseCounts
<1>14. QED
  BY <1>1, <1>9, <1>13 DEF LimitInv

-----------------------------------------------------------------------------
(* The invariant holds, and the limit is the limit.                        *)

\* The invariant holds in every run, under either store.
LEMMA LimitInvHolds == RateLimitSpec => []LimitInv
<1>1. RateLimitInit => LimitInv
  <2> SUFFICES ASSUME RateLimitInit PROVE LimitInv
    OBVIOUS
  <2>1. /\ clock = 0 /\ store \in {"database", "memory"}
        /\ DOMAIN rows = {} /\ DOMAIN admitted = {} /\ rejected = {}
        /\ windows = [w \in Workers |-> [e \in Endpoints |-> NoWindow]]
    BY DEF RateLimitInit
  <2>2. LimitTyped
    BY <2>1 DEF LimitTyped, NoWindow
  <2>3. DatabaseCounts
    BY <2>1 DEF DatabaseCounts
  <2>4. MemoryCounts
    BY <2>1 DEF MemoryCounts, NoWindow
  <2>5. QED
    BY <2>2, <2>3, <2>4 DEF LimitInv
<1>2. LimitInv /\ [RateLimitNext]_limitVars => LimitInv'
  <2> SUFFICES ASSUME LimitInv, [RateLimitNext]_limitVars PROVE LimitInv'
    OBVIOUS
  <2>1. CASE UNCHANGED limitVars
    BY <2>1 DEF limitVars, LimitInv, LimitTyped, DatabaseCounts, MemoryCounts, CurrentRow,
                CurrentKey, WindowStart, OpenWindow
  <2>2. CASE RateLimitNext
    BY <2>2, LimitTickKeeps, RestartKeeps, HitMemoryKeeps, HitDatabaseKeeps DEF RateLimitNext
  <2>3. QED
    BY <2>1, <2>2
<1>3. QED
  BY <1>1, <1>2, PTL DEF RateLimitSpec

(* A limit lets its whole count through before it refuses anybody in that  *)
(* window, and no more unless a sweep ended the window early: with either  *)
(* store, for any limits, and whichever workers restart.                   *)
THEOREM ALimitIsTheLimit == RateLimitSpec => []LimitIsTheLimit
<1>1. LimitInv => LimitIsTheLimit
  <2> SUFFICES ASSUME LimitInv, NEW key \in DOMAIN admitted
               PROVE  /\ key \in rejected => admitted[key] >= Limit[key[2]].count
                      /\ key \notin swept => admitted[key] <= Limit[key[2]].count
    BY DEF LimitIsTheLimit
  <2>1. LimitTyped /\ clock \in Nat
    BY DEF LimitInv, LimitTyped
  <2>2. CASE store = "database"
    <3>1. PICK e \in Endpoints : key = CurrentKey(e)
      BY <2>2 DEF LimitInv, DatabaseCounts
    <3>2. key[2] = e /\ Limit[e].count \in Nat
      BY <2>1, <3>1, WindowFacts DEF CurrentKey
    <3>3. key \in rejected => admitted[key] >= Limit[e].count
      BY <2>2, <3>1 DEF LimitInv, DatabaseCounts
    <3>4. key \notin swept => /\ CurrentRow(e) \in DOMAIN rows
                              /\ admitted[key] <= AtMost(rows[CurrentRow(e)], Limit[e].count)
      BY <2>2, <3>1 DEF LimitInv, DatabaseCounts
    <3>5. admitted[key] \in Nat /\ \A r \in DOMAIN rows : rows[r] \in Nat
      BY <2>1 DEF LimitTyped
    <3>6. QED
      BY <3>2, <3>3, <3>4, <3>5 DEF AtMost
  <2>3. CASE store = "memory"
    <3>1. PICK w \in Workers, e \in Endpoints :
            key = OpenWindow(w, e) /\ clock < windows[w][e].ends
      BY <2>3 DEF LimitInv, MemoryCounts
    <3>2. key[2] = e /\ Limit[e].count \in Nat /\ windows[w][e].count \in Nat
      BY <2>1, <3>1, WindowFacts DEF OpenWindow, LimitTyped
    <3>3. /\ admitted[key] = AtMost(windows[w][e].count, Limit[e].count)
          /\ key \in rejected => admitted[key] >= Limit[e].count
      BY <2>3, <3>1 DEF LimitInv, MemoryCounts
    <3>4. QED
      BY <3>2, <3>3 DEF AtMost
  <2>4. QED
    BY <2>1, <2>2, <2>3 DEF LimitTyped
<1>2. QED
  BY <1>1, LimitInvHolds, PTL

=============================================================================
