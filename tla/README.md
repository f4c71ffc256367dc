# Verification of massingplan

TLA+ models of massingplan, a construction scheduler: a critical-path engine in
plain Python (`massingplan/core`), the studies made of its results, services
that keep projects, baselines, boards, accounts and webhooks in a database
(`massingplan/services`), and a Flask application over them. TLC checks the
models on small instances; TLAPS proves the theorems listed below for every
value of the constants. Paths in this file are relative to `src/massingplan/`,
those of tests to `src/`.

Contents: [the system](#the-system) · [the modules](#the-modules) ·
[the runs](#the-runs) · [fairness](#fairness) · [the proofs](#the-proofs) ·
[disagreements found](#disagreements-between-the-code-and-its-documents) ·
[other behaviour met](#other-behaviour-met-while-modelling) ·
[what is not modelled](#what-is-only-model-checked-and-what-is-not-modelled) ·
[plan](#plan)

## The system

| Component | State it keeps | Operations | What is hard | What makes it correct |
|---|---|---|---|---|
| Time axis `core/timeaxis.py` | none; a calendar bound to a window is a sorted list of working days | snap a start or a finish forward or back, add, subtract and count working days, span from start and from finish | two spaces (start instants, finish boundaries), zero-length spans, holidays, window edges | snapping is monotone; the span conversions undo each other |
| Network graph `core/graph.py` | in-degrees, ready queue, order, all local to one call | `topological_order`, `find_cycle`, `driving_chain`, validation | duplicated links, self-links, loops with tails, determinism | each activity once, predecessors first, an error exactly when there is a loop |
| Progress `core/progress_logic.py` | none | derive status and remaining days, suppress contradicted links | finished work with remaining days left behind, banker's rounding | history is kept; override never dates later |
| Constraints `core/constraints.py` | none | floor on the early dates, cap on the late ones, violation test | eleven types, each binding one side of one pass | the effects table |
| Engine `core/cpm.py`, `core/network.py` | dates of one run | `calculate()`: validation, sort, forward pass, deadline, backward pass, as-late-as-possible post-pass, floats | order of passes, ties, precedence of actuals, data date, constraints and logic, lag calendars | each date is the least the links and the field allow; float can be spent |
| Presented schedule `core/schedule.py` | none | turns instants into dates to show and store | milestones, finish boundaries | what is shown is what was computed |
| Levelling `core/levelling.py`, `core/resources.py` | the resource profile being filled | serial generation by priority, over-allocations before and after | capacity steps, calendars of resources, pinned work, work that fits nowhere | no day above capacity, logic kept, the finish kept when asked |
| Quality checks `core/health.py` | none | fourteen checks, one of which reruns the engine | excused open ends, the probe, open work | a pass is worth something |
| Measures `core/progress.py`, `core/earned.py`, weather `core/weather.py` | none; exceptions in a calendar | report, earned schedule, apply and remove allowances | flat stretches of a curve, days lost twice | lateness means lateness; an allowance costs the days it names where the code says it can |
| Comparison, delays `core/compare.py`, `windows.py`, `modelled.py` | none | match, list changes, attribute a move, impose or remove events | ambiguous codes, windows in order, rerouted links | nothing lost; delays add up |
| Compression, portfolio, locations, takt `core/compression.py`, `portfolio.py`, `locations.py`, `takt.py` | the plan being compressed | greedy purchase of days, merge of projects, line shift, trains | each purchase changes the next; links across projects; work rounded up | the promised finish is delivered; lines can be walked |
| Last planner `core/lastplanner.py`, `services/production.py` | weeks, commitments, constraints | open a week, commit, assess, clear a constraint | legal order of calls, concurrent planners | refused promises leave nothing; rows stay readable |
| Projects `services/projects.py`, `services/repository.py` | projects, plans, baselines, locations, trades, audit trail | import, reschedule, set a baseline, delete, save locations, add and delete trades | two requests on one project | list and page agree; the trail tells what was committed |
| Accounts, limits `services/accounts.py`, `services/mfa.py`, `services/ratelimit.py` | users, failure counters, second factors, sessions, request windows | sign in by password or identity provider, enrol, lock out, switch organisation, register, count a request | rows another request changed since, window edges, sweeps | sessions are proven; limits hold |
| Webhooks `services/webhooks.py`, `models/webhooks.py`, `cli.py` | endpoints, deliveries | subscribe, emit, drain, deactivate, delete | overlapping drains, retries, crashes, deletion in mid-drain | see `Outbox` |
| Access control, risk, interchange formats, identity providers, storage, transports, rendering | | I/O, statistics, text conversion, fixed tables | | |

How they interact: a route in `blueprints/` or `api/` opens a database session
for the request; a service reads the project, `repository.to_network` turns it
into an immutable network, `core/schedule.py` calls `cpm.calculate`, which binds
calendars (time axis), asks the graph for an order, and for each activity asks
progress and constraints for floors and caps; the result is written back in the
same transaction. Levelling and the checks start from that result, and the checks
run the engine once more; the studies call it as a function, some of them many
times. Importing a plan and setting a baseline also emit an event, in their own
transaction. `massingplan webhooks drain`, started by cron each minute in a
process of its own, posts what was queued. The engine and the studies are
sequential and hold no state between calls: their hard behaviour is the order in
which passes and loops read and overwrite dates. The database rows are where
processes meet.

## The modules

| Module | Code | What it is |
|---|---|---|
| `TopologicalOrder` | contract of `core/graph.py` | abstract: activities are placed one at a time, each after its predecessors, or the network is refused because of a loop |
| `KahnSort` | `core/graph.py` | Kahn's algorithm: seeding, the ready queue, releasing one link at a time, then the walk that names a loop |
| `TimeAxis` | `core/timeaxis.py` | calendar arithmetic as operators over a finite set of working instants |
| `Activities` | `core/progress_logic.py`, `core/constraints.py` | status, remaining days, durations, constraint table, floors, caps, violation test |
| `CPM` | `core/cpm.py`, `core/network.py`, parts of the two above | `calculate()` as a state machine: extends `KahnSort`, whose actions are its sort phase |
| `CPMProperties` | | what the dates and floats promise; `Rerun`, a second and declarative formulation of the forward pass; the inductive invariant |
| `Schedule` | `core/schedule.py` | extends `CPM`: spans of instants as pairs of dates |
| `Levelling`, `LevellingProperties` | `core/levelling.py`, `core/resources.py` | extends `Schedule`: one placement per step once the calculation is done |
| `Health`, `HealthProperties` | `core/health.py`, its callers | extends `Schedule`: thirteen checks read the dates, then the probe sets the same engine's variables back and runs it again, step by step |
| `PlainNetwork` | `core/cpm.py` | the engine as a function, for studies that call it many times |
| `Comparison` | `core/compare.py` | extends `PlainNetwork`: matching, changes, attribution |
| `DelayAnalysis` | `core/windows.py`, `core/modelled.py` | extends `Comparison`: windows, impacted as planned, collapsed as built |
| `Compression`, `Portfolio`, `LineOfBalance`, `Takt` | the modules of `core` they are named for (`core/locations.py`) | extend `PlainNetwork` |
| `Measures`, `Weather` | `core/progress.py`, `core/earned.py`, `core/weather.py`, `core/model.py` | on top of `Activities` and `TimeAxis` |
| `Studies`, `StudyProperties` | `api/schedules.py`, `services/projects.py` | one action per handler: it refuses, has nothing to show, or answers; composes the eight modules above |
| `Projects` | `services/projects.py`, `services/repository.py`, routes of `blueprints/main.py` | requests between load and commit; list, page, baselines, audit trail, queued events |
| `Breakdown` | `services/repository.py`, routes | locations, trades and quantities |
| `LastPlanner` | `core/lastplanner.py`, `services/production.py`, routes | the weekly board |
| `RateLimit` | `services/ratelimit.py` | memory and table stores, workers, sweep |
| `Accounts`, `Registration` | `services/accounts.py`, `services/mfa.py`, `blueprints/auth.py`, `blueprints/deps.py` | sign-in and session; new accounts |
| `ServiceProperties` | | what stored state promises under two clients |
| `Outbox` | promise of `models/webhooks.py` | abstract: an event queued for an endpoint is settled once, in the end, or goes with its endpoint |
| `Webhooks`, `WebhookProperties` | `services/webhooks.py`, `cli.py`, delete page | endpoints, deliveries, requests, drains as database transactions; the refinement of `Outbox` |
| `TimeAxis_proof`, `CPM_proof`, `Analysis_proof` | | theorems about the calendars; the sort and the calculation; and levelling, milestones and the health checks |
| `Webhooks_proof`, `Services_proof` | | theorems about the delivery queue, and about what the other services store: accounts and sessions, boards, projects, breakdowns and limits |
| `Studies_proof`, `Answers_proof`, `Reports_proof` | | theorems about the engine as a function, programmes of projects and the analysis of delay; about comparisons and compressions; about measures and weather |
| `MCCPM`, `MCAnalysis`, `MCServices`, `MCWebhooks` | | instances for TLC; `MCCPM` starts from several sets of networks, the last three hold several scenes; a behaviour stays in one |

**Sort.** `nodes` is the declaration list, `edges` the function from a link's
position to its two ends; `order`, `queue` and `degree` are the locals of
`topological_order`, `current` and `pos` the node and the link of the inner
loop. `Walk` is one turn of `find_cycle`'s loop. When `order` is short the sort
does not return but raises, with the walked path as the name of the loop.

**Time.** An instant is an integer number of days. A start is a working day; a
finish is a boundary, the instant after the last working day, as in the code.
`LatticeOf` builds a calendar from weekdays, holidays and extra days. The code's
sorted list plus `bisect` becomes a set plus counting; the operator that adds
working days picks the instant that lies that many working days away.

**Engine.** The state is the locals of `calculate()`: early and late dates,
drivers, deadline, terminal activity, floats, and the loop counters (`phase`,
`at` over activities, `cand` over the links of one activity, `bound` and
`driver`). One iteration of a loop is one step. The network, its options and the
data date are the record `net`, chosen in the initial state; the progress mode
drops links before the sort, as `effective_links` does.

**Levelling.** `pool` is the request (demands, capacities, horizon), `span` the
days of what has been placed, `unfit` what fitted nowhere, `moves` the report.
Started and finished work is pinned and fills the profile first; each
step takes the next activity in priority order, bounds it by predecessors where
they now stand, and tries day after day until every resource is free on every
day or the horizon ends the search.

**Checks.** `checks` are the thirteen read from dates; `probe` remembers the
driving path and the finish while `CPM` calculates the delayed network, then
check 12 is filled in. The scaled thresholds are constants.

**Studies.** `request` is what was asked, `answer` what is returned. Every
handler is one action except compression, whose greedy loop is one step per day
bought. On `PlainNetwork`: the studies are about links, durations and finishes,
so it keeps link types, lags, floors and floats, on unstarted work, a calendar
that works every day and data date 0; `CPM` is where calendars, progress and
constraints are checked. Measures and weather keep their calendars. Fractions
are kept exact: earned work in grains of a day, earned offsets as pairs of
numerator and denominator. The weather handler answers when the work fits the
window the calendars are bound to, with the allowance and without (`CanCost`); where it
does not, the engine raises and the request is refused. What a handler may be given
is `IsRequest`, a case for each study.

**Services.** A request is two or three steps: `Load...` reads the rows it works
on, an optional decision, `Commit...` writes. Two clients interleave at those
points; the last writer of a column wins, a row that is gone or a unique key that
is taken ends the transaction, as under PostgreSQL's READ COMMITTED with
SQLAlchemy's sessions. In `Projects` a plan is the number of the revision that
was imported. In `Breakdown` a row carries the write that made it, in place of
its key, so that rows replaced under the same name are told apart. `raced`,
`crossed`, `overlapped`, `swept`, `proof`, `streak`, `trail` are what properties
speak of; where a promise holds only while requests do not overlap, the property
names the one that says so. In `Accounts` a user is one that registered or one that
came by SSO. The first enters by `SignIn`, which finds it by a membership: a user in no
organisation is an unknown address, whose refused passwords are neither counted nor
locked out. (The answer of `blueprints/auth.py:56-62` to a user without one would need the
last membership to go between two adjacent reads, which the model takes as one
moment.) The second enters by `SsoCallback`, which asks for no password, no lock and no
second factor; its own password is random, so `SignIn` always refuses it and `Disable`
never gets past it. `proof` keeps which door a session came through.

**Webhooks.** A drain is one transaction around every post it makes
(`cli.py:89`). The model follows a session: `list` is what `due()` returned,
with the attempts loaded then; `Attempt` is `deliver()` up to its first flush;
`Write` is the flush of one row, which takes the row's lock and waits for it;
`Commit` writes the changed columns; `Stale` is SQLAlchemy's error when a flush
finds its row gone, `BreakDeadlock` PostgreSQL's, `Crash` the end of the
process: each loses all the drain recorded, though the posts were made. What
SQLAlchemy and PostgreSQL do (only columns with a net change are written; row
locks are held to the end of the transaction; a waiter gets the lock of the
transaction that was ended) is marked external. The database is PostgreSQL at
READ COMMITTED, as deployed; SQLite's lock on the whole database, which rules
overlapping writers out, is not modelled. A delete waits until no drain holds a
row it will delete. `tries`, `accepted`, `refused`, `calm` and `crashes` are
history, read by properties and by the bound on crashes only.

## The runs

| Run | Question | Bounds | States |
|---|---|---|---|
| `cpm` | is the sort right, and does it implement `TopologicalOrder`, termination included? early dates: least, explained, equal to the second formulation, the field before the plan; late dates, floats spent and rescheduled; the post-pass | 3 activities; for the sort every list of at most 4 links, duplicates and loops included; 2 calendars, the sets of networks below | 217 thousand |
| `analysis` | what is made of a schedule: presentation, levelling, checks, studies | 4 activities for levelling and checks, plans of 3 for studies; see below | 121 thousand |
| `services` | what stored state promises whatever two requests do between read and commit | 2 clients, 7 scenes; see below | 1.52 million |
| `webhook_overlap` | what rows may say under any interleaving | 2 drains, 2 deliveries to one endpoint, 1 retry, switch-off at 2, 1 crash | 1.03 million |
| `webhook_outbox` | refinement of `Outbox`, liveness included | 2 drains around 1 delivery with 2 crashes; 1 drain, 3 deliveries, 2 endpoints, limit 2 | 198 thousand |
| `cpm_alap`, `levelling_milestone`, `comparison_renumbered`, `health_probe`, `factor`, `baselines`, `webhook_duplicate` | the disagreements below | | until the violation |

Properties, by run:

- `cpm`, of the sort: `KahnInv`, `RootsKeepDeclarationOrder`, `SortTerminates`,
  `ImplementsTopologicalOrder`; of the calculation: `CPMTypeOK`, `CPMInv`; `StartIsLeast` (links honoured, each start
  explained by what set it), `ForwardPassIsLongestPath`, `FieldOutranksPlan`
  (data date a floor, history kept), `MissedCapIsNegativeFloat`,
  `OverrideNeverLater`, `LateFinishCapped`, `TotalFloatIsExact` (it can be spent,
  a day more cannot, the longest path has none), `FreeFloatCanBeSpent`,
  `AlapKeepsPlainLinks`, `AlapOnlyLater`.
- `analysis`: `MovedWithinBounds`, `NothingOverbooked`, `MilestoneClosesWork`,
  `HealthIsHonest`, `ComparisonIsComplete`, `DelaysAddUp`, `PlanIsDeliverable`,
  `ProjectsAgree`, `LinesHold`, `MeasuresAgree`, `AllowanceIsLost`.
- `services`: `ListAgreesWithPage`, `TrailTellsWhatHappened`,
  `BreakdownIsAsTyped`, `BoardStaysReadable`, `LimitIsTheLimit`,
  `SessionsAreProven` (each session by the word of the identity provider, or a
  password and, where there was a second factor, a code), `CountersFollowTheStory`,
  `OneTenantEach`. A client may
  stop asking in any state, so this run does not ask for absence of deadlock.
- `webhook_overlap`: `WebhookTypeOK`, `RecordsAreTrue`, `SwitchedOffRightly`,
  `NothingComesBack`; `webhook_outbox`: `ImplementsOutbox`.

Why these bounds are enough to mean something.

*Sort and engine.* Three activities and four links give every shape the sort
tells apart: a chain, a fork, a join, a triangle, a loop of two or three, a loop
with a tail in either direction, a link declared twice. In the engine each
choice is local to an activity, to a link, or to a pair of links that meet
(ties, several predecessors, an open end next to a driven one), and a triangle
has all of them; both calendars have weekends of one day in four so that every
span of interest crosses one, one has a holiday, and the window is wide enough
that every date stays inside it (`CPMTypeOK` checks that for started and
unstarted work). The sets of networks in `MCCPM` are each aimed at one part of
the code: all link types with leads and lags; all dated constraints on either
side of a lagged link; started, finished and half-finished work under both
modes; loops that progress override opens; every lag calendar; late-as-possible
work; a contract date.

*Levelling and checks.* Four activities on two calendars, in three shapes (two
before one, a row with one beside it, one before two), unstarted, begun or
finished; a crane of one and a crew of two with a calendar of its own and a day
on which one is away; demands that compete, that ask for more than there is, and
that ask twice for one resource; both horizons. The search of the unbounded
horizon, 400 days in the code, is 12 here, and no work in these networks needs
more. The thresholds of the checks (44 days of float, 44 of duration, a probe of
600) are scaled to 3, 2 and 5 so that activities fall on both sides of each, and
the probe still spans a weekend. Their percentages are the
code's, so one activity in four is always too many. The plans assessed include rings
that progress override opens, since the check of logic reads the links that the sort
does not, and plans whose lags are counted on another calendar or in calendar days.

*Studies.* Plans of three activities in six shapes, with leads, lags and
start-to-start and finish-to-finish overlap; series of up to three updates, in
order and out of order; up to two delay events with and without onset, sharing
work or not; prices and limits that make the cheapest option change as days are
bought, and targets that can and cannot be reached; two projects with up to two
links between them, either way round; two or three trades over up to three
places; months of ten days, years of two months, so that an allowance repeats,
with weeks of seven days and shutdowns. Each request also comes in the forms its
handler refuses.

*Services.* Two clients show every overlap of two requests, and these requests
only read and write once. Two projects, two names and three revisions let a
baseline outlive a revision and a project be deleted under one; three committed
writes let a list be replaced twice while a form is open; two promises in one
week, on the Monday and the day after, bring every state a promise has on the
board; a window of 2 hits in 4 seconds beside one of 1 hit in 2 gives the sweep
windows to remove too early; two refused passwords lock an account for a minute. The
account has two scenes: requests that may overlap, within one minute, with up to three
refusals and enrolments or one of them and a departure (from an organisation, or the
account disabled); and requests answered one at a time, with five refusals, which lock the
account twice over and go on, and up to three enrolments and departures, the last
membership among them. An enrolment issues two recovery codes. Three
users leave a third registration after any race. Clients and names are interchangeable,
so the run uses their symmetry.

*Queue.* One retry makes first, middle and last attempts differ; two failures
switch off, so counting and clearing interleave; two drains and two rows make
deadlocks; a limit of two under three deliveries makes the order of `due()`
matter. Drains and changes are symmetric in the safety run of the queue; no
symmetry is used where liveness is checked. `webhook_overlap` uses no liveness,
since with two drains on two deliveries the database may end one, then the
other, for ever: nothing in the code prevents it and nothing fair about
PostgreSQL rules it out. With one delivery or one drain, the two scenes of
`webhook_outbox`, the promise holds in full.

Some properties hold on less than every input, and their antecedents say where.
Each exclusion is a behaviour of the code met while modelling:

- start-to-finish lags are counted in start space going forward and in finish
  space going back (`core/cpm.py:226-242`, `261-276`), which can cost a day of
  float;
- total float is overstated on links with leads, or lags counted on a calendar
  that the work at one end does not keep, and a 24-hour lag leaves float on the
  driving chain;
- free float is counted on the predecessor's calendar (`core/cpm.py:563`) and is
  overstated when the successor keeps another;
- the post-pass ignores lags and link types other than finish-to-start
  (`core/cpm.py:643-653`), so `AlapKeepsPlainLinks` speaks of plain links only; it
  excludes begun work that is redrawn with other days than it was drawn with
  (`RedrawnAlike`), and a milestone whose room ends on a day its calendar does
  not work (`RoomIsWhole`);
- a finish milestone closes its work except where the post-pass may take it away
  from it, or that work ended on a day the milestone's calendar does not work;
  the project finish shows on the same day when whatever else ends by then
  (`EndsWith`) does so on a day of that calendar (`core/schedule.py:149-171`);
- a soft cap on a non-working day shows as negative float without being listed
  as violated (`core/constraints.py:207-213`);
- the `actual_dates` mode changes nothing in the passes
  (`core/progress_logic.py:235`), so the runs use the other two;
- levelling keeps the finish for schedules that are not late already and whose
  work is not held by constraints (`NothingLate`); it passes over milestones, and
  checks two demands of one activity for one resource one at a time
  (`Unchecked`);
- an id given to other work under a code may lose its entry in a comparison
  (`Reissued`), and links are compared by their last copy (`NoneTwice`);
- a calendar loses fewer days than an allowance names where some are extra work days or a
  later allowance names it too (`MonthLoses`);
- a session begun through the identity provider is asked for no code (`proof`);
- an overlapped request may leave two current baselines, an assessment the
  engine will not read (`raced`), a counter behind its story (`crossed`), a flow
  that is not the last list (`overlapped`) and a window ended early by a sweep
  (`swept`).

## Fairness

- The sort is one call that waits for nobody: `WF` on its next step says that the
  process runs on.
- `calculate()`, levelling, the checks and the studies need none: their
  properties are safety, their loops run over finite lists, and TLC's deadlock
  check shows they never stop before the answer.
- Time passes and cron starts drains: `WF` of `Tick` and of `StartDrain`. A
  subscriber is given ten seconds (`TIMEOUT_SECONDS`) and the database grants
  a lock that is free: `SF` of a drain's step, strong because another drain may
  hold the lock again and again in between. Nothing is assumed of requests:
  no endpoint need be created or deleted and a request may stay open.

## The proofs

All leaves are checked by TLAPS (SMT, Zenon, LS4). The assumptions are those the
modules state: the declaration list has each activity once, links join declared
activities, a network has the fields the engine reads, working instants are finite
sets of integers, `None` is no activity, no instant, no span, no move, no index and
no row, ids are ordered (`IdAssumption`), a baseline holds dates (`ReviewAssumption`), a request of a study is one its handler can be
given (`AskedAssumption`), sets of changes, endpoints and clients are
finite, a ranking has each key once, capacities are not negative, demands are a finite
numbered list of whole units, and at least one day is tried. Nothing bounds the number of activities, links, calendars, lags,
resources, drains, deliveries, users or requests. Each inductive invariant was
first an invariant of a run of TLC. Where the code would run off the bound window
and raise, the operators return the instant they were given: the two span
theorems exclude that; the theorems about `CPM` and `Levelling` hold with it, so
they hold of every run that returns; those that do not (missed caps, types, floats,
progress override, bounded moves, health checks) name their window in the statement.

**The sort** (`CPM_proof`). The order alone is not inductive: that a node
released by its last predecessor has all predecessors placed needs the degrees
to mean something. `KahnInv` says that a degree is the number of links into a
node whose source has not been released (`DegreesCount`), the queue and order
together hold exactly the nodes of degree zero, without repetition, and links
before `pos` of the node in hand have been released. From it: predecessors come
first (`OrderCorrect`), nothing is placed twice however often a link is
declared, a success has placed everything, and a refusal is real: everything
left waits on something left. `KahnImplementsTopologicalOrder` gives the step
simulation: `Dequeue` places, `Finish` answers, the rest stutters.
`RootsStayInOrder` needs that the activities without predecessors, read off the
order and then the queue, are the roots met so far in the order of declaration:
seeding appends them last, and nothing released later is a root.

**The engine** (`CPM_proof`). `CPMRunsTheSort` shows that the calculation, seen
at the sort's variables, is a run of the sort, so every theorem above holds in
it. `Structure` adds what each phase relies on, above all `DatedPrefix`: the
forward pass has dated exactly the activities it has passed, so with
predecessors first, every date it reads exists. `LinksConsidered` is the loop
invariant of the predecessors: `bound` is the greatest bound so far and
`driver` set it. With both, `PlaceEarly` establishes, for the activity it dates,
that every link is honoured and that the start is one of its bounds, and
disturbs no other: together, `StartIsLeast` (`StartsAreLeast`). That the data
date is a floor for open work and recorded history is kept makes
`FieldOutranksPlan` (`FieldOutranks`); it and `LateFinishCapped` follow from
`Structure` and facts about snapping. These hold for any network and any
calendars, beyond three activities and any lag TLC tried.

*The longest path* (`ForwardPassIsRight`). The second formulation is a recursive
function over positions of the order, about which nothing can be proved by the
library's induction. Instead, `DatedAsAsked` says that each dated activity has
what is granted to the bounds of its links as they stand, and the dates held
after the pass, cut off at each position, are shown to be a function that
satisfies the recursion (`PassIsARerun`); two that do cannot differ at a first
position (`OneRerun`), so the recursion is the pass.

*The post-pass* (`PlainLinksSurvive`, `PostPassOnlyLater`). A slide is measured
against successors that may have slid already. `PlainLinksKept` holds between any
two slides because the order puts successors later, so they have slid before and
will not move again; it needs `SpansDrawn`, that an activity not slid yet is still
drawn with its duration from its start, since the room that was counted is spent
from the start and must land the finish at or before the bound. The facts about
counting in `TimeAxis_proof` (positions have no gaps, adding what was counted
does not overshoot) carry the arithmetic.

*Caps* (`MissedCapsShow`). Three invariants: a capped activity ends its late dates
by its cap (`CapsKept`), everything is dated going back (`LateDated`), and a float
is the count from the early to the late start (`FloatsMeasured`). The hypothesis
`DatesInWindow` says that a capped activity's dates lie on its calendar and are
its duration apart; off the window the code raises instead of returning, and
the model does not. TLC finds the hypothesis true in every state of `cpm`.

*Two runs compared* (`OverrideIsNeverLater`, `FreeFloatIsFree`). Both theorems set a
second run of the forward pass beside the first and go by the first position of the
order at which they differ in the wrong direction. What carries a position is that a
bound grows with the dates it is read from (`ForwardBoundGrows`), which is true only
while lags and spans stay in the window the calendar was bound to; so each theorem
names its window (`OverrideInWindow`, `FreeFloatInWindow`), and TLC finds both true
in every state of `cpm` the theorems are about. Fewer links are no later
(`FewerLinksNoLater`) when no work began after the data date (`NothingBegunAhead`);
without that it is false, as told below. Free float rests on where a bound lies on
one calendar: its position is that of the start it is read from plus a number that
only the link decides (`BoundPosition`), so a slip of an activity moves each bound
by as much, and by no more than is left before the successor. Two more invariants
tie this to the run: `DatedUnlessAlap`, that dates are what is granted to the bounds
of their links to the end of the run when nothing is to be done as late as possible,
and `SlacksMeasured`, that a free float is the least slack of the links out.

*Total floats* (`TotalFloatsAreExact`). Two invariants of the backward pass, the
mirror of those of the forward one (`SuccessorsConsidered`, `LateDatesAsked`): each
late finish is the last of the activity's days before what the deadline and its
successors allow. From there on the late dates are compared with the dates of runs.
`BoundsUndo` says that what a link lets start at `t` may end as late as the backward
bound from `t`, across calendars; `BoundsRedoPlain` and `BoundsRedoLagged` say the
converse, for lags counted on a calendar both ends keep. By the first, dates that keep
the links and end by the deadline are never later than the late ones
(`NoLaterThanLate`, backwards along the order). For the early dates, that is: no
negative float. For a run with a day more than the float, which starts the activity
past its late start, it is: some work must end past the deadline. By the converse
the late dates keep the links themselves (`LateKeepsLinks`), so a run in which nothing is
delayed past its late start stays within them (`RunWithinLate`): the float can be
spent. On one calendar a driving link moves its early and its late bound alike, so
what drives critical work is critical, back from the terminal activity
(`PathStaysAmong`). Each piece needs its runs within the window (`FloatsInWindow`), which
TLC finds true in every state of `cpm`, networks with leads and lags over both calendars
among them.

*Types* (`DatesAreTyped`). Dates are instants, and starts of open work lie on its
calendar, as long as the calendar reaches the dates (`CalendarsReach`, true in every
state of `cpm`): beyond the last day, snapping has nowhere to go, which the code
reports as an error and the model does not.

**Calendars** (`TimeAxis_proof`). Snapping forward never moves back and skips
nothing, positions in a calendar count its working instants, adding then
counting gives back the number added; and the theorem
`StartFromFinishUndoesFinishFromStart`: on any calendar whose window holds the
span, the conversions invert each other, which is what makes late starts agree
with late finishes.

**Levelling and milestones** (`Analysis_proof`). What a resource is asked for is a
fold over a set; sums of demands are handled by tallies (a function that
gives every subset of a set the sum of its members), with minimal counterexamples in place of
induction. `CapacityInv` says, from the first placement on, that a resource is
within its capacity on each day on which nobody asks for it whom the leveller
does not check; it is stronger than `NothingOverbooked`, which looks at the end
only, and needed because a day is filled by several placements
(`LevelledWorkFits`). `LogicInv` adds that what is placed has instants and that
pinned work is placed first: a bound computed for an activity is then the bound
at the end, as its predecessors are never moved again
(`LevelledLogicSurvives`, the first conjunct of `MovedWithinBounds`).

*Moves* (`MovesStayWithinBounds`). What the comment at `levelling.py:353-355` says in
a sentence is an induction on the placements. `KeptOrMoved`, the invariant, says of
what is placed that it has its early dates or a move, and of what was levelled that it
has the days of its duration and, where the finish is kept, none past its late dates.
The bound a predecessor within its late dates puts on the next activity is at or
before the late start of that (`BoundWithinLate`), as the late dates keep the links
(`LateKeepsLink`, shared with the total floats) and bounds grow with the dates they
are read from. So the search starts at or before the late start (`SearchStarts`), and
wherever it ends, the span is within the late one (`PlacedWithin`). The finish shown is
then the same: nothing levelled shows a day after the work that reached the finish, or
before the day it showed (`FinishIsKept`). A move is explained (`MoveHasReason`): an
unmoved predecessor asks for no start after the early one, so if the search starts
later, the one who binds has moved; and if it starts there, the first span tried was
refused, and of finitely many refusals one is first (`RefusalIsBlamed`). The theorem
names the schedules it is about (`LevelsFairly`): nothing as late as possible; between
movable work no start-to-finish link, and no lag on a calendar one of its ends does
not keep; a contract date, if any, that leaves no room after the finish, which work
reaches; and no resource that has the id of an activity, which the report of a move
could not tell apart. And it names the window (`LevellingInWindow`), which TLC finds
true in every state of the levelling scene of `analysis` whose schedule has the float
it reports (`NothingLate`). On such schedules with more than one move and lagged links
the hypotheses hold together. Without `LevelsFairly` the property is checked only.

`DriversHold` says that an activity stands at the boundary of the work credited
with driving it from the end of the backward pass on, whatever the post-pass
moves; it is what a finish milestone shown on the last day of its work rests on
(`MilestonesCloseWork`), and the driving path of the probe.

**Health checks** (`ChecksAreHonest`, in `Analysis_proof`). An assessment is not one run
of the engine but two, so what the engine's runs keep is shown to survive the restart:
the delayed network is again one the engine may be given, and its links are the same
(`AssessingRuns`, `RunInv`). The four parts of `HealthIsHonest` rest on different things.

- Sound logic (`LogicWhole`): in a small plan one activity that dangles fails the check,
  so when it passes there is one start and one end; every other activity is linked, each
  link goes up the order, and going along it nothing can stop but at the end.
- A kept date (`DateKept`): passed float says that the late start of the activity that
  ends the project is not before the early one. A span back from the deadline and a span
  on from the early start then compare by positions, and the finish cannot be past the
  deadline.
- Baselines (`BaselinesDoAgree`): the records the two checks read are the ones the
  report reads, and neither the calculation nor the probe changes them.
- The critical path test (`ProbeIsAnswered`) compares two calculations of which the first
  has been overwritten, so the invariant has to carry what is left of it. On one
  calendar, with finish-to-start links whose lags are counted on it, a date is its
  position and a calculation is a longest path over integers: `Timed` says that of
  starts and finishes, and `EarlyIsTimed` that the forward pass computes such a timing.
  `ProbeKnown` says that the finish before the probe is the end of a timing of the
  *delayed* plan that falls short by the delay in the activity delayed, and that each
  activity from that one to the end of the project starts when the one before it lets
  it: the way back along the drivers (`ProbePointIsReached`). Two timings of one plan
  differ by no more than what one falls short of (`TimingsGrow`, by the first position of
  the order at which they would), so the finish moves by the delay at most
  (`DelayIsBounded`), and each link of that path hands the whole of it on
  (`DelayIsCarried`).

The theorem names its window (`HealthInWindow`), which TLC finds true in every state of
the health scene of `analysis`, both runs of each assessment included.

**Studies** (`Studies_proof`). `StudyInv` says that an answer is the one its handler
gives to the request; it is inductive since no action but the reset changes a
request that was answered. Everything else is about the engine as a function, on
plans of any size. `EarlyStarts` and `LateStarts` are recursive along the order of
the plan's activities (`PlanRanked`: a plan without a ring has a ranking); minimal
counterexamples stand in for induction. What carries the proofs is that early
starts are the least starts that keep the plan (`EarlyStartsAre`, `TightIsLeast`)
and that late starts are the greatest that end by a given day (`LateStartsAre`,
`LateIsLatest`), so a network is compared with another by showing that the dates of
one keep the other.

*Programmes* (`ProgrammesAgree`). The merged network is the concatenation of the
projects' links, renamed, and the links between them. Its dates keep every
project's own plan, so none is earlier than alone; in a project nobody hands
anything to, the dates it had alone together with the merged dates of the others
keep the merged network, so none is later either.

*Delay* (`DelaysAreAccountedFor`). For windows, a sum over a sequence of differences
is the difference of its ends, and the split of a window among causes puts each
day in one place (`AttributionAddsUp`). An imposed event is an added activity before
the work it holds up. It costs no more than float leaves (`DelayCostsAtMost`): leave
work of a lower rank than the work held up at its early start, move everything else to its late
start and on by what float does not absorb; that keeps the imposed network.
It costs no less (`DelayCostsAtLeast`): the imposed starts keep the plan's
links, so the work held up stands later than its late start by at most what the finish
moves (`LateIsLatest`). All events together: starts put off by the days of the events
that hold up work of the same or a lower rank keep the network with all of them
(`DelaysCostTheirDays`), and a network with fewer events is never later. What is left
when delays are taken out starts no later than as built, which bounds the collapsed
analysis the same way (`CollapsedIsBound`).

*Comparison* (`ComparisonsAreComplete`, in `Answers_proof`). Entries are filed under
a key, so what must be shown is that two activities share one only where an id was
reissued; then each activity of either plan has its entry. Matched by code, the
second plan is the first one renamed, and a renaming that keeps durations, floors
and the signatures of links keeps the dates: this is why nothing moves without a
difference. The replayed baseline is again a plan, so the same lemmas date it.

*Compression* (`CompressionsAreDeliverable`, in `Answers_proof`). The invariant of
the search speaks of each round: the plan in hand has a finish one purchase reached
from the one before, its days and its links are those of the request less what was
bought. A link that asks no more than another delays nothing, and a day off one
activity moves the finish by at most a day, which bounds what a purchase can
promise. That the options as listed, crashes first and overlaps after, deliver the
plan in hand needs that overlaps were bought before money was spent, which is so
when each crash costs something.

*Measures* (`MeasurementsAgree`, in `Reports_proof`). The planned curve never falls,
so the earned offset lies in the step of it that holds what was earned, and dividing
within the step reads it back exactly; lateness by the offset and lateness by the curve
then agree. It is assumed that a stored baseline ends each activity no earlier than
it begins (`IsRequest`): the handler does not ask, the baselines the program stores do.
The report's total is at most its worst variance times the number measured, by a
sum compared member by member.

*Weather* (`AllowancesAreLost`, in `Reports_proof`). The days told for a month stand in
the middle of equal stretches. Two of these places are more than one day apart when
fewer days are asked for than worked, so they are distinct and each stretch holds one:
what is told up to any day differs from its share by half a day at most. What the
calendar loses to them is another set: a calendar carries the last allowance that names
it (`AllowancesComeBack`), and of the days that one tells it loses those that are not extra
work days (`LostDaysOf`); a month without such days loses what it was told
(`MonthsAreLost`), and nothing is lost outside (`LossesAreWithin`). Allowances only
add exceptions, so taking them out leaves the calendar and no work ends earlier.
Work done in turn is a recursive function, so its finishes are compared at the
first that would come earlier. On one calendar, the finish with the allowance is
as many working days away as without, and the lost days are the difference.

*Lines, trains and take-offs* (`LinesCanBeWalked`, in `Reports_proof`). The flow
through the places is a permutation, each place standing at its rank. A line starts
at the greatest of what the line before it and its own place ask for, so a start is
the least that keeps crews apart: an earlier one would break a requirement. The
network a line or a train is turned into is a grid of places and trades, each link
from the place before or the trade before, and a floor; by the first activity that would
be early or late, its dates are those of the line. In a train, wagon `i` stands in zone `n` at
takt `i + n - 2`, and a takt can be kept exactly when the heaviest zone fits the crews
there may be. What crews idle is summed over the slots and equals what is paid less
what is worked, wherever no slot is overloaded. In a take-off, each line
is used, for a place that is known, or reported.

**Accounts** (`Services_proof`). A new account is one commit under unique keys, so
`TenantsStayApart` is inductive with little help. Sessions are not:
`SessionsInv` needs that a request answering the challenge is only made from a
session that waits for it, which only an accepted password leaves (`SignedInMeansProven`,
through both doors). The counters hold until two requests overlap, which
needs `OneAtATime`: without overlap the row a request loaded is still stored in
every column it changes.

**The queue** (`Webhooks_proof`). What the rows say is not inductive because a drain
writes what it decided before it waited for a lock. `WebhookInv` adds to the rows
(`StoredInv`, `RowsHonest`, `LimitSwitchesOff`) what each running session holds
(`SessionInv`): its drafts were attempted, what it saw of an endpoint was once
stored, its locks are its own. `CalmInv` is the same while drains have not
overlapped, when counts are exact. `QueueKeepsItsPromise` is the simulation of
`Outbox`: each step of the queue changes the fate of deliveries as one of its
steps does, or not at all.

**Limits** (`Services_proof`). The history of what was admitted has the open
windows only; a stored row was let through up to the limit, and one that no
sweep took let no more through. The two stores have an invariant each.

**Stored data** (`Services_proof`). `BoardInv`: a request that will write holds the
row as it is stored, unless another assessment of it overlapped. `ProjectsInv`:
the stored headline is that of a current baseline, and the trail, as a bag,
counts imports, deletions and baselines exactly. `BreakdownInv`: the places
stored are the list typed last, in its order, while forms do not overlap, and an
amount is of a place and a trade that are stored.


## Disagreements between the code and its documents

Each is a run that TLC ends with a counterexample.

1. `cpm_alap`: the post-pass redraws work in progress with its original
   duration (`core/cpm.py:650`) and moves the project finish, "the one thing ALAP
   is defined never to do" (`core/cpm.py:633-635`). A second way to the same: a
   milestone counts its room on its own calendar (`core/cpm.py:643-651`), and up to
   a finish on a day that calendar does not work it lands on the next day it does.
2. `levelling_milestone`: under the horizon called "Never move the project
   finish" (`core/levelling.py:55`) a completion milestone takes the bound of work
   moved within its float (`core/levelling.py:316-326`) and is shown a working day
   after the finish, although "This cannot breach the horizon" (`353`).
3. `comparison_renumbered`: matching "by the planner's own code"
   (`core/compare.py:8-13`, `tests/test_compare.py:111`) still compares links by
   raw id (`core/compare.py:356-394`, `422-423`), so a plan only renumbered is
   reported as relogicked.
4. `health_probe`: the probe adds its days to the original duration
   (`core/health.py:576`), which reported remaining days outrank, so a sound chain
   fails the test that "a sound network moves the project finish" (`544`).
5. `factor`: "the factor protects the interactive session", and API keys are what
   bypasses it "by design" (`docs/deployment.md:99-101`). A session begun through the
   identity provider bypasses it too (`blueprints/auth.py:226-242`): an account that
   came by SSO may enrol a second factor and is never asked for it (nor can it be rid of
   it, since that takes the password it does not have).
6. `baselines`: "Exactly one current baseline, enforced here"
   (`services/repository.py:455`) is enforced on the rows a request had loaded;
   two requests leave two. The list then shows the newer, and still agrees with
   the page (`ListAgreesWithPage`).
7. `webhook_duplicate`: running two drains is not merely a repeated delivery id
   (`cli.py:81`): an accepted delivery can be stored as failed, because the
   drain that commits last overwrites what the first recorded, or because a
   deadlock rolled the first back.

## Other behaviour met while modelling

Modelled as the code does it, with no run of its own:

- `find_cycle` promises one concrete cycle (`core/graph.py:69`), but its walk may
  leave the loop along a tail and report the tail (`85`).
- `_backward_bound` is not "the exact mirror" (`core/cpm.py:256`) of
  `_forward_bound` for a lagged finish-to-finish link whose lag calendar rests on
  the predecessor's last day (`261`).
- `due()` does not look at the endpoint, so deliveries queued before a 410 are
  posted after it, up to the retry limit (`services/webhooks.py:333`).
- With every link into it dropped, work that has begun starts at its actual start
  (`core/cpm.py:397`), which its suppressed links would have overruled: if it began
  after the data date, progress override can date it later than retained logic.
- Under `LagCalendar.PROJECT_DEFAULT` a lagged finish-to-finish link between two
  activities that share another calendar can show total float of -1 in a network
  without any constraint: the lag there and back is counted on a calendar that
  neither end keeps. `Plain` leaves those links out.
- Collapsing what was built is not the mirror of imposing on the plan
  (`core/modelled.py:474-476`, `tests/test_modelled.py:173`), and its concurrency
  can be negative (`287`).
- "A weather day is a day nobody works" (`core/weather.py:12`), but one on an extra work
  day stays worked (`core/weather.py:121-135`, `core/timeaxis.py:94`, `103-108`). "Apply
  each allowance to the calendar it names" (`216`), but each is applied to the calendar as it
  was given (`233-238`), so of two allowances for one calendar only the last is in it.
  What is reported as "actually added" (`83`) names the days of both cases. `AllowanceIsLost`
  says so: it speaks of the days a calendar loses (`LostOf`), and of the days told only
  where they are the same (`TakesHold`, no extra work day in the month); requests
  with an extra work day, and with two allowances for one calendar, are among those of
  `analysis`.
- The check of logic reads every link, and progress override sorts without the ones it
  suppresses: two begun activities may each follow the other and nothing else, and the
  check passes though the plan is in pieces (`core/health.py:203-216`). `LogicIsWhole`
  speaks of plans all of whose links are sorted.
- The probe may be taken up by a lag on the path: one counted on a calendar the work
  does not keep, or in calendar days, ends in a gap that a delay can fall into, on a
  plan of one calendar. `Absorbs` names such lags along with begun work, dates that pin
  an activity, and links that are not finish-to-start.
- Check 12 also fails on sound networks of two calendars; check 14 and the
  progress report differ on work that was removed; the report's index counts
  what is due on the data date itself, which it does not call behind.
- Greedy compression buys on one driving path, so it stops with two parallel
  critical paths; fast-tracking drops the lag of the link it turns.
- Where a day of a crash costs nothing, which is what a cost left out means, an
  overlap may be bought, then a day of its predecessor, then another overlap. A plan
  applied in one go then turns the first link after the day was taken off, and may
  finish earlier than the options promised (`core/compression.py:376-437`).
  `PlanIsDeliverable` asks for the same finish where each crash costs something,
  and for none later in any case.
- Matched by code, a comparison files an activity under the id of its counterpart
  (`core/compare.py:283`): where an id was given to other work under another code,
  two entries can have one key, one replaces the other, and the work it spoke of
  is not listed; a finish can then move with no difference shown. With two links
  of one type between one pair, a lag is read against the last of them
  (`core/compare.py:389`), so an unchanged plan can be charged with a growth of
  lag. `ComparisonIsComplete` leaves both cases out, and only those.
- `compare_to_baseline` replays a baseline's finishes through the present logic.
- Work committed in mid-week counts, where the denominator is said to be frozen
  (`core/lastplanner.py:18-20`); overlapping assessments can leave a row the
  engine refuses to read; a new trade's sequence is the number of trades, which
  repeats after one is deleted; saving the locations deletes the quantities
  recorded in them.
- A sweep may remove windows of a limit longer than its own
  (`services/ratelimit.py:205-206`); two deletions of one project that overlap
  record two `project.delete` events.

## What is only model-checked, and what is not modelled

Only model-checked:

- liveness, since fairness and `ENABLED` are out of the prover's reach:
  `SortTerminates` and the second half of `ImplementsOutbox`;
- `MovedWithinBounds` of schedules outside `LevelsFairly`, but for its first conjunct.

Not modelled inside modelled components: calendars' cache and the window errors
of `bind`, which the probe can meet too; the warnings and the out-of-sequence
report of progress; the names and texts of errors; criticality labels of
presented rows; resource histograms; the grade of an assessment; matching by
name and WBS, and changes of names, calendars, progress and levelling moves in a
comparison (they add no days to the attribution); shared resource demand of a
portfolio; month spreads of weather in floating point, which differ from the
exact ones for three counts in months of 26 or 30 working days; the 90-second
replay window of a one-time code; password hashing, API keys and the demo
account; the board's reliability trend; webhook signatures and headers;
permission checks of the pages. Nothing in the code switches an endpoint on
again, and the model has no such action.

Not modelled at all, with the reason in `PROJECT.json`: the risk simulation
(distributions), readers and writers of other tools' files (text conversion with
no state between files), identity providers and the webhook transport (network
and cryptography, whose outcomes are inputs of the models), access control (a
fixed table), storage and entitlement, host integration and sample data.

## Plan

Modelled and checked as planned: the engine, what is made of a schedule, the
services, the queue. Proved: one theorem or more for every property of the
runs `services` and `webhook_overlap`, and for all of `cpm` but
liveness; of `analysis`, for the finish milestones, what levelling books and where it
moves work, for the health checks, and for every study: the programmes, the analysis of
delay, comparison, compression, measures, weather, lines, trains and take-offs. What
would come next, in this order:

1. The bounded moves of levelling outside `LevelsFairly`: which of its conditions can be
   dropped.
2. Modules for the table of permissions, the life of an API key, and the state an
   import of an XER file keeps between its tables.
