---------------------------- MODULE LineOfBalance ----------------------------
(***************************************************************************)
(* Location-based scheduling (massingplan/core/locations.py): trades flow  *)
(* through locations in order, each as one crew that never waits and never *)
(* enters a place before the trade in front has left it.                   *)
(*                                                                         *)
(* trades: sequence, in handover order, of [id, dur, amounts, rate,        *)
(*         buffer, crews]; amounts is a partial function on locations, and *)
(*         a rate of 0 is none                                             *)
(* places: sequence of [id, sequence]                                      *)
(***************************************************************************)
EXTENDS PlainNetwork

\* The direction of flow: by sequence, then by id, which no two share.
FlowsBefore(p, q) == p.sequence < q.sequence \/ (p.sequence = q.sequence /\ p.id < q.id)

TurnOf(places, m) == Cardinality({k \in DOMAIN places : FlowsBefore(places[k], places[m])}) + 1

Flow(places) ==
  [n \in DOMAIN places |-> places[CHOOSE m \in DOMAIN places : TurnOf(places, m) = n].id]

CeilDiv(a, b) == (a + b - 1) \div b

\* Working days in a place: the amount of work at the rate, a day begun being
\* a day on site; or the flat duration.
WorkContent(t, place) ==
  IF place \in DOMAIN t.amounts /\ t.rate # 0 THEN CeilDiv(t.amounts[place], t.rate) ELSE t.dur

CanFlow(trades, places) ==
  /\ trades # <<>> /\ places # <<>>
  /\ \A m, n \in DOMAIN places : places[m].id = places[n].id => m = n
  /\ \A i \in DOMAIN trades : trades[i].rate # 0 =>
       \A n \in DOMAIN places :
         places[n].id \in DOMAIN trades[i].amounts => trades[i].amounts[places[n].id] >= 0

\* Days between a crew's own start and its start in the n-th place.
Cumulative(t, flow, n) == Total([m \in 1..(n - 1) |-> WorkContent(t, flow[m])])

\* Fault: only the first place is looked at.
FirstPlaceOnly(trades, flow, i, before) ==
  {before + WorkContent(trades[i - 1], flow[1]) + trades[i].buffer}

\* What each place asks of the crew's start, when the trade before starts at
\* before: that it has left, and the buffer has passed.
Requirements(trades, flow, i, before) ==
  {before + Cumulative(trades[i - 1], flow, n + 1) + trades[i].buffer - Cumulative(trades[i], flow, n) :
     n \in DOMAIN flow}

\* The starts of the lines.
LineStarts(trades, flow) ==
  LET start[i \in DOMAIN trades] ==
        IF i = 1 THEN 0 ELSE Max({0} \cup Requirements(trades, flow, i, start[i - 1]))
  IN  [i \in DOMAIN trades |-> start[i]]

\* Days kept back so as not to be broken up: later than the first place needs.
ContinuityCost(trades, flow, start, i) ==
  IF i = 1 THEN 0
  ELSE LET first == start[i - 1] + WorkContent(trades[i - 1], flow[1]) + trades[i].buffer
       IN  Max({0, start[i] - Max({0, first})})

SegmentStart(trades, flow, start, i, n) == start[i] + Cumulative(trades[i], flow, n)

\* The clearance behind the trade before, in each place.
Gap(trades, flow, start, i, n) ==
  SegmentStart(trades, flow, start, i, n) - SegmentStart(trades, flow, start, i - 1, n + 1)

\* Where two neighbours come closest.
Interference(trades, flow, start, i) ==
  LET gap(n) == Gap(trades, flow, start, i, n)
      closest == {n \in DOMAIN flow : \A m \in DOMAIN flow : gap(n) <= gap(m)}
  IN  [at |-> Min({flow[n] : n \in closest}), gap |-> Min({gap(n) : n \in DOMAIN flow}),
       converging |-> gap(Len(flow)) < gap(1)]

Computed(trades, places) ==
  LET flow  == Flow(places)
      start == LineStarts(trades, flow)
  IN  [flow |-> flow, start |-> start,
       interferences |-> [i \in 2..Len(trades) |-> Interference(trades, flow, start, i)],
       cost |-> [i \in DOMAIN trades |-> ContinuityCost(trades, flow, start, i)],
       duration |-> Max({SegmentStart(trades, flow, start, i, Len(flow) + 1) : i \in DOMAIN trades})]

\* Each crew's line is held where it was put by its first place.
HeldFrom(line, i, n) == IF n = 1 THEN line.start[i] ELSE 0

\* The lines as a network for the engine: one activity <<trade, place>> each,
\* the crew's own chain, and the handovers.
ToNetwork(line, trades) ==
  LET ids == (DOMAIN trades) \X (DOMAIN line.flow)
      n   == Len(line.flow)
      chains == [k \in 1..(Len(trades) * (n - 1)) |->
                   LET i == ((k - 1) \div (n - 1)) + 1
                       m == ((k - 1) % (n - 1)) + 1
                   IN  FS(<<i, m>>, <<i, m + 1>>, 0)]
      handovers == [k \in 1..((Len(trades) - 1) * n) |->
                   LET i == ((k - 1) \div n) + 1
                       m == ((k - 1) % n) + 1
                   IN  FS(<<i, m>>, <<i + 1, m>>, trades[i + 1].buffer)]
  IN  [tasks |-> [id \in ids |-> [dur |-> WorkContent(trades[id[1]], line.flow[id[2]]),
                                  floor |-> HeldFrom(line, id[1], id[2]), code |-> 0]],
       links |-> chains \o handovers]

-----------------------------------------------------------------------------
(***************************************************************************)
(* A take-off typed line by line (massingplan/services/projects.py,        *)
(* parse_quantities): a line is [place, amount], place Bare for a number   *)
(* alone, amount Unreadable for what is no finite number.                  *)
(***************************************************************************)
CONSTANTS Bare, Unreadable, MaxLines

ASSUME MaxLinesAssumption == MaxLines \in Nat

\* Lines that are reported instead of used.
IsProblem(l, known) ==
  \/ l.amount = Unreadable
  \/ l.amount < 0
  \/ IF l.place = Bare THEN known = {} ELSE l.place \notin known

\* A later line wins; a bare number is for every place.
TakeOff(lines, known) ==
  IF Len(lines) > MaxLines
  THEN [amounts |-> [p \in {} |-> 0], problems |-> {0}]
  ELSE LET bad == {k \in DOMAIN lines : IsProblem(lines[k], known)}
           for(p) == {k \in DOMAIN lines \ bad : lines[k].place \in {Bare, p}}
       IN  [amounts |-> [p \in {p \in known : for(p) # {}} |-> lines[Max(for(p))].amount],
            problems |-> bad]
=============================================================================
