-------------------------------- MODULE Takt --------------------------------
(***************************************************************************)
(* Takt planning (massingplan/core/takt.py): every trade spends the same   *)
(* time in every zone, and crews, not durations, absorb the difference.    *)
(*                                                                         *)
(* wagons: sequence, in handover order, of [id, work, other, max]: crew-   *)
(* days by zone, crew-days in the other zones, and the crews it can field. *)
(***************************************************************************)
EXTENDS LineOfBalance

WorkIn(w, zone) == IF zone \in DOMAIN w.work THEN w.work[zone] ELSE w.other

Heaviest(w, zones) == Max({WorkIn(w, z) : z \in zones})

\* Crews that fit the work into one takt.
CrewsFor(work, days) == IF work <= 0 THEN 0 ELSE Max({1, CeilDiv(work, days)})

\* The shortest takt in which every wagon fits with the crews it can field,
\* and the first wagon that sets it.
MinimumTakt(wagons, zones) ==
  LET needed(i) == Max({1, CeilDiv(Heaviest(wagons[i], zones), wagons[i].max)})
      worst     == Max({needed(i) : i \in DOMAIN wagons})
      first     == IF worst = 1 THEN 1 ELSE Min({i \in DOMAIN wagons : needed(i) = worst})
  IN  [days |-> worst, bottleneck |-> wagons[first].id]

CanRun(wagons, zones, days) ==
  /\ wagons # <<>> /\ zones # <<>>
  /\ days >= 1
  /\ \A m, n \in DOMAIN zones : zones[m].id = zones[n].id => m = n
  /\ \A i, j \in DOMAIN wagons : wagons[i].id = wagons[j].id => i = j

\* Wagon i is in the n-th zone in takt i + n, counted from 2 here; a wagon that
\* needs more crews than it can field is reported and runs with what it has.
Train(wagons, zones, days) ==
  LET flow == Flow(zones)
      needed(i) == CrewsFor(Heaviest(wagons[i], ToSet(flow)), days)
      crews == [i \in DOMAIN wagons |-> Min({needed(i), wagons[i].max})]
      work(i) == Total([n \in DOMAIN flow |-> WorkIn(wagons[i], flow[n])])
  IN  [flow |-> flow, days |-> days,
       takt |-> [slot \in (DOMAIN wagons) \X (DOMAIN flow) |-> slot[1] + slot[2] - 2],
       crews |-> crews,
       paid |-> [i \in DOMAIN wagons |-> crews[i] * days * Len(flow)],
       worked |-> [i \in DOMAIN wagons |-> work(i)],
       overloaded |-> {wagons[i].id : i \in {i \in DOMAIN wagons : needed(i) > wagons[i].max}},
       duration |-> (Len(wagons) + Len(flow) - 1) * days]

\* Crew-days paid for and not worked, slot by slot.
IdleCrewDays(train, wagons) ==
  Total([slot \in DOMAIN train.takt |->
           Max({0, train.crews[slot[1]] * train.days
                     - WorkIn(wagons[slot[1]], train.flow[slot[2]])})])

\* The train as a network: every slot held to its takt, each wagon's own chain,
\* and the handovers.
TrainNetwork(train, wagons) ==
  LET unit(i) == [id |-> wagons[i].id, dur |-> train.days, amounts |-> [p \in {} |-> 0],
                  rate |-> 0, buffer |-> 0, crews |-> 1]
      line == [flow |-> train.flow, start |-> [i \in DOMAIN wagons |-> (i - 1) * train.days]]
      plan == ToNetwork(line, [i \in DOMAIN wagons |-> unit(i)])
  IN  [plan EXCEPT !.tasks = [slot \in DOMAIN @ |->
                                [@[slot] EXCEPT !.floor = train.takt[slot] * train.days]]]

\* A trade of a stored location model as a wagon: its days of work as crew-days,
\* its crews as the most it can field.
WagonOf(t, places) ==
  [id |-> t.id, work |-> [p \in {places[n].id : n \in DOMAIN places} |-> WorkContent(t, p)],
   other |-> t.dur, max |-> Max({1, t.crews})]
=============================================================================
