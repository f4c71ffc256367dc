------------------------------- MODULE Breakdown -------------------------------
(***************************************************************************)
(* A project's location model: services/repository.py replace_locations,   *)
(* upsert_linear_activity and to_linear under the routes set_locations,    *)
(* add_trade and delete_trade of blueprints/main.py.                       *)
(*                                                                         *)
(* Requests load the stored rows and commit later, as in Projects.  A row  *)
(* carries the write that made it, which stands for its surrogate key: a   *)
(* place saved again under the same name is a new row.                     *)
(***************************************************************************)
EXTENDS Integers, Sequences, FiniteSets

CONSTANTS
    Editors,        \* clients
    Keys,           \* location keys; any list of distinct ones may be typed
    Trades,         \* trade keys
    Rank,           \* the order of the keys and trades as strings
    MaxWrites       \* bound: committed requests

ASSUME BreakdownAssumption ==
    /\ IsFiniteSet(Editors) /\ IsFiniteSet(Keys) /\ IsFiniteSet(Trades)
    /\ MaxWrites \in Nat
    /\ Rank \in Seq(Keys \cup Trades)
    /\ \A i, j \in DOMAIN Rank : Rank[i] = Rank[j] => i = j

VARIABLES
    places,         \* ProjectLocation rows
    crews,          \* LinearActivity rows, one per trade
    amounts,        \* LinearQuantity rows
    form,           \* editor -> the request in flight, or Blank
    writes,         \* committed requests
    typed,          \* history: the list the last accepted save gave
    overlapped      \* history: two requests were in flight at once

breakdownVars == <<places, crews, amounts, form, writes, typed, overlapped>>

Blank == [op |-> "blank"]

(* sorted(rows, key=(sequence, key)) of to_linear; no two rows share a key. *)
Before(r, s) ==
    \/ r.sequence < s.sequence
    \/ r.sequence = s.sequence
       /\ \E i, j \in DOMAIN Rank : i < j /\ Rank[i] = r.key /\ Rank[j] = s.key
InOrder(rows) ==
    LET sorted == CHOOSE s \in [1..Cardinality(rows) -> rows] :
                    \A i, j \in DOMAIN s : i < j => Before(s[i], s[j])
    IN  [i \in DOMAIN sorted |-> sorted[i].key]

Flow == InOrder(places)
Handover == InOrder(crews)

(* to_linear's quantities of a trade, by location key. *)
TakeOff(trade) == {q.place.key : q \in {a \in amounts : a.trade = trade}}

Lists == UNION {{l \in [1..n -> Keys] : \A i, j \in 1..n : l[i] = l[j] => i = j} :
                  n \in 0..Cardinality(Keys)}

--------------------------------------------------------------------------------
BreakdownInit ==
    /\ places = {} /\ crews = {} /\ amounts = {}
    /\ form = [e \in Editors |-> Blank]
    /\ writes = 0
    /\ typed = <<>>
    /\ overlapped = FALSE

LoadForm(e) ==
    /\ form[e] = Blank
    /\ writes < MaxWrites
    /\ \E op \in {"locations", "trade", "remove"} :
         form' = [form EXCEPT ![e] = [op |-> op, places |-> places, crews |-> crews,
                                      amounts |-> amounts]]
    /\ overlapped' = (overlapped \/ \E d \in Editors \ {e} : form[d] # Blank)
    /\ UNCHANGED <<places, crews, amounts, writes, typed>>

(* Fault: the place in the list is not stored with the row. *)
PlacesUnnumbered(list) ==
    {[key |-> list[i], sequence |-> 0, made |-> writes + 1] : i \in DOMAIN list}

NewPlaces(list) ==
    {[key |-> list[i], sequence |-> i - 1, made |-> writes + 1] : i \in DOMAIN list}

(* replace_locations: the loaded rows go, and their quantities by cascade; *)
(* a key a rival's row already holds breaks the unique (project, key).     *)
SaveLocations(e) ==
    LET loaded == form[e] IN
    /\ loaded.op = "locations"
    /\ \E list \in Lists :
         LET kept == places \ loaded.places
         IN  IF \E r \in kept : \E i \in DOMAIN list : list[i] = r.key
               THEN UNCHANGED <<places, amounts, writes, typed>>
               ELSE /\ places' = kept \cup NewPlaces(list)
                    /\ amounts' = {a \in amounts : a.place \notin loaded.places}
                    /\ writes' = writes + 1
                    /\ typed' = list
    /\ form' = [form EXCEPT ![e] = Blank]
    /\ UNCHANGED <<crews, overlapped>>

(* upsert_linear_activity over the loaded rows: a trade not among them is   *)
(* added at the end; a take-off, if one was typed, replaces the loaded      *)
(* quantities.  A rival's commit can break the unique keys, take the row    *)
(* away, or take away a place the take-off refers to.                       *)
IsNew(loaded, t) == ~\E r \in loaded.crews : r.key = t
WithTrade(loaded, t, given) ==
    LET rivals == amounts \ loaded.amounts
        added == [key |-> t, sequence |-> Cardinality(loaded.crews), made |-> writes + 1]
    IN  [crews |-> IF IsNew(loaded, t) THEN crews \cup {added} ELSE crews,
         amounts |-> IF given = {} THEN amounts
                     ELSE {a \in amounts : a.trade # t \/ a \in rivals}
                            \cup {[trade |-> t, place |-> r, made |-> writes + 1] : r \in given}]
Clashes(loaded, t, given) ==
    \/ IsNew(loaded, t) /\ \E r \in crews : r.key = t
    \/ ~IsNew(loaded, t) /\ ~\E r \in crews : r \in loaded.crews /\ r.key = t
    \/ ~(given \subseteq places)
    \/ \E a \in amounts \ loaded.amounts : a.trade = t /\ a.place \in given

(* add_trade: the take-off names loaded locations only, parse_quantities    *)
(* refuses the others.                                                      *)
SaveTrade(e) ==
    LET loaded == form[e] IN
    /\ loaded.op = "trade"
    /\ \E t \in Trades, given \in {{}, loaded.places} \cup {{r} : r \in loaded.places} :
         IF Clashes(loaded, t, given)
           THEN UNCHANGED <<crews, amounts, writes>>
           ELSE /\ crews' = WithTrade(loaded, t, given).crews
                /\ amounts' = WithTrade(loaded, t, given).amounts
                /\ writes' = writes + 1
    /\ form' = [form EXCEPT ![e] = Blank]
    /\ UNCHANGED <<places, typed, overlapped>>

(* delete_trade: found among the loaded rows; its quantities cascade. *)
RemoveTrade(e) ==
    LET loaded == form[e] IN
    /\ loaded.op = "remove"
    /\ \E r \in loaded.crews :
         /\ crews' = crews \ {r}
         /\ amounts' = IF r \in crews THEN {a \in amounts : a.trade # r.key} ELSE amounts
    /\ writes' = writes + 1
    /\ form' = [form EXCEPT ![e] = Blank]
    /\ UNCHANGED <<places, typed, overlapped>>

(* A form that is refused or never sent. *)
Discard(e) ==
    /\ form[e] # Blank
    /\ form' = [form EXCEPT ![e] = Blank]
    /\ UNCHANGED <<places, crews, amounts, writes, typed, overlapped>>

BreakdownNext ==
    \E e \in Editors :
        \/ LoadForm(e) \/ SaveLocations(e) \/ SaveTrade(e) \/ RemoveTrade(e) \/ Discard(e)

BreakdownSpec == BreakdownInit /\ [][BreakdownNext]_breakdownVars
================================================================================
