------------------------------- MODULE RateLimit -------------------------------
(***************************************************************************)
(* services/ratelimit.py: a limit per endpoint and identity, counted       *)
(* either in each worker's memory or in one database row per fixed window. *)
(* A hit in the database is one transaction around an atomic upsert, so it *)
(* is one step here; the sweep it may end with is a choice (one in fifty). *)
(***************************************************************************)
EXTENDS Integers, FiniteSets

CONSTANTS
    Endpoints,      \* limited endpoints, one identity calling each
    Limit,          \* endpoint -> [count, seconds]
    Workers,        \* processes serving requests
    MaxTime,        \* bound: the clock
    MaxHits         \* bound: hits in one window of the history

ASSUME RateLimitAssumption ==
    /\ IsFiniteSet(Endpoints) /\ IsFiniteSet(Workers)
    /\ MaxTime \in Nat /\ MaxHits \in Nat
    /\ \A e \in Endpoints : Limit[e].count \in Nat /\ Limit[e].seconds \in Nat \ {0}

VARIABLES
    clock,          \* time.time(), in seconds
    store,          \* "database" or "memory", fixed by the settings
    rows,           \* RateLimitHit rows: <<endpoint, window start>> -> hits
    windows,        \* worker -> endpoint -> [count, ends]
    admitted,       \* history: window that is still open -> hits let through
    rejected,       \* history: those of them that refused a hit
    swept           \* history: open windows a sweep deleted

limitVars == <<clock, store, rows, windows, admitted, rejected, swept>>

WindowStart(e) == clock - (clock % Limit[e].seconds)
NoWindow == [count |-> 0, ends |-> 0]

RateLimitInit ==
    /\ clock = 0
    /\ store \in {"database", "memory"}
    /\ rows = [r \in {} |-> 0]
    /\ windows = [w \in Workers |-> [e \in Endpoints |-> NoWindow]]
    /\ admitted = [r \in {} |-> 0]
    /\ rejected = {}
    /\ swept = {}

(* MemoryStore.hit: the window opens with the first hit after the last one. *)
NextWindow(w, e) ==
    LET open == IF clock >= windows[w][e].ends
                  THEN [count |-> 0, ends |-> clock + Limit[e].seconds]
                  ELSE windows[w][e]
    IN  [open EXCEPT !.count = @ + 1]

(* DatabaseStore.hit: insert one, or add one to the row of this window. *)
Upserted(e) ==
    LET key == <<e, WindowStart(e)>>
    IN  [r \in DOMAIN rows \cup {key} |->
           (IF r \in DOMAIN rows THEN rows[r] ELSE 0) + (IF r = key THEN 1 ELSE 0)]

(* The sweep deletes every row whose window started before this one's. *)
Sweepable(e) == {r \in DOMAIN rows : r[2] < WindowStart(e)}

(* The window a hit is counted in: whose, of what, and when it ends. *)
Shared == "shared"
Counted(w, e) ==
    IF store = "database" THEN <<Shared, e, WindowStart(e) + Limit[e].seconds>>
                          ELSE <<w, e, NextWindow(w, e).ends>>

Tally(key, allowed) ==
    [k \in DOMAIN admitted \cup {key} |->
       (IF k \in DOMAIN admitted THEN admitted[k] ELSE 0)
         + (IF k = key /\ allowed THEN 1 ELSE 0)]

(* Fault: the hit that reaches the limit is refused. *)
AllowsFewer(e, count) == count < Limit[e].count

(* RateLimiter.check, before the handler runs. *)
Allows(e, count) == count <= Limit[e].count

(* enforce_rate_limit: the hit is let through or answered 429. *)
Record(w, e, count) ==
    /\ admitted' = Tally(Counted(w, e), Allows(e, count))
    /\ rejected' = IF Allows(e, count) THEN rejected ELSE rejected \cup {Counted(w, e)}

HitMemory(w, e) ==
    /\ store = "memory"
    /\ NextWindow(w, e).count <= MaxHits
    /\ windows' = [windows EXCEPT ![w][e] = NextWindow(w, e)]
    /\ Record(w, e, NextWindow(w, e).count)
    /\ UNCHANGED <<clock, store, rows, swept>>

HitDatabase(w, e) ==
    LET key == <<e, WindowStart(e)>> IN
    /\ store = "database"
    /\ Upserted(e)[key] <= MaxHits
    /\ Record(w, e, Upserted(e)[key])
    /\ \E sweep \in BOOLEAN :
         LET gone == IF sweep THEN Sweepable(e) ELSE {}
         IN  /\ rows' = [r \in DOMAIN Upserted(e) \ gone |-> Upserted(e)[r]]
             /\ swept' = swept \cup {<<Shared, r[1], r[2] + Limit[r[1]].seconds>> :
                                    r \in {r \in gone : r[2] + Limit[r[1]].seconds > clock}}
    /\ UNCHANGED <<clock, store, windows>>

(* A worker restarts: what it counted in memory is gone. *)
Restart(w) ==
    /\ store = "memory"
    /\ windows' = [windows EXCEPT ![w] = [e \in Endpoints |-> NoWindow]]
    /\ admitted' = [k \in {k \in DOMAIN admitted : k[1] # w} |-> admitted[k]]
    /\ rejected' = {k \in rejected : k[1] # w}
    /\ UNCHANGED <<clock, store, rows, swept>>

Tick ==
    /\ clock < MaxTime
    /\ clock' = clock + 1
    /\ LET Open(keys) == {k \in keys : k[3] > clock + 1} IN
         /\ admitted' = [k \in Open(DOMAIN admitted) |-> admitted[k]]
         /\ rejected' = Open(rejected)
         /\ swept' = Open(swept)
    /\ UNCHANGED <<store, rows, windows>>

RateLimitNext ==
    \/ Tick
    \/ \E w \in Workers : \/ Restart(w)
                          \/ \E e \in Endpoints : HitMemory(w, e) \/ HitDatabase(w, e)

RateLimitSpec == RateLimitInit /\ [][RateLimitNext]_limitVars
================================================================================
