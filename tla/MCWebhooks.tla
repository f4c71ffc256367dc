----------------------------- MODULE MCWebhooks -----------------------------
(***************************************************************************)
(* The webhook queue on small tables of endpoints and changes.             *)
(***************************************************************************)
EXTENDS WebhookProperties, TLC

CONSTANT Scenes       \* which of the three instances below are run
VARIABLE scene

OneHook   == CHOOSE h \in Hook : TRUE
OneChange == CHOOSE c \in Change : TRUE
OneDrain  == CHOOSE p \in Drain : TRUE

\* "overlap":      drains overlap and crash
\* "one delivery": the same, with one endpoint and one change
\* "one drain":    several deliveries, and no drain starts before the last has ended
HooksOf   == IF scene = "one delivery" THEN {OneHook} ELSE Hook
ChangesOf == IF scene = "one delivery" THEN {OneChange} ELSE Change
DrainsOf  == IF scene = "one drain" THEN {OneDrain} ELSE Drain

\* Every change has been made or undone, everything queued has settled and no
\* drain is running: the queue may rest.
AtRest ==
  /\ \A c \in ChangesOf : change[c] \in {"made", "undone"}
  /\ \A d \in Delivery : row[d] # None => row[d].status # "pending"
  /\ \A p \in Drain : ~Running(p)
  /\ UNCHANGED vars

MCInit == WebhookInit /\ scene \in Scenes

MCNext ==
  /\ UNCHANGED scene
  /\ \/ \E h \in HooksOf : Subscribe(h) \/ DeleteWebhook(h)
     \/ \E c \in ChangesOf : Emit(c) \/ EndRequest(c, "made") \/ EndRequest(c, "undone")
     \/ \E p \in DrainsOf : StartDrain(p) \/ DrainStep(p)
     \/ \E p \in DrainsOf : scene # "one drain" /\ Crash(p)
     \/ Tick
     \/ AtRest

\* WebhookFairness, of the drains that run in the scene.
MCFairness ==
  /\ WF_vars(Tick)
  /\ \A p \in Drain : WF_vars(p \in DrainsOf /\ StartDrain(p)) /\ SF_vars(DrainStep(p))

MCSpec == MCInit /\ [][MCNext]_<<vars, scene>> /\ MCFairness

\* What the endpoints ask for: everything, or the second of them one change only.
Everything == [h \in Hook |-> Change]
OneWantsLess == [h \in Hook |-> IF h = OneHook THEN Change ELSE {OneChange}]

OneRetry == <<1>>

\* Sound for the safety runs: no definition tells drains or changes apart.
Symmetric == Permutations(Drain) \cup Permutations(Change)
=============================================================================
