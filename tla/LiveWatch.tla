------------------------------ MODULE LiveWatch ------------------------------
(* The liveness watch of cmd/cli_live.c, run by the idle beat of the line    *)
(* editor: one round probes the gateway, then the services of its table in   *)
(* order until the round budget is spent, and rebuilds the session when a    *)
(* service came back from a failure or the gateway has a new epoch. Services *)
(* and gateway are external and move between any two probes.                 *)
EXTENDS Naturals, Sequences

CONSTANTS Table,        \* g_live_svc, in order
          ProbeCost,    \* LIVE_PROBE_MS, what a hung service costs
          RoundBudget,  \* LIVE_ROUND_MS
          MaxEpoch      \* bound: epochs of the gateway; 0 is "not reported"

ASSUME LiveAssumption ==
  /\ Len(Table) \in Nat \ {0} /\ \A j, k \in 1..Len(Table) : j # k => Table[j] # Table[k]
  /\ ProbeCost \in Nat /\ RoundBudget \in Nat \ {0} /\ MaxEpoch \in Nat \ {0}

VARIABLES state,        \* of each service
          gateway,      \* "up", "down" (unreachable or hung)
          epoch,        \* the epoch of the gateway process; it may not report one
          seen, up,     \* live_svc_t: the view of each service
          gwSeen, gwEpoch,
          pc, i, spent, \* the round: where it is, at which entry, and its time
          names,        \* the services and the gateway found restarted
          moved         \* the gateway had a new epoch
VARIABLES broke,        \* history: services that failed, or lost their gateway,
                        \* since they were last reported
          replaced      \* history: the gateway was replaced since then

envVars   == <<state, gateway, epoch>>
viewVars  == <<seen, up, gwSeen, gwEpoch>>
roundVars == <<pc, i, spent, names, moved>>
histVars  == <<broke, replaced>>
vars == <<envVars, viewVars, roundVars, histVars>>

Service == {Table[k] : k \in 1..Len(Table)}
\* "failed" is any explicit failure: no process, or an error from a live one
State   == {"ok", "failed", "hung"}
Failing == IF gateway = "down" THEN Service ELSE {s \in Service : state[s] = "failed"}

TypeOK ==
  /\ state \in [Service -> State] /\ gateway \in {"up", "down"} /\ epoch \in 1..MaxEpoch
  /\ seen \in [Service -> BOOLEAN] /\ up \in [Service -> BOOLEAN]
  /\ gwSeen \in BOOLEAN /\ gwEpoch \in 0..MaxEpoch
  /\ pc \in {"idle", "probe", "end"} /\ i \in 1..Len(Table) + 1
  /\ spent \in 0..Len(Table) * ProbeCost /\ names \subseteq Service /\ moved \in BOOLEAN
  /\ broke \subseteq Service /\ replaced \in BOOLEAN

\* cli_live_init: an empty view of a backend in any state
Init ==
  /\ state \in [Service -> State] /\ gateway \in {"up", "down"} /\ epoch = 1
  /\ seen = [s \in Service |-> FALSE] /\ up = seen
  /\ gwSeen = FALSE /\ gwEpoch = 0
  /\ pc = "idle" /\ i = 1 /\ spent = 0 /\ names = {} /\ moved = FALSE
  /\ broke = Failing /\ replaced = FALSE

-----------------------------------------------------------------------------
\* cli_live_tick, when due: an unreachable gateway ends the round; an answer
\* may carry no epoch, which changes nothing
NewEpoch(e) == gwSeen /\ e # gwEpoch

Tick ==
  /\ pc = "idle"
  /\ gateway = "up"
  /\ pc' = "probe" /\ i' = 1 /\ spent' = 0 /\ names' = {}
  /\ \/ moved' = NewEpoch(epoch) /\ gwEpoch' = epoch /\ gwSeen' = TRUE
     \/ moved' = FALSE /\ UNCHANGED <<gwEpoch, gwSeen>>
  /\ UNCHANGED <<envVars, seen, up, histVars>>

\* live_probe: through the gateway; a timeout or a cancel is indeterminate, and
\* a gateway that is gone answers as a failed service would
Outcome(s) == IF gateway = "down" THEN {"failed", "indeterminate"}
              ELSE CASE state[s] = "ok" -> {"ok", "indeterminate"}
                     [] state[s] = "failed" -> {"failed", "indeterminate"}
                     [] state[s] = "hung" -> {"indeterminate"}
Cost(s) == IF state[s] = "hung" THEN ProbeCost ELSE 0

\* live_step: only down to up is a restart (mutant: also the first view)
CameUp(s, out) == ~up[s] /\ out = "ok"
Back(s, out)   == seen[s] /\ ~up[s] /\ out = "ok"

\* A timeout keeps the view
Definite(out) == out # "indeterminate"

\* The time is tested before each probe (mutant: it is not)
NoBudget(t) == TRUE
InBudget(t) == t < RoundBudget

\* The loop over the table (mutants: it stays, it counts twice)
StayHere == i' = i
Twice    == i' = i + 2
Advance  == i' = i + 1

Probe ==
  /\ pc = "probe"
  /\ i <= Len(Table) /\ InBudget(spent)
  /\ \E out \in Outcome(Table[i]) :
       LET s == Table[i] IN
       IF Definite(out)
       THEN /\ names' = IF Back(s, out) THEN names \cup {s} ELSE names
            /\ up' = [up EXCEPT ![s] = out = "ok"]
            /\ seen' = [seen EXCEPT ![s] = TRUE]
       ELSE UNCHANGED <<names, up, seen>>
  /\ spent' = spent + Cost(Table[i]) /\ Advance
  /\ UNCHANGED <<envVars, gwSeen, gwEpoch, pc, moved, histVars>>

RoundOver ==
  /\ pc = "probe" /\ (i > Len(Table) \/ ~InBudget(spent))
  /\ pc' = "end"
  /\ UNCHANGED <<envVars, viewVars, i, spent, names, moved, histVars>>

\* The session is rebuilt if anything was found restarted
Rebuild ==
  /\ pc = "end" /\ pc' = "idle" /\ i' = 1 /\ spent' = 0 /\ names' = {} /\ moved' = FALSE
  /\ broke' = (broke \ names) \cup Failing
  /\ replaced' = IF moved THEN epoch # gwEpoch ELSE replaced
  /\ UNCHANGED <<envVars, viewVars>>

-----------------------------------------------------------------------------
\* The backend
ServiceMoves(s) ==
  /\ \E st \in State \ {state[s]} :
       /\ state' = [state EXCEPT ![s] = st]
       /\ broke' = IF st = "failed" THEN broke \cup {s} ELSE broke
  /\ UNCHANGED <<gateway, epoch, viewVars, roundVars, replaced>>

GatewayMoves ==
  /\ \/ gateway = "up" /\ gateway' = "down" /\ broke' = Service
        /\ UNCHANGED <<epoch, replaced>>
     \/ gateway = "down" /\ gateway' = "up" /\ UNCHANGED broke
        /\ \/ UNCHANGED <<epoch, replaced>>
           \/ epoch < MaxEpoch /\ epoch' = epoch + 1 /\ replaced' = TRUE
  /\ UNCHANGED <<state, viewVars, roundVars>>

Round == Tick \/ Probe \/ RoundOver \/ Rebuild
Next == Round \/ GatewayMoves \/ \E s \in Service : ServiceMoves(s)

Spec == Init /\ [][Next]_vars
\* The editor keeps beating while it waits for a line, and every probe ends
FairSpec == Spec /\ WF_vars(Round)

-----------------------------------------------------------------------------
\* The session is rebuilt only because of a service that failed, or lost its
\* gateway, after it was last reported, or of a gateway that was replaced:
\* never for a slow or canceled probe, nor for what the first view finds,
\* although views are old and services move between the probes.
RebuildIsJustified == pc = "end" => names \subseteq broke /\ (moved => replaced)

\* Services that hang take the input away for the budget and one probe more.
InputGivenBack == spent < RoundBudget + ProbeCost \/ spent = 0

\* A round ends, whatever the services do in it.
RoundEnds == pc # "idle" ~> pc = "idle"

\* Documented by cli_live.c:41 ("over budget yields the input, the rest is
\* deferred") and cli_live.h:41: a service that a round did not reach is
\* reached by a later one, as long as the gateway answers.
RestIsDeferred ==
  \A k \in 1..Len(Table) :
    (pc = "end" /\ i = k) ~> (gateway = "down" \/ (pc = "probe" /\ i > k))

\* Documented by cli_live.c:118 ("gateway unreachable included: when the state
\* is unknown the existing view is not touched"): no probe changes the view
\* of a service while the gateway is unreachable.
ViewKept == [][gateway = "down" => UNCHANGED up]_vars
=============================================================================
