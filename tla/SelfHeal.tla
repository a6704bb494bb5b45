------------------------------ MODULE SelfHeal ------------------------------
(* The self-heal scan of cmd/cli_daemon_lifecycle.c, run by the main loop    *)
(* before each prompt, and the /daemon commands that start and stop the same *)
(* daemons. A scan reads the clock once and then probes the daemons of its   *)
(* table one after the other; a probe of a hung daemon takes its whole       *)
(* budget, and daemons change state at any time, between two probes of the   *)
(* same entry too. Time is kept as ages: the code's "now" is the start of    *)
(* the scan, delay is how long ago that was. The daemons are external.       *)
EXTENDS Naturals, Sequences

CONSTANTS Daemons,      \* the namespaces
          Table,        \* g_selfheal.agents: a namespace may be listed twice
          Installed,    \* the daemons whose binary exists
          MaxRestarts, Backoff, Poll,  \* AIRY_SELF_HEAL_*
          ProbeMax      \* the longest health_check (6000 ms)

ASSUME HealAssumption ==
  /\ Table \in Seq(Daemons) /\ Len(Table) > 0 /\ Installed \subseteq Daemons
  /\ MaxRestarts \in Nat /\ Backoff \in Nat /\ Poll \in Nat /\ ProbeMax \in Nat \ {0}

VARIABLES state,        \* of each daemon
          pc, i,        \* where the scan is, and at which entry of the table
          delay,        \* the time since the scan read the clock
          sinceScan,    \* the time since last_scan_ms
          restarts,     \* restarts of each entry
          age,          \* the time since last_restart_ms of each entry
          forks,        \* history: processes the entry has really spawned
          sinceFork,    \* history: the time since the last of them
          late          \* history: its delay from the start of its scan

scanVars == <<pc, i>>
timeVars == <<delay, sinceScan, age, sinceFork>>
histVars == <<forks, late>>
vars == <<state, scanVars, timeVars, restarts, histVars>>

Entries  == 1..Len(Table)
MaxDelay == 2 * Len(Table) * ProbeMax    \* two probes for each entry
\* Ages stop counting where no comparison can change any more
Horizon  == Backoff + MaxDelay
Capped(n, m) == IF n > m THEN m ELSE n

TypeOK ==
  /\ state \in [Daemons -> {"dead", "booting", "up", "hung"}]
  /\ pc \in {"prompt", "probe", "start", "fork"} /\ i \in Entries
  /\ delay \in 0..MaxDelay /\ sinceScan \in 0..Poll
  /\ restarts \in [Entries -> 0..MaxRestarts] /\ forks \in [Entries -> 0..MaxRestarts]
  /\ age \in [Entries -> 0..Horizon] /\ sinceFork \in [Entries -> 0..Backoff]
  /\ late \in [Entries -> 0..MaxDelay]

\* cli_daemon_lifecycle_init: nothing was scanned or restarted yet
Init ==
  /\ state \in [Daemons -> {"dead", "up"}]
  /\ pc = "prompt" /\ i = 1 /\ delay = 0 /\ sinceScan = Poll
  /\ restarts = [e \in Entries |-> 0] /\ forks = restarts /\ late = restarts
  /\ age = [e \in Entries |-> Horizon] /\ sinceFork = [e \in Entries |-> Backoff]

-----------------------------------------------------------------------------
\* d units of time pass, at the prompt or inside a scan
Elapse(d) ==
  /\ delay' = IF pc = "prompt" THEN 0 ELSE delay + d
  /\ sinceScan' = Capped(sinceScan + d, Poll)
  /\ age' = [e \in Entries |-> Capped(age[e] + d, Horizon)]
  /\ sinceFork' = [e \in Entries |-> Capped(sinceFork[e] + d, Backoff)]

\* The user is at the prompt
Wait ==
  /\ pc = "prompt" /\ Elapse(1)
  /\ UNCHANGED <<state, scanVars, restarts, histVars>>

Online(ns) == state[ns] = "up"
\* A hung daemon holds the probe for its whole budget, a dead one refuses it
ProbeTime(ns) == CASE state[ns] = "hung" -> {ProbeMax}
                   [] state[ns] = "up"   -> {0, 1}
                   [] OTHER              -> {0}

ScanStart ==
  /\ pc = "prompt" /\ sinceScan >= Poll
  /\ pc' = "probe" /\ i' = 1 /\ delay' = 0 /\ sinceScan' = 0
  /\ UNCHANGED <<state, age, sinceFork, restarts, histVars>>

\* To the next entry, or back to the prompt (mutant: a skipped entry is kept)
StayHere  == pc' = "probe" /\ i' = i
NextEntry == IF i < Len(Table) THEN pc' = "probe" /\ i' = i + 1
                               ELSE pc' = "prompt" /\ i' = 1

\* The limits of an entry, by the clock read at the start of the scan
\* (mutants: > instead of >=; the backoff is not tested)
BudgetOver(e) == restarts[e] <= MaxRestarts
BudgetLeft(e) == restarts[e] < MaxRestarts
NoBackoff(e)   == TRUE
BackoffOver(e) == age[e] >= Backoff + delay

Probe ==
  /\ pc = "probe"
  /\ \E d \in ProbeTime(Table[i]) : Elapse(d)
  /\ IF ~Online(Table[i]) /\ BudgetLeft(i) /\ BackoffOver(i) /\ Table[i] \in Installed
     THEN pc' = "start" /\ i' = i
     ELSE NextEntry
  /\ UNCHANGED <<state, restarts, histVars>>

\* cli_daemon_start probes again: a daemon that has come up is "already
\* online", which the scan counts as a restart too
Counted(e) == restarts' = [restarts EXCEPT ![e] = @ + 1]

StartProbe ==
  /\ pc = "start"
  /\ \E d \in ProbeTime(Table[i]) :
       /\ delay' = delay + d /\ sinceScan' = Capped(sinceScan + d, Poll)
       /\ sinceFork' = [e \in Entries |-> Capped(sinceFork[e] + d, Backoff)]
       /\ age' = [e \in Entries |-> IF e = i /\ Online(Table[i]) THEN delay'
                                    ELSE Capped(age[e] + d, Horizon)]
  /\ IF Online(Table[i]) THEN Counted(i) /\ NextEntry
                         ELSE pc' = "fork" /\ UNCHANGED <<i, restarts>>
  /\ UNCHANGED <<state, histVars>>

\* last_restart_ms becomes the start of the scan
Stamped == age' = [age EXCEPT ![i] = delay]

\* A second process beside a hung one may take its place or not
Fork ==
  /\ pc = "fork"
  /\ \E s \in IF state[Table[i]] = "dead" THEN {"booting"} ELSE {"booting", state[Table[i]]} :
       state' = [state EXCEPT ![Table[i]] = s]
  /\ Counted(i) /\ Stamped
  /\ forks' = [forks EXCEPT ![i] = @ + 1]
  /\ sinceFork' = [sinceFork EXCEPT ![i] = 0]
  /\ late' = [late EXCEPT ![i] = delay]
  /\ NextEntry
  /\ UNCHANGED <<delay, sinceScan>>

ForkFails ==
  /\ pc = "fork" /\ NextEntry
  /\ UNCHANGED <<state, timeVars, restarts, histVars>>

-----------------------------------------------------------------------------
\* /daemon stop and /daemon start: a stop may time out, and a restart is a
\* stop, whatever its outcome, followed by a start
Stopped(ns) == IF Online(ns) THEN {"up", "dead"} ELSE {state[ns]}
Started(ns, s) == IF s = "up" \/ ns \notin Installed THEN {s}
                  ELSE IF s = "hung" THEN {"booting", "hung"} ELSE {"booting"}

Command(ns, after) ==
  /\ pc = "prompt"
  /\ \E s \in after : state' = [state EXCEPT ![ns] = s]
  /\ UNCHANGED <<scanVars, timeVars, restarts, histVars>>

DaemonCommand(ns) ==
  \/ Command(ns, Stopped(ns))
  \/ Command(ns, Started(ns, state[ns]))
  \/ Command(ns, UNION {Started(ns, s) : s \in Stopped(ns)})

\* The daemons: boot, crash, hang and recover at any time
DaemonMoves(ns) ==
  /\ \E s \in CASE state[ns] = "dead" -> {} [] state[ns] = "booting" -> {"up", "dead"}
                [] state[ns] = "up" -> {"hung", "dead"} [] state[ns] = "hung" -> {"up", "dead"} :
       state' = [state EXCEPT ![ns] = s]
  /\ UNCHANGED <<scanVars, timeVars, restarts, histVars>>

Scan == Probe \/ StartProbe \/ Fork \/ ForkFails
Next == \/ Wait \/ ScanStart \/ Scan
        \/ \E ns \in Daemons : DaemonCommand(ns) \/ DaemonMoves(ns)

Spec == Init /\ [][Next]_vars
\* A scan runs to its end: every probe has a budget
FairSpec == Spec /\ WF_vars(Scan)

-----------------------------------------------------------------------------
\* What an entry spawns is bounded by what it counts, and that by the limit:
\* no crash loop makes the CLI spawn without end, also when daemons come and
\* go between the two probes of an entry.
RestartsBounded == \A e \in Entries : forks[e] <= restarts[e] /\ restarts[e] <= MaxRestarts

\* Two spawns of an entry are a backoff apart, less the time the first one
\* came after the start of its scan: the clock is read once for all entries.
BackoffFromScan ==
  [][\A e \in Entries : forks'[e] > forks[e] /\ forks[e] > 0
                          => sinceFork[e] + late[e] >= Backoff]_vars

\* A scan always gives the prompt back.
ScanEnds == pc # "prompt" ~> pc = "prompt"

\* Documented by CHANGELOG.md:665 ("with a restart limit and a backoff,
\* against restart storms"): two spawns of an entry are a backoff apart.
BackoffKept ==
  [][\A e \in Entries : forks'[e] > forks[e] /\ forks[e] > 0
                          => sinceFork[e] >= Backoff]_vars
=============================================================================
