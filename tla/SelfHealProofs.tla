---------------------------- MODULE SelfHealProofs ----------------------------
(* The limits of the self-heal scan, for every table, limit, backoff and     *)
(* probe budget: spawns are bounded, and a backoff apart when measured from  *)
(* the start of their scan.                                                  *)
EXTENDS SelfHeal, TLAPS

\* What the two probes of each of the first k - 1 entries take at most
Used(k) == 2 * (k - 1) * ProbeMax

\* The delay is the sum of the probes made so far
DelayIsProbes ==
  /\ pc = "probe" => delay <= Used(i)
  /\ pc = "start" => delay <= Used(i) + ProbeMax
  /\ pc = "fork"  => delay <= Used(i) + 2 * ProbeMax

\* An entry about to spawn has passed both limits, and still passes them
\* after the second probe
LimitsPassed == pc \in {"start", "fork"} => restarts[i] < MaxRestarts /\ age[i] >= Backoff + delay

\* The age of an entry tells no more than the time since its last spawn and the
\* delay with which that came
AgeIsOfFork ==
  \A e \in Entries : forks[e] > 0 => sinceFork[e] = Backoff \/ age[e] <= sinceFork[e] + late[e]

IInv == TypeOK /\ DelayIsProbes /\ LimitsPassed /\ RestartsBounded /\ AgeIsOfFork

-----------------------------------------------------------------------------
LEMMA Distribute ==
  ASSUME NEW a \in Nat, NEW b \in Nat, NEW c \in Nat
  PROVE  (a + b) * c = a * c + b * c /\ a * c \in Nat /\ b * c \in Nat
  OBVIOUS

\* The probes of the entries up to the k-th fit into the longest scan.
LEMMA UsedFacts ==
  ASSUME NEW k \in Entries
  PROVE  /\ Used(k) \in Nat /\ Used(k + 1) = Used(k) + 2 * ProbeMax
         /\ Used(k) + 2 * ProbeMax <= MaxDelay
<1> DEFINE m == k - 1
<1>1. m \in Nat /\ k = m + 1 /\ m + 1 <= Len(Table) /\ Len(Table) \in Nat /\ ProbeMax \in Nat
  BY HealAssumption DEF Entries
<1>2. Used(k) = 2 * (m * ProbeMax) /\ m * ProbeMax \in Nat
  BY <1>1 DEF Used
<1>3. Used(k + 1) = 2 * ((m + 1) * ProbeMax)
  BY <1>1 DEF Used
<1>4. (m + 1) * ProbeMax = m * ProbeMax + ProbeMax
  BY <1>1
<1>5. MaxDelay = 2 * (Len(Table) * ProbeMax)
  BY <1>1 DEF MaxDelay
<1>6. (m + 1) * ProbeMax <= Len(Table) * ProbeMax
  <2> DEFINE r == Len(Table) - (m + 1)
  <2>1. r \in Nat /\ Len(Table) = (m + 1) + r
    BY <1>1
  <2> HIDE DEF m, r
  <2>2. /\ Len(Table) * ProbeMax = (m + 1) * ProbeMax + r * ProbeMax
        /\ r * ProbeMax \in Nat /\ (m + 1) * ProbeMax \in Nat
    BY <1>1, <2>1, Distribute
  <2> QED BY <2>2
<1> HIDE DEF m
<1> QED BY <1>1, <1>2, <1>3, <1>4, <1>5, <1>6

LEMMA ScanStarts == Used(1) = 0
  BY HealAssumption DEF Used

LEMMA Constants ==
  /\ MaxRestarts \in Nat /\ Backoff \in Nat /\ Poll \in Nat /\ ProbeMax \in Nat /\ ProbeMax >= 1
  /\ MaxDelay \in Nat /\ Horizon = Backoff + MaxDelay /\ 1 \in Entries /\ Len(Table) \in Nat
  /\ \A k \in Entries : Table[k] \in Daemons
<1>1. Len(Table) \in Nat /\ 1 \in Entries /\ \A k \in Entries : Table[k] \in Daemons
  BY HealAssumption DEF Entries
<1>2. Len(Table) * ProbeMax \in Nat
  BY <1>1, HealAssumption
<1> QED BY <1>1, <1>2, HealAssumption DEF MaxDelay, Horizon

\* No probe takes longer than its budget.
LEMMA ProbeFits == ASSUME NEW ns, NEW d \in ProbeTime(ns) PROVE d \in 0..ProbeMax
  BY Constants DEF ProbeTime

\* A capped count.
LEMMA CapFacts ==
  ASSUME NEW a \in Nat, NEW m \in Nat
  PROVE  /\ Capped(a, m) \in 0..m /\ Capped(a, m) <= a
         /\ Capped(a, m) = m \/ Capped(a, m) = a
  BY DEF Capped

\* Time that passes in a scan: all ages grow, none past its cap.
LEMMA ElapseFacts ==
  ASSUME TypeOK, NEW d \in 0..ProbeMax, Elapse(d)
  PROVE  /\ delay' = (IF pc = "prompt" THEN 0 ELSE delay + d) /\ sinceScan' \in 0..Poll
         /\ age' \in [Entries -> 0..Horizon] /\ sinceFork' \in [Entries -> 0..Backoff]
         /\ \A e \in Entries : /\ age'[e] = Capped(age[e] + d, Horizon)
                               /\ sinceFork'[e] = Capped(sinceFork[e] + d, Backoff)
<1>1. /\ \A e \in Entries : age[e] + d \in Nat /\ sinceFork[e] + d \in Nat
      /\ sinceScan + d \in Nat /\ Horizon \in Nat /\ Backoff \in Nat /\ Poll \in Nat
  <2>1. d \in Nat /\ Horizon \in Nat /\ Backoff \in Nat /\ Poll \in Nat
    BY Constants
  <2>2. \A e \in Entries : age[e] \in 0..Horizon /\ sinceFork[e] \in 0..Backoff
    BY DEF TypeOK
  <2>3. sinceScan \in 0..Poll
    BY DEF TypeOK
  <2> QED BY <2>1, <2>2, <2>3
<1>2. /\ \A e \in Entries : Capped(age[e] + d, Horizon) \in 0..Horizon
      /\ \A e \in Entries : Capped(sinceFork[e] + d, Backoff) \in 0..Backoff
      /\ Capped(sinceScan + d, Poll) \in 0..Poll
  BY <1>1, CapFacts
<1> QED BY <1>2 DEF Elapse

\* An age that is past a backoff stays past it, and one that tells no more than
\* the last spawn goes on to tell no more.
LEMMA AgeFacts ==
  ASSUME TypeOK, NEW e \in Entries, NEW d \in 0..ProbeMax,
         NEW a, a = Capped(age[e] + d, Horizon),
         NEW s, s = Capped(sinceFork[e] + d, Backoff)
  PROVE  /\ \A x \in 0..MaxDelay : age[e] + d >= Backoff + x => a >= Backoff + x
         /\ sinceFork[e] = Backoff => s = Backoff
         /\ age[e] <= sinceFork[e] + late[e] => s = Backoff \/ a <= s + late[e]
<1>1. /\ age[e] \in Nat /\ sinceFork[e] \in 0..Backoff /\ late[e] \in Nat /\ d \in Nat
      /\ Horizon = Backoff + MaxDelay /\ MaxDelay \in Nat /\ Backoff \in Nat
  BY Constants DEF TypeOK
<1>2. (a = age[e] + d \/ (a = Horizon /\ age[e] + d > Horizon)) /\ a <= age[e] + d
  BY <1>1 DEF Capped
<1>3. s = sinceFork[e] + d \/ s = Backoff
  BY DEF Capped
<1>4. sinceFork[e] = Backoff => s = Backoff
  BY <1>1 DEF Capped
<1> QED BY <1>1, <1>2, <1>3, <1>4

\* To the next entry: its delay is what the probes so far took.
LEMMA NextEntryFacts ==
  ASSUME TypeOK, NextEntry, delay' \in 0..MaxDelay, delay' <= Used(i) + 2 * ProbeMax
  PROVE  pc' \in {"prompt", "probe"} /\ i' \in Entries /\ DelayIsProbes'
<1>1. i \in Entries /\ Used(i + 1) = Used(i) + 2 * ProbeMax /\ i \in Nat
  BY UsedFacts DEF TypeOK, Entries
<1>2. CASE i < Len(Table)
  <2>1. pc' = "probe" /\ i' = i + 1
    BY <1>2 DEF NextEntry
  <2>2. i' \in Entries
    BY <1>1, <1>2, <2>1, Constants DEF Entries
  <2>3. Used(i') = Used(i) + 2 * ProbeMax
    BY <1>1, <2>1
  <2> QED BY <2>1, <2>2, <2>3 DEF DelayIsProbes
<1>3. CASE ~(i < Len(Table))
  BY <1>3, Constants DEF NextEntry, DelayIsProbes
<1> QED BY <1>2, <1>3

-----------------------------------------------------------------------------
\* The step of a scan that looks at an entry.
LEMMA ProbeStep == IInv /\ Probe => IInv'
<1> SUFFICES ASSUME IInv, Probe PROVE IInv'
  OBVIOUS
<1>1. TypeOK /\ i \in Entries /\ pc = "probe" /\ UNCHANGED <<state, restarts, forks, late>>
  BY DEF IInv, TypeOK, Probe, histVars
<1>2. PICK d \in 0..ProbeMax : Elapse(d)
  BY ProbeFits DEF Probe
<1>3. /\ delay' = delay + d /\ sinceScan' \in 0..Poll
      /\ age' \in [Entries -> 0..Horizon] /\ sinceFork' \in [Entries -> 0..Backoff]
      /\ \A e \in Entries : /\ age'[e] = Capped(age[e] + d, Horizon)
                            /\ sinceFork'[e] = Capped(sinceFork[e] + d, Backoff)
  BY <1>1, <1>2, ElapseFacts
<1>4. delay \in Nat /\ delay <= Used(i) /\ delay' \in Nat /\ delay' <= Used(i) + ProbeMax
  <2>1. delay \in 0..MaxDelay
    BY <1>1 DEF TypeOK
  <2>2. delay <= Used(i)
    BY <1>1 DEF IInv, DelayIsProbes
  <2>3. Used(i) \in Nat /\ ProbeMax \in Nat /\ MaxDelay \in Nat /\ d \in 0..ProbeMax
    BY <1>1, UsedFacts, Constants
  <2> QED BY <1>3, <2>1, <2>2, <2>3
<1>5. delay' \in 0..MaxDelay /\ delay' <= Used(i) + 2 * ProbeMax
  BY <1>1, <1>4, UsedFacts, Constants
<1>6. /\ i' \in Entries /\ pc' \in {"prompt", "probe", "start"} /\ DelayIsProbes'
      /\ LimitsPassed'
  <2>1. CASE pc' = "start" /\ i' = i /\ BudgetLeft(i) /\ BackoffOver(i)
    <3>1. restarts[i] < MaxRestarts /\ age[i] >= Backoff + delay
      BY <2>1 DEF BudgetLeft, BackoffOver
    <3>2. age[i] \in Nat /\ d \in Nat /\ Backoff \in Nat
      BY <1>1, Constants DEF TypeOK
    <3>3. age[i] + d >= Backoff + delay'
      BY <1>3, <1>4, <3>1, <3>2
    <3>4. age'[i] >= Backoff + delay'
      BY <1>1, <1>3, <1>5, <3>3, AgeFacts
    <3> QED BY <1>1, <1>4, <2>1, <3>1, <3>4 DEF DelayIsProbes, LimitsPassed
  <2>2. CASE NextEntry
    BY <1>1, <1>5, <2>2, NextEntryFacts DEF LimitsPassed
  <2> QED BY <2>1, <2>2 DEF Probe
<1>7. TypeOK'
  BY <1>1, <1>3, <1>5, <1>6 DEF TypeOK
<1>8. RestartsBounded'
  BY <1>1 DEF IInv, RestartsBounded
<1>9. AgeIsOfFork'
  BY <1>1, <1>3, AgeFacts DEF IInv, AgeIsOfFork
<1> QED BY <1>6, <1>7, <1>8, <1>9 DEF IInv

\* The second probe: the spawn goes on, or the daemon is online after all and
\* its entry is stamped with the start of the scan.
LEMMA StartProbeStep == IInv /\ StartProbe => IInv'
<1> SUFFICES ASSUME IInv, StartProbe PROVE IInv'
  OBVIOUS
<1>1. TypeOK /\ i \in Entries /\ pc = "start" /\ UNCHANGED <<state, forks, late>>
  BY DEF IInv, TypeOK, StartProbe, histVars
<1>2. PICK d \in 0..ProbeMax :
       /\ delay' = delay + d /\ sinceScan' = Capped(sinceScan + d, Poll)
       /\ sinceFork' = [e \in Entries |-> Capped(sinceFork[e] + d, Backoff)]
       /\ age' = [e \in Entries |-> IF e = i /\ Online(Table[i]) THEN delay'
                                    ELSE Capped(age[e] + d, Horizon)]
  BY ProbeFits DEF StartProbe
<1>3. delay \in Nat /\ d \in Nat /\ delay' \in Nat /\ delay' <= Used(i) + 2 * ProbeMax
  <2>1. delay \in 0..MaxDelay
    BY <1>1 DEF TypeOK
  <2>2. delay <= Used(i) + ProbeMax
    BY <1>1 DEF IInv, DelayIsProbes
  <2>3. Used(i) \in Nat /\ ProbeMax \in Nat /\ MaxDelay \in Nat
    BY <1>1, UsedFacts, Constants
  <2> QED BY <1>2, <2>1, <2>2, <2>3
<1>4. delay' \in 0..MaxDelay
  BY <1>1, <1>3, UsedFacts, Constants
<1>5. restarts[i] < MaxRestarts /\ age[i] >= Backoff + delay
  BY <1>1 DEF IInv, LimitsPassed
<1>6. /\ \A e \in Entries : age[e] \in Nat /\ sinceFork[e] \in 0..Backoff /\ late[e] \in Nat
      /\ sinceScan \in 0..Poll /\ restarts \in [Entries -> 0..MaxRestarts]
      /\ Backoff \in Nat /\ Poll \in Nat /\ Horizon \in Nat /\ MaxDelay \in Nat /\ MaxRestarts \in Nat
      /\ Horizon = Backoff + MaxDelay
  <2>1. \A e \in Entries : age[e] \in 0..Horizon /\ late[e] \in 0..MaxDelay /\ sinceFork[e] \in 0..Backoff
    BY <1>1 DEF TypeOK
  <2>2. sinceScan \in 0..Poll /\ restarts \in [Entries -> 0..MaxRestarts]
    BY <1>1 DEF TypeOK
  <2> QED BY <2>1, <2>2, Constants
<1>7. /\ sinceScan' \in 0..Poll /\ sinceFork' \in [Entries -> 0..Backoff] /\ age' \in [Entries -> 0..Horizon]
  <2>0. /\ sinceScan + d \in Nat
        /\ \A e \in Entries : sinceFork[e] + d \in Nat /\ age[e] + d \in Nat
    BY <1>3, <1>6
  <2>1. Capped(sinceScan + d, Poll) \in 0..Poll
    BY <1>6, <2>0, CapFacts
  <2>2. \A e \in Entries : Capped(sinceFork[e] + d, Backoff) \in 0..Backoff
    BY <1>6, <2>0, CapFacts
  <2>3. \A e \in Entries : Capped(age[e] + d, Horizon) \in 0..Horizon
    BY <1>6, <2>0, CapFacts
  <2>4. delay' \in 0..Horizon
    BY <1>4, <1>6
  <2> QED BY <1>2, <2>1, <2>2, <2>3, <2>4
<1>8. /\ i' \in Entries /\ pc' \in {"prompt", "probe", "fork"} /\ DelayIsProbes' /\ LimitsPassed'
      /\ restarts' \in [Entries -> 0..MaxRestarts] /\ RestartsBounded'
  <2>1. CASE Online(Table[i])
    <3>1. restarts' = [restarts EXCEPT ![i] = restarts[i] + 1] /\ NextEntry
      BY <2>1 DEF StartProbe, Counted
    <3>2. restarts' \in [Entries -> 0..MaxRestarts]
      BY <1>1, <1>5, <1>6, <3>1
    <3>3. \A e \in Entries : restarts'[e] \in Nat /\ restarts'[e] >= restarts[e] /\ restarts'[e] <= MaxRestarts
      BY <1>1, <1>5, <1>6, <3>1
    <3>4. \A e \in Entries : forks[e] <= restarts[e] /\ forks[e] \in Nat /\ restarts[e] \in Nat
      BY <1>1, Constants DEF IInv, RestartsBounded, TypeOK
    <3>5. RestartsBounded'
      BY <1>1, <3>3, <3>4 DEF RestartsBounded
    <3> QED BY <1>1, <1>3, <1>4, <3>1, <3>2, <3>5, NextEntryFacts DEF LimitsPassed
  <2>2. CASE ~Online(Table[i])
    <3>1. pc' = "fork" /\ UNCHANGED <<i, restarts>>
      BY <2>2 DEF StartProbe
    <3>2. age'[i] = Capped(age[i] + d, Horizon)
      BY <1>1, <1>2, <2>2
    <3>3. age[i] + d >= Backoff + delay'
      BY <1>1, <1>2, <1>3, <1>5, <1>6
    <3>4. age'[i] >= Backoff + delay'
      BY <1>1, <1>4, <3>2, <3>3, AgeFacts
    <3> QED BY <1>1, <1>3, <1>5, <1>6, <3>1, <3>4 DEF DelayIsProbes, LimitsPassed, IInv, RestartsBounded
  <2> QED BY <2>1, <2>2
<1>9. TypeOK'
  BY <1>1, <1>4, <1>7, <1>8 DEF TypeOK
<1>10. AgeIsOfFork'
  <2> SUFFICES ASSUME NEW e \in Entries, forks[e] > 0
               PROVE  sinceFork'[e] = Backoff \/ age'[e] <= sinceFork'[e] + late[e]
    BY <1>1 DEF AgeIsOfFork
  <2>1. sinceFork[e] = Backoff \/ age[e] <= sinceFork[e] + late[e]
    BY DEF IInv, AgeIsOfFork
  <2>2. sinceFork'[e] = Capped(sinceFork[e] + d, Backoff)
    BY <1>2
  <2>3. CASE e = i /\ Online(Table[i])
    <3>1. age'[e] = delay'
      BY <1>2, <2>3
    <3>2. CASE sinceFork[e] = Backoff
      BY <1>1, <2>2, <3>2, AgeFacts
    <3>3. CASE age[e] <= sinceFork[e] + late[e]
      <4>1. delay <= sinceFork[e] + late[e]
        BY <1>3, <1>5, <1>6, <2>3, <3>3
      <4>2. sinceFork'[e] = Backoff \/ sinceFork'[e] = sinceFork[e] + d
        BY <2>2 DEF Capped
      <4> QED BY <1>2, <1>3, <1>6, <3>1, <4>1, <4>2
    <3> QED BY <2>1, <3>2, <3>3
  <2>4. CASE ~(e = i /\ Online(Table[i]))
    <3>1. age'[e] = Capped(age[e] + d, Horizon)
      BY <1>2, <2>4
    <3> QED BY <1>1, <2>1, <2>2, <3>1, AgeFacts
  <2> QED BY <2>3, <2>4
<1> QED BY <1>8, <1>9, <1>10 DEF IInv

\* A spawn is counted, and stamped with the start of the scan.
LEMMA ForkStep == IInv /\ Fork => IInv'
<1> SUFFICES ASSUME IInv, Fork PROVE IInv'
  OBVIOUS
<1>1. TypeOK /\ i \in Entries /\ pc = "fork" /\ UNCHANGED <<delay, sinceScan>> /\ NextEntry
  BY DEF IInv, TypeOK, Fork
<1>2. /\ restarts' = [restarts EXCEPT ![i] = restarts[i] + 1] /\ age' = [age EXCEPT ![i] = delay]
      /\ forks' = [forks EXCEPT ![i] = forks[i] + 1] /\ sinceFork' = [sinceFork EXCEPT ![i] = 0]
      /\ late' = [late EXCEPT ![i] = delay]
  BY DEF Fork, Counted, Stamped
<1>3. /\ restarts[i] < MaxRestarts /\ restarts \in [Entries -> 0..MaxRestarts]
      /\ forks \in [Entries -> 0..MaxRestarts] /\ age \in [Entries -> 0..Horizon]
      /\ sinceFork \in [Entries -> 0..Backoff] /\ late \in [Entries -> 0..MaxDelay]
      /\ delay \in 0..MaxDelay /\ \A e \in Entries : forks[e] <= restarts[e] /\ restarts[e] <= MaxRestarts
  BY <1>1 DEF IInv, TypeOK, LimitsPassed, RestartsBounded
<1>4. MaxRestarts \in Nat /\ Backoff \in Nat /\ MaxDelay \in Nat /\ Horizon = Backoff + MaxDelay
  BY Constants
<1>5. forks[i] + 1 \in 0..MaxRestarts /\ restarts[i] + 1 \in 0..MaxRestarts /\ forks[i] + 1 <= restarts[i] + 1
  BY <1>1, <1>3, <1>4
<1>6. /\ restarts' \in [Entries -> 0..MaxRestarts] /\ forks' \in [Entries -> 0..MaxRestarts]
      /\ age' \in [Entries -> 0..Horizon] /\ sinceFork' \in [Entries -> 0..Backoff]
      /\ late' \in [Entries -> 0..MaxDelay]
  <2>1. delay \in 0..Horizon /\ 0 \in 0..Backoff
    BY <1>3, <1>4
  <2> QED BY <1>2, <1>3, <1>5, <2>1
<1>7. state' \in [Daemons -> {"dead", "booting", "up", "hung"}]
  <2>1. state \in [Daemons -> {"dead", "booting", "up", "hung"}] /\ Table[i] \in Daemons
    BY <1>1, Constants DEF TypeOK
  <2>2. PICK s \in {"booting", state[Table[i]]} : state' = [state EXCEPT ![Table[i]] = s]
    BY DEF Fork
  <2> QED BY <2>1, <2>2
<1>8. pc' \in {"prompt", "probe"} /\ i' \in Entries /\ DelayIsProbes'
  BY <1>1, <1>3, NextEntryFacts DEF IInv, DelayIsProbes
<1>9. TypeOK'
  BY <1>1, <1>3, <1>6, <1>7, <1>8 DEF TypeOK
<1>10. RestartsBounded'
  BY <1>1, <1>2, <1>3, <1>4, <1>5 DEF RestartsBounded
<1>11. AgeIsOfFork'
  <2> SUFFICES ASSUME NEW e \in Entries, forks'[e] > 0
               PROVE  sinceFork'[e] = Backoff \/ age'[e] <= sinceFork'[e] + late'[e]
    BY DEF AgeIsOfFork
  <2>1. CASE e = i
    <3>1. age'[e] = delay /\ sinceFork'[e] = 0 /\ late'[e] = delay
      BY <1>2, <1>3, <2>1
    <3> QED BY <1>3, <1>4, <3>1
  <2>2. CASE e # i
    <3>1. UNCHANGED <<age[e], sinceFork[e], late[e], forks[e]>>
      BY <1>2, <1>3, <2>2
    <3> QED BY <3>1 DEF IInv, AgeIsOfFork
  <2> QED BY <2>1, <2>2
<1> QED BY <1>8, <1>9, <1>10, <1>11 DEF IInv, LimitsPassed

\* A spawn that fails counts as none.
LEMMA ForkFailsStep == IInv /\ ForkFails => IInv'
<1> SUFFICES ASSUME IInv, ForkFails PROVE IInv'
  OBVIOUS
<1>1. TypeOK /\ pc = "fork" /\ NextEntry /\ UNCHANGED <<state, timeVars, restarts, histVars>>
  BY DEF IInv, ForkFails
<1>2. UNCHANGED <<state, delay, sinceScan, age, sinceFork, restarts, forks, late>>
  BY <1>1 DEF timeVars, histVars
<1>3. delay' \in 0..MaxDelay /\ delay' <= Used(i) + 2 * ProbeMax
  BY <1>1, <1>2 DEF IInv, DelayIsProbes, TypeOK
<1>4. pc' \in {"prompt", "probe"} /\ i' \in Entries /\ DelayIsProbes'
  BY <1>1, <1>3, NextEntryFacts
<1> QED BY <1>1, <1>2, <1>4 DEF IInv, TypeOK, LimitsPassed, RestartsBounded, AgeIsOfFork

\* The user waits at the prompt.
LEMMA WaitStep == IInv /\ Wait => IInv'
<1> SUFFICES ASSUME IInv, Wait PROVE IInv'
  OBVIOUS
<1>1. TypeOK /\ pc = "prompt" /\ Elapse(1) /\ UNCHANGED <<state, pc, i, restarts, forks, late>>
  BY DEF IInv, Wait, scanVars, histVars
<1>2. 1 \in 0..ProbeMax
  BY Constants
<1>3. /\ delay' = 0 /\ sinceScan' \in 0..Poll
      /\ age' \in [Entries -> 0..Horizon] /\ sinceFork' \in [Entries -> 0..Backoff]
      /\ \A e \in Entries : /\ age'[e] = Capped(age[e] + 1, Horizon)
                            /\ sinceFork'[e] = Capped(sinceFork[e] + 1, Backoff)
  BY <1>1, <1>2, ElapseFacts
<1>4. AgeIsOfFork'
  BY <1>1, <1>2, <1>3, AgeFacts DEF IInv, AgeIsOfFork
<1>5. delay' \in 0..MaxDelay
  BY <1>3, Constants
<1> QED BY <1>1, <1>3, <1>4, <1>5 DEF IInv, TypeOK, DelayIsProbes, LimitsPassed, RestartsBounded

\* A scan begins.
LEMMA ScanStartStep == IInv /\ ScanStart => IInv'
<1> SUFFICES ASSUME IInv, ScanStart PROVE IInv'
  OBVIOUS
<1>1. /\ TypeOK /\ pc' = "probe" /\ i' = 1 /\ delay' = 0 /\ sinceScan' = 0
      /\ UNCHANGED <<state, age, sinceFork, restarts, forks, late>>
  BY DEF IInv, ScanStart, histVars
<1>2. 0 \in 0..MaxDelay /\ 0 \in 0..Poll /\ 1 \in Entries /\ Used(1) = 0
  BY Constants, ScanStarts
<1>3. TypeOK'
  BY <1>1, <1>2 DEF TypeOK
<1>4. DelayIsProbes' /\ LimitsPassed'
  BY <1>1, <1>2 DEF DelayIsProbes, LimitsPassed
<1> QED BY <1>1, <1>3, <1>4 DEF IInv, RestartsBounded, AgeIsOfFork

\* Commands and the daemons themselves change states of daemons only.
LEMMA StatesStep ==
  ASSUME IInv, NEW ns \in Daemons, DaemonCommand(ns) \/ DaemonMoves(ns)
  PROVE  IInv'
<1> DEFINE State == {"dead", "booting", "up", "hung"}
<1>1. TypeOK /\ state \in [Daemons -> State] /\ state[ns] \in State
  BY DEF IInv, TypeOK
<1>2. UNCHANGED <<pc, i, delay, sinceScan, age, sinceFork, restarts, forks, late>>
  BY DEF DaemonCommand, DaemonMoves, Command, scanVars, timeVars, histVars
<1>3. state' \in [Daemons -> State]
  <2>1. ASSUME NEW after \in SUBSET State, Command(ns, after) PROVE state' \in [Daemons -> State]
    <3>1. PICK s \in after : state' = [state EXCEPT ![ns] = s]
      BY <2>1 DEF Command
    <3> QED BY <1>1, <3>1
  <2>2. \A s \in State : Started(ns, s) \subseteq State
    BY DEF Started
  <2>3. Stopped(ns) \subseteq State
    BY <1>1 DEF Stopped
  <2>4. Stopped(ns) \in SUBSET State /\ Started(ns, state[ns]) \in SUBSET State
        /\ UNION {Started(ns, s) : s \in Stopped(ns)} \in SUBSET State
    <3> HIDE DEF State
    <3> QED BY <1>1, <2>2, <2>3
  <2>5. CASE DaemonCommand(ns)
    <3> HIDE DEF State
    <3> QED BY <2>1, <2>4, <2>5 DEF DaemonCommand
  <2>6. CASE DaemonMoves(ns)
    <3>1. PICK s \in State : state' = [state EXCEPT ![ns] = s]
      BY <1>1, <2>6 DEF DaemonMoves
    <3> QED BY <1>1, <3>1
  <2> QED BY <2>5, <2>6
<1>4. TypeOK'
  BY <1>1, <1>2, <1>3 DEF TypeOK
<1>5. DelayIsProbes' /\ LimitsPassed' /\ RestartsBounded' /\ AgeIsOfFork'
  BY <1>2 DEF IInv, DelayIsProbes, LimitsPassed, RestartsBounded, AgeIsOfFork
<1> QED BY <1>4, <1>5 DEF IInv

LEMMA InitIInv == Init => IInv
<1> SUFFICES ASSUME Init PROVE IInv
  OBVIOUS
<1>1. /\ state \in [Daemons -> {"dead", "up"}] /\ pc = "prompt" /\ i = 1 /\ delay = 0 /\ sinceScan = Poll
      /\ restarts = [e \in Entries |-> 0] /\ forks = [e \in Entries |-> 0] /\ late = [e \in Entries |-> 0]
      /\ age = [e \in Entries |-> Horizon] /\ sinceFork = [e \in Entries |-> Backoff]
  BY DEF Init
<1>2. /\ 0 \in 0..MaxRestarts /\ 0 \in 0..MaxDelay /\ Horizon \in 0..Horizon /\ Backoff \in 0..Backoff
      /\ Poll \in 0..Poll /\ 1 \in Entries /\ MaxRestarts \in Nat
  BY Constants
<1>3. TypeOK
  BY <1>1, <1>2 DEF TypeOK
<1>4. DelayIsProbes /\ LimitsPassed /\ RestartsBounded /\ AgeIsOfFork
  BY <1>1, <1>2 DEF DelayIsProbes, LimitsPassed, RestartsBounded, AgeIsOfFork
<1> QED BY <1>3, <1>4 DEF IInv

-----------------------------------------------------------------------------
LEMMA Step == IInv /\ [Next]_vars => IInv'
<1> SUFFICES ASSUME IInv, [Next]_vars PROVE IInv'
  OBVIOUS
<1>1. CASE UNCHANGED vars
  <2>1. UNCHANGED <<state, pc, i, delay, sinceScan, age, sinceFork, restarts, forks, late>>
    BY <1>1 DEF vars, scanVars, timeVars, histVars
  <2>2. TypeOK'
    BY <2>1 DEF IInv, TypeOK
  <2> QED BY <2>1, <2>2 DEF IInv, DelayIsProbes, LimitsPassed, RestartsBounded, AgeIsOfFork
<1> QED BY <1>1, WaitStep, ScanStartStep, ProbeStep, StartProbeStep, ForkStep, ForkFailsStep, StatesStep
        DEF Next, Scan

\* Clock, limits and counts of cli_daemon_lifecycle.c belong together in
\* every behaviour.
THEOREM Inductive == Spec => []IInv
BY InitIInv, Step, PTL DEF Spec

\* Every variable of the scan keeps its type; its delay is at most two probes
\* for each entry.
THEOREM TypeCorrect == Spec => []TypeOK
<1>1. IInv => TypeOK
  BY DEF IInv
<1> QED BY Inductive, <1>1, PTL

\* No crash loop makes the command line spawn more than the limit, for any
\* table and whatever the daemons do between the two probes of an entry.
THEOREM SpawnsAreBounded == Spec => []RestartsBounded
<1>1. IInv => RestartsBounded
  BY DEF IInv
<1> QED BY Inductive, <1>1, PTL

\* Two spawns of an entry are a backoff apart, less the delay with which the
\* first came, for any table, backoff and probe budget.
THEOREM BackoffIsKept == Spec => BackoffFromScan
<1>1. IInv /\ [Next]_vars =>
        [\A e \in Entries : forks'[e] > forks[e] /\ forks[e] > 0 => sinceFork[e] + late[e] >= Backoff]_vars
  <2> SUFFICES ASSUME IInv, [Next]_vars, NEW e \in Entries, forks'[e] > forks[e], forks[e] > 0
               PROVE  sinceFork[e] + late[e] >= Backoff
    OBVIOUS
  <2>1. forks[e] \in Nat /\ late[e] \in Nat /\ sinceFork[e] \in Nat /\ Backoff \in Nat /\ delay \in Nat
        /\ age[e] \in Nat
    <3>1. forks[e] \in 0..MaxRestarts /\ late[e] \in 0..MaxDelay /\ sinceFork[e] \in 0..Backoff
          /\ delay \in 0..MaxDelay /\ age[e] \in 0..Horizon
      BY DEF IInv, TypeOK
    <3> QED BY <3>1, Constants
  <2>2. ~UNCHANGED forks
    BY <2>1
  <2>3. Fork
    BY <2>2 DEF Next, Scan, Wait, ScanStart, Probe, StartProbe, ForkFails, DaemonCommand, Command, DaemonMoves,
      vars, histVars
  <2>4. e = i
    BY <2>1, <2>3 DEF Fork, IInv, TypeOK
  <2>5. age[e] >= Backoff + delay
    BY <2>3, <2>4 DEF Fork, IInv, LimitsPassed
  <2>6. sinceFork[e] = Backoff \/ age[e] <= sinceFork[e] + late[e]
    BY DEF IInv, AgeIsOfFork
  <2> QED BY <2>1, <2>5, <2>6
<1> QED BY Inductive, <1>1, PTL DEF Spec, BackoffFromScan
=============================================================================
