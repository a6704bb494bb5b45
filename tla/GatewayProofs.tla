--------------------------- MODULE GatewayProofs ---------------------------
(* Theorems about LiveWatch, for every table without duplicates, every cost  *)
(* of a probe and every budget, and about the gateway call (GwCall), for     *)
(* every set of callers, every timeout and number of renewals, and every     *)
(* size of body and buffer. The watch's view is old whenever it is read; the *)
(* argument is that it errs on one side only: what it takes for down has     *)
(* really failed since it was last reported. The argument about a call is a  *)
(* sum: the silence it has seen, what is left of its budget and the renewals *)
(* it still has make up exactly the documented bound.                        *)
EXTENDS LiveWatch, GwCall, TLAPS

Entries == 1..Len(Table)
Behind  == {Table[k] : k \in {j \in Entries : j < i}}

\* What fails now is known to have failed.
FailureIsNoted == Failing \subseteq broke

\* A service the view takes for down failed after its last report.
DownHasBroken == \A s \in Service : seen[s] /\ ~up[s] => s \in broke

\* What a round found restarted failed, is up in the view, and is an entry
\* that this round has left behind: a later entry cannot take it down again.
NamesAreJustified ==
  /\ pc = "idle" => names = {} /\ ~moved
  /\ names \subseteq broke
  /\ \A s \in names : up[s]
  /\ pc = "probe" => names \subseteq Behind

\* An epoch that is not the one in the view is of a gateway that was replaced.
NewIsReplaced == (gwSeen /\ epoch # gwEpoch => replaced) /\ (moved => replaced)

\* The probes so far took what their number allows.
SpentOnProbes == spent \in Nat /\ spent <= (i - 1) * ProbeCost

\* The two halves of TypeOK
Numbers ==
  /\ epoch \in 1..MaxEpoch /\ gwEpoch \in 0..MaxEpoch
  /\ i \in 1..Len(Table) + 1 /\ spent \in 0..Len(Table) * ProbeCost
Flags ==
  /\ state \in [Service -> State] /\ gateway \in {"up", "down"}
  /\ seen \in [Service -> BOOLEAN] /\ up \in [Service -> BOOLEAN] /\ gwSeen \in BOOLEAN
  /\ pc \in {"idle", "probe", "end"} /\ names \subseteq Service /\ moved \in BOOLEAN
  /\ broke \subseteq Service /\ replaced \in BOOLEAN

IInv == /\ Numbers /\ Flags /\ FailureIsNoted /\ DownHasBroken /\ NamesAreJustified
        /\ NewIsReplaced /\ SpentOnProbes /\ InputGivenBack

-----------------------------------------------------------------------------
LEMMA TypeParts == Numbers /\ Flags => TypeOK
BY Zenon DEF Numbers, Flags, TypeOK

LEMMA InitHolds == Init => IInv
<1> SUFFICES ASSUME Init PROVE IInv
  OBVIOUS
<1>0. Len(Table) * ProbeCost \in Nat /\ (1 - 1) * ProbeCost = 0
  BY LiveAssumption
<1>1. Numbers /\ Flags
  <2>1. Failing \subseteq Service
    BY DEF Failing
  <2>2. Numbers
    BY <1>0, LiveAssumption DEF Init, Numbers
  <2>3. Flags
    BY <2>1, Zenon DEF Init, Flags
  <2>4. QED  BY <2>2, <2>3
<1>2. FailureIsNoted /\ DownHasBroken /\ NamesAreJustified /\ NewIsReplaced
  BY DEF Init, FailureIsNoted, DownHasBroken, NamesAreJustified, NewIsReplaced
<1>3. SpentOnProbes /\ InputGivenBack
  BY <1>0 DEF Init, SpentOnProbes, InputGivenBack
<1>4. QED  BY <1>1, <1>2, <1>3 DEF IInv

LEMMA TickStep == ASSUME IInv, Tick PROVE IInv'
<1>0. Len(Table) * ProbeCost \in Nat /\ (1 - 1) * ProbeCost = 0 /\ 1 \in 1..Len(Table) + 1
  BY LiveAssumption
<1>1. Numbers' /\ Flags'
  <2>1. epoch \in 0..MaxEpoch
    BY DEF IInv, Numbers
  <2>2. Numbers'
    BY <1>0, <2>1 DEF IInv, Numbers, Tick, envVars
  <2>3. moved' \in BOOLEAN /\ gwSeen' \in BOOLEAN
    BY Zenon DEF IInv, Flags, Tick, NewEpoch
  <2>4. Flags'
    BY <2>3, Zenon DEF IInv, Flags, Tick, envVars, histVars
  <2>5. QED  BY <2>2, <2>4
<1>2. FailureIsNoted' /\ DownHasBroken'
  BY DEF IInv, FailureIsNoted, DownHasBroken, Failing, Tick, envVars, histVars
<1>3. NamesAreJustified'
  BY DEF NamesAreJustified, Tick
<1>4. NewIsReplaced'
  <2>1. epoch' = epoch /\ replaced' = replaced
    BY DEF Tick, envVars, histVars
  <2>2. CASE moved' = NewEpoch(epoch) /\ gwEpoch' = epoch
    <3>1. NewEpoch(epoch) => replaced
      BY Zenon DEF IInv, NewIsReplaced, NewEpoch
    <3>2. QED  BY <2>1, <2>2, <3>1, Zenon DEF NewIsReplaced
  <2>3. CASE moved' = FALSE /\ UNCHANGED <<gwEpoch, gwSeen>>
    BY <2>1, <2>3 DEF IInv, NewIsReplaced
  <2>4. QED  BY <2>2, <2>3 DEF Tick
<1>5. SpentOnProbes' /\ InputGivenBack'
  BY <1>0 DEF SpentOnProbes, InputGivenBack, Tick
<1>6. QED  BY <1>1, <1>2, <1>3, <1>4, <1>5 DEF IInv

LEMMA RoundOverStep == ASSUME IInv, RoundOver PROVE IInv'
BY DEF IInv, Numbers, Flags, FailureIsNoted, DownHasBroken, NamesAreJustified, NewIsReplaced,
       SpentOnProbes, InputGivenBack, Failing, RoundOver, envVars, viewVars, histVars

\* What was reported may be forgotten: it is up in the view.
LEMMA RebuildStep == ASSUME IInv, Rebuild PROVE IInv'
<1>0. Len(Table) * ProbeCost \in Nat /\ (1 - 1) * ProbeCost = 0 /\ 1 \in 1..Len(Table) + 1
  BY LiveAssumption
<1>1. Numbers' /\ Flags'
  <2>1. Failing \subseteq Service
    BY DEF Failing
  <2>2. Numbers'
    BY <1>0 DEF IInv, Numbers, Rebuild, envVars, viewVars
  <2>3. replaced' \in BOOLEAN
    BY Zenon DEF IInv, Flags, Rebuild
  <2>4. Flags'
    BY <2>1, <2>3, Zenon DEF IInv, Flags, Rebuild, envVars, viewVars
  <2>5. QED  BY <2>2, <2>4
<1>2. FailureIsNoted'
  BY DEF FailureIsNoted, Failing, Rebuild, envVars
<1>3. DownHasBroken'
  BY DEF IInv, DownHasBroken, NamesAreJustified, Rebuild, viewVars
<1>4. NamesAreJustified' /\ NewIsReplaced'
  BY DEF IInv, NamesAreJustified, NewIsReplaced, Rebuild, viewVars, envVars
<1>5. SpentOnProbes' /\ InputGivenBack'
  BY <1>0 DEF SpentOnProbes, InputGivenBack, Rebuild
<1>6. QED  BY <1>1, <1>2, <1>3, <1>4, <1>5 DEF IInv

\* The entry under probe: its service is none that this round has named.
LEMMA EntryFacts ==
  ASSUME IInv, pc = "probe", i <= Len(Table)
  PROVE  i \in Entries /\ Table[i] \in Service /\ Table[i] \notin names
<1>1. i \in Entries /\ Len(Table) \in Nat
  BY LiveAssumption DEF IInv, Numbers, Entries
<1>2. \A j \in Entries : j < i => Table[j] # Table[i]
  BY <1>1, LiveAssumption DEF Entries
<1>3. names \subseteq Behind
  BY DEF IInv, NamesAreJustified
<1>4. QED  BY <1>1, <1>2, <1>3 DEF Behind, Service, Entries

\* A probe that fails for certain has met a failure.
LEMMA FailedIsFailing ==
  ASSUME NEW s \in Service, NEW out \in Outcome(s), Definite(out), out # "ok", Flags
  PROVE  s \in Failing
BY DEF Outcome, Definite, Failing, Flags, State

LEMMA CostFacts ==
  ASSUME NEW s
  PROVE  Cost(s) \in 0..ProbeCost
BY LiveAssumption DEF Cost

LEMMA ProbeTimes ==
  ASSUME IInv, Probe
  PROVE  Numbers' /\ SpentOnProbes' /\ InputGivenBack'
<1>1. /\ i \in Nat /\ i >= 1 /\ i <= Len(Table) /\ Len(Table) \in Nat /\ ProbeCost \in Nat
      /\ spent \in Nat /\ spent <= (i - 1) * ProbeCost /\ spent < RoundBudget
      /\ RoundBudget \in Nat
  BY LiveAssumption DEF IInv, Numbers, SpentOnProbes, Probe, InBudget
<1>2. i' = i + 1 /\ spent' = spent + Cost(Table[i]) /\ UNCHANGED <<epoch, gwEpoch>>
  BY DEF Probe, Advance, envVars
<1>3. PICK c \in 0..ProbeCost : spent' = spent + c
  BY <1>2, CostFacts
<1>4. PICK m \in Nat : i = m + 1
  BY <1>1
<1>5. (m + 1) * ProbeCost = m * ProbeCost + ProbeCost /\ m * ProbeCost \in Nat
  BY <1>1, <1>4
<1> DEFINE r == Len(Table) - (m + 1)
<1>6. r \in Nat /\ Len(Table) = (m + 1) + r
  BY <1>1, <1>4
<1> HIDE DEF r
<1>7. /\ Len(Table) * ProbeCost = (m + 1) * ProbeCost + r * ProbeCost
      /\ r * ProbeCost \in Nat
  BY <1>1, <1>4, <1>6
<1>8. spent' \in Nat /\ spent' <= (m + 1) * ProbeCost
  BY <1>1, <1>3, <1>4, <1>5
<1>9. SpentOnProbes'
  BY <1>2, <1>4, <1>8 DEF SpentOnProbes
<1>10. Numbers'
  <2>1. spent' \in 0..Len(Table) * ProbeCost
    BY <1>5, <1>7, <1>8, <1>1
  <2>2. QED  BY <1>1, <1>2, <2>1 DEF IInv, Numbers
<1>11. InputGivenBack'
  BY <1>1, <1>3 DEF InputGivenBack
<1>12. QED  BY <1>9, <1>10, <1>11

\* What a probe does to the view and to the names, for the one service it is about
LEMMA ProbeViews ==
  ASSUME IInv, Probe
  PROVE  /\ Flags' /\ FailureIsNoted' /\ DownHasBroken' /\ NamesAreJustified' /\ NewIsReplaced'
<1> DEFINE s == Table[i]
<1>1. i \in Entries /\ s \in Service /\ s \notin names
  BY EntryFacts DEF Probe
<1>2. PICK out \in Outcome(s) :
        IF Definite(out)
        THEN /\ names' = IF Back(s, out) THEN names \cup {s} ELSE names
             /\ up' = [up EXCEPT ![s] = out = "ok"]
             /\ seen' = [seen EXCEPT ![s] = TRUE]
        ELSE UNCHANGED <<names, up, seen>>
  BY DEF Probe
<1>3. /\ UNCHANGED <<state, gateway, epoch, gwSeen, gwEpoch, pc, moved, broke, replaced>>
      /\ pc = "probe" /\ i' = i + 1
  BY DEF Probe, envVars, histVars, Advance
<1>4. /\ seen \in [Service -> BOOLEAN] /\ up \in [Service -> BOOLEAN]
      /\ names \subseteq Service /\ names \subseteq broke /\ \A t \in names : up[t]
      /\ \A t \in Service : seen[t] /\ ~up[t] => t \in broke
  BY DEF IInv, Flags, NamesAreJustified, DownHasBroken
<1>5. Behind' = Behind \cup {s}
  <2>1. \A j \in Entries : j < i + 1 <=> j < i \/ j = i
    BY <1>1, LiveAssumption DEF Entries
  <2>2. QED  BY <1>1, <1>3, <2>1 DEF Behind
<1>6. FailureIsNoted' /\ NewIsReplaced'
  BY <1>3 DEF IInv, FailureIsNoted, NewIsReplaced, Failing
<1>7. Definite(out) /\ out # "ok" => s \in broke
  BY <1>1, FailedIsFailing DEF IInv, FailureIsNoted
<1>8. CASE ~Definite(out)
  <2>1. UNCHANGED <<names, up, seen>>
    BY <1>2, <1>8
  <2>2. QED
    BY <1>3, <1>5, <1>6, <2>1 DEF IInv, Flags, DownHasBroken, NamesAreJustified
<1>9. CASE Definite(out)
  <2>1. /\ names' = IF Back(s, out) THEN names \cup {s} ELSE names
        /\ up' = [up EXCEPT ![s] = out = "ok"] /\ seen' = [seen EXCEPT ![s] = TRUE]
    BY <1>2, <1>9
  <2>2. /\ seen' \in [Service -> BOOLEAN] /\ up' \in [Service -> BOOLEAN]
        /\ names' \subseteq names \cup {s} /\ names' \subseteq Service
    BY <1>1, <1>4, <2>1
  <2>3. /\ \A t \in Service \ {s} : up'[t] = up[t] /\ seen'[t] = seen[t]
        /\ up'[s] = (out = "ok")
    BY <1>1, <1>4, <2>1
  <2>4. s \in names' => out = "ok" /\ s \in broke
    BY <1>1, <1>4, <2>1 DEF Back
  <2>5. Flags'
    BY <1>3, <2>2, Zenon DEF IInv, Flags
  <2>6. DownHasBroken'
    BY <1>1, <1>3, <1>4, <1>7, <1>9, <2>3 DEF DownHasBroken
  <2>7. \A t \in names' : up'[t] /\ t \in broke
    BY <1>1, <1>4, <2>2, <2>3, <2>4
  <2>8. NamesAreJustified'
    BY <1>3, <1>5, <2>2, <2>7 DEF IInv, NamesAreJustified
  <2>9. QED  BY <1>6, <2>5, <2>6, <2>8
<1>10. QED  BY <1>8, <1>9

LEMMA ProbeStep == ASSUME IInv, Probe PROVE IInv'
BY ProbeTimes, ProbeViews DEF IInv

-----------------------------------------------------------------------------
\* The backend only adds to what failed and to what was replaced.
LEMMA ServiceStep == ASSUME IInv, NEW s \in Service, ServiceMoves(s) PROVE IInv'
<1>1. PICK st \in State \ {state[s]} :
        /\ state' = [state EXCEPT ![s] = st]
        /\ broke' = IF st = "failed" THEN broke \cup {s} ELSE broke
  BY DEF ServiceMoves
<1>2. UNCHANGED <<gateway, epoch, viewVars, roundVars, replaced>>
  BY DEF ServiceMoves
<1>3. Numbers' /\ SpentOnProbes' /\ InputGivenBack' /\ NewIsReplaced'
  BY <1>2 DEF IInv, Numbers, SpentOnProbes, InputGivenBack, NewIsReplaced, viewVars, roundVars
<1>4. state' \in [Service -> State] /\ broke' \subseteq Service /\ broke \subseteq broke'
  BY <1>1 DEF IInv, Flags
<1>5. Flags'
  BY <1>2, <1>4, Zenon DEF IInv, Flags, viewVars, roundVars
<1>6. FailureIsNoted'
  BY <1>1, <1>2, <1>4 DEF IInv, Flags, FailureIsNoted, Failing
<1>7. DownHasBroken' /\ NamesAreJustified'
  BY <1>2, <1>4 DEF IInv, DownHasBroken, NamesAreJustified, Behind, viewVars, roundVars
<1>8. QED  BY <1>3, <1>5, <1>6, <1>7 DEF IInv

LEMMA GatewayStep == ASSUME IInv, GatewayMoves PROVE IInv'
<1>1. UNCHANGED <<state, viewVars, roundVars>>
  BY DEF GatewayMoves
<1>2. /\ gateway' \in {"up", "down"} /\ broke' \subseteq Service /\ broke \subseteq broke'
      /\ gateway' = "down" => broke' = Service
      /\ gateway' = "up" => gateway = "down" /\ broke' = broke
  BY DEF GatewayMoves, IInv, Flags
<1>3. \/ epoch' = epoch /\ replaced' = replaced
      \/ epoch < MaxEpoch /\ epoch' = epoch + 1 /\ replaced' = TRUE
  BY DEF GatewayMoves
<1>4. Numbers' /\ SpentOnProbes' /\ InputGivenBack'
  <2>1. epoch' \in 1..MaxEpoch
    BY <1>3, LiveAssumption DEF IInv, Numbers
  <2>2. QED  BY <1>1, <2>1 DEF IInv, Numbers, SpentOnProbes, InputGivenBack, viewVars, roundVars
<1>5. replaced' \in BOOLEAN
  BY <1>3 DEF IInv, Flags
<1>6. Flags'
  BY <1>1, <1>2, <1>5, Zenon DEF IInv, Flags, viewVars, roundVars
<1>7. FailureIsNoted'
  <2>1. CASE gateway' = "down"
    BY <1>2, <2>1 DEF FailureIsNoted, Failing
  <2>2. CASE gateway' = "up"
    BY <1>1, <1>2, <2>2 DEF IInv, FailureIsNoted, Failing
  <2>3. QED  BY <1>2, <2>1, <2>2
<1>8. DownHasBroken' /\ NamesAreJustified'
  BY <1>1, <1>2 DEF IInv, DownHasBroken, NamesAreJustified, Behind, viewVars, roundVars
<1>9. NewIsReplaced'
  BY <1>1, <1>3 DEF IInv, NewIsReplaced, viewVars, roundVars
<1>10. QED  BY <1>4, <1>6, <1>7, <1>8, <1>9 DEF IInv

LEMMA StepHolds == ASSUME IInv, [Next]_vars PROVE IInv'
<1>1. CASE Round
  BY <1>1, TickStep, ProbeStep, RoundOverStep, RebuildStep DEF Round
<1>2. CASE GatewayMoves \/ \E s \in Service : ServiceMoves(s)
  BY <1>2, GatewayStep, ServiceStep
<1>3. CASE UNCHANGED vars
  BY <1>3 DEF vars, envVars, viewVars, roundVars, histVars, IInv, Numbers, Flags, FailureIsNoted,
     DownHasBroken, NamesAreJustified, NewIsReplaced, SpentOnProbes, InputGivenBack, Failing, Behind
<1>4. QED  BY <1>1, <1>2, <1>3 DEF Next

\* The conjunction of the types and the parts above holds in every reachable state.
THEOREM Inductive == Spec => []IInv
BY InitHolds, StepHolds, PTL DEF Spec

\* Every variable keeps its type, for any table, cost and budget.
THEOREM TypeCorrect == Spec => []TypeOK
<1>1. IInv => TypeOK  BY TypeParts DEF IInv
<1>2. QED  BY <1>1, Inductive, PTL

\* The watch of cli_live.c rebuilds the session only for services that failed
\* since they were last reported, or for a gateway that was replaced.
THEOREM RebuildsAreJustified == Spec => []RebuildIsJustified
<1>1. IInv => RebuildIsJustified
  BY DEF IInv, NamesAreJustified, NewIsReplaced, RebuildIsJustified
<1>2. QED  BY <1>1, Inductive, PTL

\* A round of probes takes the input away for less than its budget and one probe.
THEOREM InputComesBack == Spec => []InputGivenBack
<1>1. IInv => InputGivenBack  BY DEF IInv
<1>2. QED  BY <1>1, Inductive, PTL
-----------------------------------------------------------------------------
(* The gateway call *)

\* A call between its begin and its return
UnderWay == {"connect", "send", "recv"}

\* What a call has not used of its time is what it has not been silent.
Charged == \A c \in Callers :
  stage[c] \in UnderWay => quiet[c] + budget[c] + Timeout * renewals[c] = Bound

\* A call under way has not ended in any way.
NotEnded == \A c \in Callers : stage[c] \in UnderWay => how[c] = "none"

CallInv == CallTypeOK /\ Charged /\ NotEnded /\ SilenceIsBounded /\ NotCutShort

-----------------------------------------------------------------------------
(* Arithmetic of the budget *)

LEMMA BoundIsNat == Bound \in Nat /\ Bound >= Timeout /\ Bound = Timeout + Timeout * Renewals
<1>1. ASSUME NEW t \in Nat, NEW r \in Nat
      PROVE  t * (1 + r) = t + t * r /\ t * r \in Nat
  BY SMT
<1>2. QED  BY <1>1, GwAssumption DEF Bound

\* One renewal is worth one timeout.
LEMMA RenewalIsTimeout ==
  ASSUME NEW t \in Nat, NEW r \in Nat, r > 0
  PROVE  t * r = t + t * (r - 1) /\ t * (r - 1) \in Nat
<1>1. PICK s \in Nat : r = s + 1  BY SMT
<1>2. t * (s + 1) = t + t * s /\ t * s \in Nat  BY SMT
<1>3. QED  BY <1>1, <1>2

\* What the renewals left are worth
LEMMA RenewalsLeft ==
  ASSUME NEW t \in Nat, NEW r \in Nat
  PROVE  t * r \in Nat /\ (r = 0 => t * r = 0)
BY SMT

\* A capped count of time.
LEMMA LaterFacts ==
  ASSUME NEW t \in 0..LongTime, NEW d \in Nat
  PROVE  Later(t, d) \in 0..LongTime /\ (t + d <= Bound => Later(t, d) = t + d)
BY BoundIsNat DEF Later, LongTime

\* What a slice without a byte does to the sum: one more of silence for one
\* less of budget, or for a renewal that is worth a whole budget.
LEMMA SliceKeepsSum ==
  ASSUME NEW q \in Nat, NEW b \in 1..Timeout, NEW r \in Nat, q + b + Timeout * r = Bound
  PROVE  /\ q + 1 <= Bound
         /\ b > 1 => (q + 1) + (b - 1) + Timeout * r = Bound
         /\ b = 1 /\ r > 0 => (q + 1) + Timeout + Timeout * (r - 1) = Bound
         /\ b = 1 /\ r = 0 => q + 1 = Bound
<1>1. Timeout \in Nat /\ Bound \in Nat  BY GwAssumption, BoundIsNat
<1>2. Timeout * r \in Nat /\ (r = 0 => Timeout * r = 0)  BY <1>1, RenewalsLeft
<1>3. r > 0 => Timeout * r = Timeout + Timeout * (r - 1) /\ Timeout * (r - 1) \in Nat
  BY <1>1, RenewalIsTimeout
<1>4. QED  BY <1>1, <1>2, <1>3

-----------------------------------------------------------------------------
(* One lemma per action: it keeps the inductive invariant *)

LEMMA CallInitHolds == CallInit => CallInv
<1> SUFFICES ASSUME CallInit PROVE CallInv
  OBVIOUS
<1>1. CallTypeOK
  <2>1. NoReason \in Reason /\ "ok" \in Rc
    BY DEF Reason, NoReason, Rc
  <2>2. size \in [Callers -> 0..MaxSize] /\ got \in [Callers -> 0..MaxSize + 1]
    BY GwAssumption DEF CallInit
  <2>3. quiet \in [Callers -> 0..Bound + 1] /\ elapsed \in [Callers -> 0..LongTime]
    BY BoundIsNat DEF CallInit, LongTime
  <2>4. budget \in [Callers -> 1..Timeout] /\ renewals \in [Callers -> 0..Renewals]
    BY GwAssumption DEF CallInit
  <2>5. QED  BY <2>1, <2>2, <2>3, <2>4 DEF CallInit, CallTypeOK
<1>2. Charged /\ NotEnded /\ SilenceIsBounded /\ NotCutShort
  BY BoundIsNat DEF CallInit, Charged, NotEnded, SilenceIsBounded, NotCutShort, UnderWay
<1>3. QED  BY <1>1, <1>2 DEF CallInv

\* Ctrl+C and the reset touch the flag only.
LEMMA FlagStep ==
  ASSUME CallInv, Sigint \/ \E c \in Callers : Reset(c)
  PROVE  CallInv'
<1>1. cancel' \in BOOLEAN /\ UNCHANGED <<err, stage, rxVars, rc, callHist>>
  BY DEF Sigint, Reset
<1>2. QED
  BY <1>1 DEF CallInv, CallTypeOK, Charged, NotEnded, SilenceIsBounded, NotCutShort, rxVars, callHist

LEMMA CallStep == ASSUME CallInv, NEW c \in Callers, Call(c) PROVE CallInv'
<1>1. CallTypeOK'
  BY GwAssumption, BoundIsNat DEF CallInv, CallTypeOK, Call, LongTime
<1>2. Charged'
  BY BoundIsNat, GwAssumption DEF CallInv, CallTypeOK, Charged, Call, UnderWay
<1>3. NotEnded'
  BY DEF CallInv, CallTypeOK, NotEnded, Call, UnderWay
<1>4. SilenceIsBounded'
  BY BoundIsNat DEF CallInv, CallTypeOK, SilenceIsBounded, Call
<1>5. NotCutShort'
  BY DEF CallInv, CallTypeOK, NotCutShort, Call
<1>6. QED  BY <1>1, <1>2, <1>3, <1>4, <1>5 DEF CallInv

LEMMA ConnectedStep == ASSUME CallInv, NEW c \in Callers, Connected(c) PROVE CallInv'
<1>1. CallTypeOK'
  BY GwAssumption, BoundIsNat DEF CallInv, CallTypeOK, Connected, rxVars, LongTime
<1>2. (Charged /\ NotEnded /\ SilenceIsBounded /\ NotCutShort)'
  BY DEF CallInv, CallTypeOK, Charged, NotEnded, SilenceIsBounded, NotCutShort, Connected, rxVars, UnderWay
<1>3. QED  BY <1>1, <1>2 DEF CallInv

LEMMA SentStep == ASSUME CallInv, NEW c \in Callers, Sent(c) PROVE CallInv'
BY DEF CallInv, CallTypeOK, Charged, NotEnded, SilenceIsBounded, NotCutShort, Sent, rxVars, callHist, UnderWay

\* A return with the response and the clocks as they are keeps the invariant,
\* if it tells the truth about the silence and the response.
LEMMA ReturnStep ==
  ASSUME CallInv, NEW c \in Callers, NEW r \in Rc,
         NEW h \in {"failed", "canceled", "big", "closed"}, Return(c, r, h),
         UNCHANGED <<rxVars, quiet, elapsed>>
  PROVE  CallInv'
<1>1. CallTypeOK'
  BY DEF CallInv, CallTypeOK, Return, rxVars, Reason
<1>2. (Charged /\ NotEnded /\ SilenceIsBounded /\ NotCutShort)'
  BY DEF CallInv, CallTypeOK, Charged, NotEnded, SilenceIsBounded, NotCutShort, Return, rxVars, UnderWay
<1>3. QED  BY <1>1, <1>2 DEF CallInv

LEMMA AllOutcomes == ASSUME NEW c, NEW n PROVE Outcomes(c, n) \subseteq Rc
BY DEF Outcomes, Rc, Failure

LEMMA EndStep ==
  ASSUME CallInv, NEW c \in Callers, TransportFails(c) \/ Canceled(c) \/ Closed(c)
  PROVE  CallInv'
<1>1. CASE TransportFails(c)
  BY <1>1, ReturnStep DEF TransportFails, Rc, Failure
<1>2. CASE Canceled(c)
  BY <1>2, ReturnStep DEF Canceled, Rc
<1>3. CASE Closed(c)
  BY <1>3, ReturnStep, AllOutcomes DEF Closed
<1>4. QED  BY <1>1, <1>2, <1>3

LEMMA AfterStep ==
  ASSUME CallInv, NEW c \in Callers, Describe(c) \/ GoOn(c)
  PROVE  CallInv'
<1>1. /\ stage' = [stage EXCEPT ![c] = "idle"]
      /\ err' \in Reason /\ shown' \in [Callers -> Reason]
      /\ UNCHANGED <<cancel, rxVars, rc, how, quiet, elapsed>>
  BY DEF Describe, GoOn, CallInv, CallTypeOK, Reason, NoReason
<1>2. CallTypeOK'
  BY <1>1 DEF CallInv, CallTypeOK, rxVars
<1>3. (Charged /\ NotEnded /\ SilenceIsBounded /\ NotCutShort)'
  BY <1>1 DEF CallInv, CallTypeOK, Charged, NotEnded, SilenceIsBounded, NotCutShort, rxVars, UnderWay
<1>4. QED  BY <1>2, <1>3 DEF CallInv

\* Bytes end a call only with all that was declared, and leave the sum alone.
LEMMA BytesStep == ASSUME CallInv, NEW c \in Callers, Bytes(c) PROVE CallInv'
<1>1. PICK n \in got[c] + 1..size[c] + 1 :
        /\ got' = [got EXCEPT ![c] = n]
        /\ \/ n >= MaxBody /\ Return(c, "socket", "big")
           \/ n < MaxBody /\ Complete(c, n) /\ \E r \in Outcomes(c, n) : Return(c, r, "complete")
           \/ n < MaxBody /\ ~Complete(c, n) /\ UNCHANGED <<cancel, err, stage, rc, how, shown>>
  BY DEF Bytes
<1>2. /\ stage[c] = "recv" /\ UNCHANGED <<framing, size, budget, renewals, quiet>>
      /\ \E d \in {0, 1} : elapsed' = [elapsed EXCEPT ![c] = Later(@, d)]
  BY DEF Bytes
<1>3. n \in 0..MaxSize + 1 /\ (framing[c] = "length" /\ Complete(c, n) => n = size[c] + 1)
  BY GwAssumption DEF CallInv, CallTypeOK, Complete
<1>4. \/ \E r \in Rc, h \in {"big", "complete"} :
             Return(c, r, h) /\ (h = "complete" => Complete(c, n))
      \/ UNCHANGED <<cancel, err, stage, rc, how, shown>>
  BY <1>1, AllOutcomes DEF Rc, Failure
<1>5. elapsed' \in [Callers -> 0..LongTime]
  <2>1. elapsed \in [Callers -> 0..LongTime] /\ 0 \in Nat /\ 1 \in Nat
    BY DEF CallInv, CallTypeOK
  <2>2. \A d \in {0, 1} : Later(elapsed[c], d) \in 0..LongTime
    BY <2>1, LaterFacts
  <2>3. QED  BY <1>2, <2>1, <2>2
<1>6. got' \in [Callers -> 0..MaxSize + 1]
  BY <1>1, <1>3 DEF CallInv, CallTypeOK
<1>7. CASE UNCHANGED <<cancel, err, stage, rc, how, shown>>
  <2>1. CallTypeOK'
    BY <1>2, <1>5, <1>6, <1>7 DEF CallInv, CallTypeOK
  <2>2. (Charged /\ NotEnded /\ SilenceIsBounded)'
    BY <1>2, <1>7 DEF CallInv, Charged, NotEnded, SilenceIsBounded
  <2>3. NotCutShort'
    BY <1>1, <1>2, <1>7 DEF CallInv, CallTypeOK, NotEnded, NotCutShort, UnderWay
  <2>4. QED  BY <2>1, <2>2, <2>3 DEF CallInv
<1>8. ASSUME NEW r \in Rc, NEW h \in {"big", "complete"},
             Return(c, r, h), h = "complete" => Complete(c, n)
      PROVE  CallInv'
  <2>1. CallTypeOK'
    BY <1>2, <1>5, <1>6, <1>8 DEF CallInv, CallTypeOK, Return, Reason
  <2>2. (Charged /\ NotEnded /\ SilenceIsBounded)'
    BY <1>2, <1>8 DEF CallInv, CallTypeOK, Charged, NotEnded, SilenceIsBounded, Return, UnderWay
  <2>3. NotCutShort'
    BY <1>1, <1>2, <1>3, <1>8 DEF CallInv, CallTypeOK, NotCutShort, Return
  <2>4. QED  BY <2>1, <2>2, <2>3 DEF CallInv
<1>9. QED  BY <1>4, <1>7, <1>8

\* A slice of silence
LEMMA QuietStep == ASSUME CallInv, NEW c \in Callers, Quiet(c) PROVE CallInv'
<1>1. /\ stage[c] = "recv" /\ how[c] = "none" /\ UNCHANGED <<framing, size, got>>
      /\ quiet' = [quiet EXCEPT ![c] = Later(@, 1)]
      /\ elapsed' = [elapsed EXCEPT ![c] = Later(@, 1)]
  BY DEF Quiet, CallInv, NotEnded, UnderWay
<1>2. /\ quiet[c] \in Nat /\ budget[c] \in 1..Timeout /\ renewals[c] \in 0..Renewals
      /\ quiet[c] + budget[c] + Timeout * renewals[c] = Bound
  BY <1>1 DEF CallInv, CallTypeOK, Charged, UnderWay
<1>3. /\ quiet[c] + 1 <= Bound
      /\ budget[c] > 1 => (quiet[c] + 1) + (budget[c] - 1) + Timeout * renewals[c] = Bound
      /\ budget[c] = 1 /\ renewals[c] > 0
            => (quiet[c] + 1) + Timeout + Timeout * (renewals[c] - 1) = Bound
      /\ budget[c] = 1 /\ renewals[c] = 0 => quiet[c] + 1 = Bound
  <2>1. renewals[c] \in Nat
    BY <1>2, GwAssumption
  <2>2. QED  BY <1>2, <2>1, SliceKeepsSum
<1>4. Later(quiet[c], 1) = quiet[c] + 1
  BY <1>2, <1>3, BoundIsNat DEF Later, LongTime
<1>5. /\ quiet' = [quiet EXCEPT ![c] = quiet[c] + 1] /\ quiet[c] + 1 \in 0..Bound
      /\ elapsed' \in [Callers -> 0..LongTime]
  <2>1. elapsed \in [Callers -> 0..LongTime] /\ 1 \in Nat
    BY DEF CallInv, CallTypeOK
  <2>2. Later(elapsed[c], 1) \in 0..LongTime
    BY <2>1, LaterFacts
  <2>3. quiet' = [quiet EXCEPT ![c] = quiet[c] + 1]
    BY <1>1, <1>4
  <2>4. quiet[c] + 1 \in 0..Bound
    BY <1>2, <1>3, BoundIsNat
  <2>5. elapsed' \in [Callers -> 0..LongTime]
    BY <1>1, <2>1, <2>2
  <2>6. QED  BY <2>3, <2>4, <2>5
<1>6. quiet' \in [Callers -> 0..Bound + 1]
  BY <1>5, BoundIsNat DEF CallInv, CallTypeOK
<1>7. CASE /\ budget[c] > 1 /\ budget' = [budget EXCEPT ![c] = budget[c] - 1]
           /\ UNCHANGED <<cancel, err, stage, renewals, rc, how, shown>>
  <2>1. CallTypeOK'
    BY <1>1, <1>2, <1>5, <1>6, <1>7, GwAssumption DEF CallInv, CallTypeOK
  <2>2. Charged'
    BY <1>1, <1>3, <1>5, <1>7 DEF CallInv, CallTypeOK, Charged
  <2>3. (NotEnded /\ SilenceIsBounded /\ NotCutShort)'
    BY <1>1, <1>5, <1>7 DEF CallInv, CallTypeOK, NotEnded, SilenceIsBounded, NotCutShort
  <2>4. QED  BY <2>1, <2>2, <2>3 DEF CallInv
<1>8. CASE /\ budget[c] = 1 /\ CanRenew(renewals[c])
           /\ budget' = [budget EXCEPT ![c] = Timeout]
           /\ renewals' = [renewals EXCEPT ![c] = renewals[c] - 1]
           /\ UNCHANGED <<cancel, err, stage, rc, how, shown>>
  <2>1. CallTypeOK'
    BY <1>1, <1>2, <1>5, <1>6, <1>8, GwAssumption DEF CallInv, CallTypeOK, CanRenew
  <2>2. Charged'
    BY <1>1, <1>3, <1>5, <1>8 DEF CallInv, CallTypeOK, Charged, CanRenew
  <2>3. (NotEnded /\ SilenceIsBounded /\ NotCutShort)'
    BY <1>1, <1>5, <1>8 DEF CallInv, CallTypeOK, NotEnded, SilenceIsBounded, NotCutShort
  <2>4. QED  BY <2>1, <2>2, <2>3 DEF CallInv
<1>9. CASE /\ budget[c] = 1 /\ ~CanRenew(renewals[c])
           /\ Return(c, "timeout", "quiet") /\ UNCHANGED <<budget, renewals>>
  <2>1. CallTypeOK'
    BY <1>1, <1>5, <1>6, <1>9 DEF CallInv, CallTypeOK, Return, Reason, Rc, Failure
  <2>2. (Charged /\ NotEnded /\ NotCutShort)'
    BY <1>1, <1>5, <1>9 DEF CallInv, CallTypeOK, Charged, NotEnded, NotCutShort, Return, UnderWay
  <2>3. SilenceIsBounded'
    <3>1. quiet[c] + 1 = Bound
      BY <1>2, <1>3, <1>9 DEF CanRenew
    <3>2. QED  BY <1>5, <1>9, <3>1 DEF CallInv, CallTypeOK, SilenceIsBounded, Return
  <2>4. QED  BY <2>1, <2>2, <2>3 DEF CallInv
<1>10. QED
  BY <1>7, <1>8, <1>9 DEF Quiet, Renewed

-----------------------------------------------------------------------------
LEMMA CallStepHolds == ASSUME CallInv, [CallNext]_callVars PROVE CallInv'
<1>1. CASE Sigint \/ \E c \in Callers : Reset(c)
  BY <1>1, FlagStep
<1>2. ASSUME NEW c \in Callers, Call(c) \/ Step(c) PROVE CallInv'
  BY <1>2, CallStep, ConnectedStep, SentStep, EndStep, QuietStep, BytesStep, AfterStep DEF Step
<1>3. CASE UNCHANGED callVars
  BY <1>3 DEF callVars, rxVars, callHist, CallInv, CallTypeOK, Charged, NotEnded, SilenceIsBounded, NotCutShort
<1>4. QED  BY <1>1, <1>2, <1>3 DEF CallNext

\* The conjunction of types, sum and properties holds in every reachable state.
THEOREM CallInductive == CallSpec => []CallInv
BY CallInitHolds, CallStepHolds, PTL DEF CallSpec

\* Every variable keeps its type, for any timeout, any number of renewals and
\* any size of body and buffer.
THEOREM CallTypeCorrect == CallSpec => []CallTypeOK
<1>1. CallInv => CallTypeOK  BY DEF CallInv
<1>2. QED  BY <1>1, CallInductive, PTL

\* The silence a call of cli_gw.c puts up with never exceeds timeout_ms times
\* one more than the renewals, and a call that times out was silent that long.
THEOREM SilenceIsCharged == CallSpec => []SilenceIsBounded
<1>1. CallInv => SilenceIsBounded  BY DEF CallInv
<1>2. QED  BY <1>1, CallInductive, PTL

\* gw_recv_feed takes a response that declares its length only when all of its
\* body came behind the header.
THEOREM WholeIsTaken == CallSpec => []NotCutShort
<1>1. CallInv => NotCutShort  BY DEF CallInv
<1>2. QED  BY <1>1, CallInductive, PTL
=============================================================================
