--------------------------- MODULE TaskTurnProofs ---------------------------
(* The safety of TaskTurn for every number of turns and every poll limit:    *)
(* an inductive invariant, its step lemmas (one step per action), and the    *)
(* theorems that follow, up to the implementation of TaskLifecycle.          *)
EXTENDS TaskTurn, TLAPS

\* The main thread is inside tp_board_loop; inside tp_wait
InBoard == \/ mpc \in {"board", "boardSleep", "boardRx"}
           \/ mpc \in {"chatEnter", "chatIn"} /\ ret = "boardSleep"
InWait  == \/ mpc \in {"wait", "join"}
           \/ mpc \in {"chatEnter", "chatIn"} /\ ret = "wait"
\* The turn has not sent sched.dag_submit yet; has not told its verdict yet
BeforeSubmit == mpc \in Head \cup Planning
Undecided    == mpc \in (Head \cup Pipeline) \ {"regive", "absorbRx"}

\* A turn is open while the main thread works; the worker is inside tp_wait;
\* the counters are below their limits in a loop and reset after it
Shape ==
  /\ InTurn => turn # 0
  /\ WorkerInsideWait
  /\ IF InBoard THEN polls < BoardPolls /\ stale < StaleMax
     ELSE mpc # "spawn" => polls = 0 /\ stale = 0
  /\ wpc \in {"statusRx", "sleep"} => wpolls < WaitPolls

\* No DAG before the submit of its turn, and one submit at most on the wire
FreshDag ==
  /\ \A t \in Turns : t > turn \/ (t = turn /\ BeforeSubmit) => dag[t] = "none"
  /\ \A r \in net : r.t <= turn /\ (r.t = turn => ~BeforeSubmit)
  /\ \A r \in net : r.m = "submit" => r.by = "main" /\ dag[r.t] = "none"

\* A terminal state in the hands of the worker or of the reporter is final
TrueAnswer ==
  /\ wpc = "statusRx" /\ reply["worker"] \in Terminal => dag[turn] = reply["worker"]
  /\ wres \in Terminal => dag[turn] = wres
  /\ ~InWait /\ mpc \notin {"report", "regive"} => wres = "none"
  /\ wpc # "done" => wres = "none"

\* A turn that is not over has no verdict
OneVerdict ==
  \A t \in Turns : t > turn \/ (t = turn /\ Undecided) => verdict[t] = "none"

\* Between the verdict and sched.absorb, and on the wire, the two agree
Regiving ==
  /\ mpc = "regive" => \/ verdict[turn] = "aborted" /\ cancel
                       \/ verdict[turn] = "success" /\ wres = "completed"
                       \/ verdict[turn] = "bad" /\ wres \in Terminal \ {"completed"}
                       \/ verdict[turn] = "noResult" /\ wres \notin Terminal
  /\ \A r \in net : /\ r.m = "absorbGood" => verdict[r.t] = "success"
                    /\ r.m = "absorbBad"  => verdict[r.t] = "bad"

\* A fact is sent to sched_d once, after the verdict
OneFact ==
  /\ mpc = "regive" =>
       /\ absorbed[turn] = "none"
       /\ \A r \in net : r.t = turn => r.m \notin {"absorbGood", "absorbBad"}
  /\ \A r \in net : r.m \in {"absorbGood", "absorbBad"}
                       => absorbed[r.t] = "none" /\ r.by = "main"

\* sched.dag_submit is answered by a DAG that exists
DagExists ==
  /\ mpc = "submit" /\ reply["main"] = "ok" => dag[turn] # "none"

\* The inductive invariant
IInv == /\ TypeOK /\ Shape /\ FlagIsOurs /\ StopIsAsked
        /\ FreshDag /\ TrueAnswer /\ OneVerdict
        /\ Regiving /\ VerdictIsReal /\ AbsorbIsReal /\ OneFact /\ DagExists

\* What the types say of the current turn and of the requests on the wire
TypeFacts ==
  /\ turn \in Nat /\ Turns \subseteq Nat
  /\ InTurn => turn \in Turns
  /\ verdict \in [Turns -> Verdict] /\ dag \in [Turns -> DagState]
  /\ absorbed \in [Turns -> {"none", "good", "bad"}]
  /\ reply \in [Threads -> {"ok"} \cup DagState \cup {"wait"}]
  /\ wpc \in WorkerPc /\ ret \in {"boardSleep", "wait"}
  /\ \A r \in net : r.t \in Turns /\ r.by \in Threads
\* The verdicts of the turns that end without a task report
Early == {"replayed", "answered", "chatFail", "planFail", "submitFail"}

-----------------------------------------------------------------------------
(* One lemma per part of the invariant *)

\* Every step keeps the variables in their types: the poll counters stay
\* within their limits because the loops are left when they are reached.
LEMMA TypeStep == TypeOK /\ Shape /\ [Next]_vars => TypeOK'
<1> SUFFICES ASSUME TypeOK, Shape, [Next]_vars PROVE TypeOK'
  OBVIOUS
<1> USE TurnAssumption DEF TypeOK, loopVars, inVars, boardVars, waitVars, netVars,
    schedVars, histVars, MainOnly, WorkerOnly
<1> USE DEF Idle, Head, Pipeline, Planning
<1> turn + 1 \in 0..MaxTurns \/ ~(turn < MaxTurns)
  BY DEF TurnAssumption
<1>1. CASE User
  <2>1. CASE Sigint
    BY <2>1 DEF Sigint, InTurn, Turns, Shape
  <2>2. ASSUME NEW line \in {"stop", "chat"}, TypeLine(line) PROVE TypeOK'
    BY <2>2 DEF TypeLine
  <2>3. ASSUME NEW pc \in {"cmd", "lang", "exit"}, ReadLine(pc) PROVE TypeOK'
    BY <2>3 DEF ReadLine
  <2>4. CASE AnswerQuestion BY <2>4 DEF AnswerQuestion
  <2> QED BY <1>1, <2>1, <2>2, <2>3, <2>4 DEF User
<1>2. CASE MainHead
  <2>1. CASE CommandReturn BY <2>1 DEF CommandReturn
  <2>2. CASE LangReturn BY <2>2 DEF LangReturn
  <2>3. ASSUME NEW pc \in {"chat", "plan"}, Route(pc) PROVE TypeOK'
    BY <2>3 DEF Route, ClearFlag
  <2>4. ASSUME NEW b \in BOOLEAN, FastReturn(b) PROVE TypeOK'
    BY <2>4 DEF FastReturn, EndTurn, Verdict
  <2>5. ASSUME NEW b \in BOOLEAN, ChatReturn(b) PROVE TypeOK'
    BY <2>5 DEF ChatReturn, EndTurn, Verdict
  <2> QED BY <1>2, <2>1, <2>2, <2>3, <2>4, <2>5 DEF MainHead
<1>3. CASE MainTask
  <2> turn \in Turns \/ mpc \in Idle
    BY DEF Shape, InTurn, Turns
  <2>1. CASE AbsorbPlanReturn BY <2>1 DEF AbsorbPlanReturn
  <2>2. CASE ReviewReturn BY <2>2 DEF ReviewReturn, Send, Request, Methods, Threads
  <2>3. CASE BoardQuiet BY <2>3 DEF BoardQuiet
  <2>4. CASE BoardLine BY <2>4 DEF BoardLine, PollLine
  <2>5. CASE BoardCheck BY <2>5 DEF BoardCheck, Send, Request, Methods, Threads
  <2>6. CASE BoardFail BY <2>6 DEF BoardFail, Settle, Threads
  <2>7. CASE WaitLeave BY <2>7 DEF WaitLeave
  <2>8. CASE WaitLine BY <2>8 DEF WaitLine, PollLine
  <2>9. CASE ChatEnter BY <2>9 DEF ChatEnter, ClearFlag
  <2>10. CASE ChatLeave BY <2>10 DEF ChatLeave
  <2>11. CASE Join BY <2>11 DEF Join
  <2>12. CASE Report BY <2>12 DEF Report, Verdict
  <2>13. CASE Regive BY <2>13 DEF Regive, Send, Request, Methods, Threads, WaitResult
  <2>14. CASE AbsorbReturn BY <2>14 DEF AbsorbReturn, Settle, Threads
  <2>15. ASSUME NEW b \in BOOLEAN, PlanReturn(b) PROVE TypeOK'
    BY <2>15 DEF PlanReturn, EndTurn, Verdict
  <2>16. ASSUME NEW b \in BOOLEAN, SubmitReturn(b) PROVE TypeOK'
    BY <2>16 DEF SubmitReturn, EndTurn, Verdict, Settle, Threads
  <2>17. ASSUME NEW b \in BOOLEAN, BoardSnapshot(b) PROVE TypeOK'
    <3>1. polls + 1 \in 0..BoardPolls /\ stale + 1 \in 0..StaleMax
      BY <2>17 DEF BoardSnapshot, Shape, InBoard, TurnAssumption
    <3>2. net' \subseteq Request
        /\ reply' \in [Threads -> {"ok"} \cup DagState \cup {"wait"}]
      BY <2>17 DEF BoardSnapshot, Settle, Threads
    <3> QED BY <2>17, <3>1, <3>2 DEF BoardSnapshot
  <2>18. ASSUME NEW b \in BOOLEAN, Spawn(b) PROVE TypeOK'
    BY <2>18 DEF Spawn, WorkerPc, TurnAssumption
  <2>19. CASE PlanAsk BY <2>19 DEF PlanAsk
  <2> QED BY <1>3, <2>1, <2>2, <2>3, <2>4, <2>5, <2>6, <2>7, <2>8, <2>9, <2>10, <2>11,
      <2>12, <2>13, <2>14, <2>15, <2>16, <2>17, <2>18, <2>19 DEF MainTask
<1>4. CASE Worker
  <2> turn \in Turns \/ wpc = "done"
    BY DEF Shape, WorkerInsideWait, InTurn, Turns
  <2>1. CASE WorkerTop
    BY <2>1
      DEF WorkerTop, WorkerEnd, Send, Request, Methods, Threads, WorkerPc, WaitResult,
          CancelSeen
  <2>2. CASE WorkerCancelReturn
    BY <2>2 DEF WorkerCancelReturn, WorkerEnd, Settle, Threads, WorkerPc, WaitResult
  <2>3. CASE WorkerFail
    BY <2>3 DEF WorkerFail, WorkerEnd, Settle, Threads, WorkerPc, WaitResult
  <2>4. CASE WorkerWake
    BY <2>4 DEF WorkerWake, CountPoll, WorkerPc, Shape, TurnAssumption
  <2>5. ASSUME NEW b \in BOOLEAN, WorkerSnapshot(b) PROVE TypeOK'
    BY <2>5
      DEF WorkerSnapshot, WorkerEnd, Settle, Threads, WorkerPc, WaitResult, TurnAssumption
  <2> QED BY <1>4, <2>1, <2>2, <2>3, <2>4, <2>5 DEF Worker
<1>5. CASE Sched
  <2>1. ASSUME NEW r \in net, Serve(r) PROVE TypeOK'
    BY <2>1 DEF Serve, Request, DagState, Terminal
  <2>2. ASSUME NEW r \in net, Lose(r) PROVE TypeOK'
    BY <2>2 DEF Lose
  <2>3. ASSUME NEW t \in Turns, NEW s \in {"completed", "failed"}, DagEnds(t, s)
        PROVE TypeOK'
    BY <2>3 DEF DagEnds, DagState, Terminal
  <2> QED BY <1>5, <2>1, <2>2, <2>3 DEF Sched
<1>6. CASE UNCHANGED vars
  BY <1>6 DEF vars
<1> QED BY <1>1, <1>2, <1>3, <1>4, <1>5, <1>6 DEF Next, Main

\* Every step keeps the shape of the loops: a turn is open while the main
\* thread works, the worker runs only inside tp_wait (it is joined before
\* tp_wait returns), the counters of a loop that has ended are reset.
LEMMA ShapeStep == TypeOK /\ Shape /\ [Next]_vars => Shape'
<1> SUFFICES ASSUME TypeOK, Shape, [Next]_vars PROVE Shape'
  OBVIOUS
<1> USE TurnAssumption DEF Shape, InTurn, WorkerInsideWait, InBoard, InWait, loopVars,
    inVars, boardVars, waitVars, netVars, schedVars, histVars, MainOnly, WorkerOnly
<1> USE DEF Idle, Head, Pipeline, Planning
<1>a. /\ turn \in Nat /\ polls \in Nat /\ stale \in Nat /\ wpolls \in Nat
      /\ wpc \in WorkerPc /\ ret \in {"boardSleep", "wait"}
      /\ BoardPolls \in Nat \ {0} /\ StaleMax \in Nat \ {0}
  BY DEF TypeOK, TurnAssumption
<1>1. CASE User
  <2>1. CASE Sigint
    BY <2>1 DEF Sigint
  <2>2. ASSUME NEW line \in {"stop", "chat"}, TypeLine(line) PROVE Shape'
    BY <2>2 DEF TypeLine
  <2>3. ASSUME NEW pc \in {"cmd", "lang", "exit"}, ReadLine(pc) PROVE Shape'
    BY <1>a, <2>3 DEF ReadLine
  <2>4. CASE AnswerQuestion BY <2>4 DEF AnswerQuestion
  <2> QED BY <1>1, <2>1, <2>2, <2>3, <2>4 DEF User
<1>2. CASE MainHead
  <2>1. CASE CommandReturn BY <2>1 DEF CommandReturn
  <2>2. CASE LangReturn BY <2>2 DEF LangReturn
  <2>3. ASSUME NEW pc \in {"chat", "plan"}, Route(pc) PROVE Shape'
    BY <2>3 DEF Route, ClearFlag
  <2>4. ASSUME NEW b \in BOOLEAN, FastReturn(b) PROVE Shape'
    BY <2>4 DEF FastReturn, EndTurn
  <2>5. ASSUME NEW b \in BOOLEAN, ChatReturn(b) PROVE Shape'
    BY <2>5 DEF ChatReturn, EndTurn
  <2> QED BY <1>2, <2>1, <2>2, <2>3, <2>4, <2>5 DEF MainHead
<1>3. CASE MainTask
  <2>1. CASE AbsorbPlanReturn BY <2>1 DEF AbsorbPlanReturn
  <2>2. CASE ReviewReturn BY <2>2 DEF ReviewReturn
  <2>3. CASE BoardQuiet BY <2>3 DEF BoardQuiet
  <2>4. CASE BoardLine BY <2>4 DEF BoardLine, PollLine
  <2>5. CASE BoardCheck BY <2>5 DEF BoardCheck
  <2>6. CASE BoardFail BY <2>6 DEF BoardFail
  <2>7. CASE WaitLeave BY <2>7 DEF WaitLeave
  <2>8. CASE WaitLine BY <2>8 DEF WaitLine, PollLine
  <2>9. CASE ChatEnter BY <2>9 DEF ChatEnter, ClearFlag
  <2>10. CASE ChatLeave BY <1>a, <2>10 DEF ChatLeave
  <2>11. CASE Join BY <2>11 DEF Join, Joined
  <2>12. CASE Report BY <2>12 DEF Report
  <2>13. CASE Regive BY <2>13 DEF Regive
  <2>14. CASE AbsorbReturn BY <2>14 DEF AbsorbReturn
  <2>15. ASSUME NEW b \in BOOLEAN, PlanReturn(b) PROVE Shape'
    BY <2>15 DEF PlanReturn, EndTurn
  <2>16. ASSUME NEW b \in BOOLEAN, SubmitReturn(b) PROVE Shape'
    BY <1>a, <2>16 DEF SubmitReturn, EndTurn
  <2>17. ASSUME NEW b \in BOOLEAN, BoardSnapshot(b) PROVE Shape'
    BY <1>a, <2>17 DEF BoardSnapshot, BoardDone
  <2>18. ASSUME NEW b \in BOOLEAN, Spawn(b) PROVE Shape'
    BY <2>18 DEF Spawn
  <2>19. CASE PlanAsk BY <2>19 DEF PlanAsk
  <2> QED BY <1>3, <2>1, <2>2, <2>3, <2>4, <2>5, <2>6, <2>7, <2>8, <2>9, <2>10, <2>11,
      <2>12, <2>13, <2>14, <2>15, <2>16, <2>17, <2>18, <2>19 DEF MainTask
<1>4. CASE Worker
  <2>1. CASE WorkerTop
    BY <2>1, <1>a DEF WorkerTop, WorkerEnd, CancelSeen, TurnAssumption
  <2>2. CASE WorkerCancelReturn
    BY <2>2 DEF WorkerCancelReturn, WorkerEnd
  <2>3. CASE WorkerFail
    BY <2>3 DEF WorkerFail, WorkerEnd
  <2>4. CASE WorkerWake
    BY <2>4 DEF WorkerWake
  <2>5. ASSUME NEW b \in BOOLEAN, WorkerSnapshot(b) PROVE Shape'
    BY <2>5 DEF WorkerSnapshot, WorkerEnd
  <2> QED BY <1>4, <2>1, <2>2, <2>3, <2>4, <2>5 DEF Worker
<1>5. CASE Sched
  <2>1. ASSUME NEW r \in net, Serve(r) PROVE Shape'
    BY <2>1 DEF Serve
  <2>2. ASSUME NEW r \in net, Lose(r) PROVE Shape'
    BY <2>2 DEF Lose
  <2>3. ASSUME NEW t \in Turns, NEW s \in {"completed", "failed"}, DagEnds(t, s)
        PROVE Shape'
    BY <2>3 DEF DagEnds
  <2> QED BY <1>5, <2>1, <2>2, <2>3 DEF Sched
<1>6. CASE UNCHANGED vars
  BY <1>6 DEF vars
<1> QED BY <1>1, <1>2, <1>3, <1>4, <1>5, <1>6 DEF Next, Main

\* The types, spelled out for the proofs below.
LEMMA TypeFactsHold == TypeOK /\ Shape => TypeFacts
<1> SUFFICES ASSUME TypeOK, Shape PROVE TypeFacts
  OBVIOUS
<1>1. Turns \subseteq Nat
  BY DEF Turns
<1>2. InTurn => turn \in Turns
  BY DEF TypeOK, Shape, Turns
<1>3. \A r \in net : r.t \in Turns /\ r.by \in Threads
  BY DEF TypeOK, Request
<1> QED BY <1>1, <1>2, <1>3 DEF TypeOK, TypeFacts

\* A turn that ends early had no verdict, so no fact about it exists or is on
\* its way, and its verdict claims nothing about a DAG.
LEMMA EarlyVerdict ==
  ASSUME TypeOK, Shape, Regiving, VerdictIsReal, AbsorbIsReal,
         NEW v \in Early,
         turn \in Turns, verdict[turn] = "none",
         verdict' = [verdict EXCEPT ![turn] = v],
         mpc' = "repl", UNCHANGED <<dag, absorbed>>, \A r \in net' : r \in net
  PROVE  Regiving' /\ VerdictIsReal' /\ AbsorbIsReal'
<1>1. TypeFacts
  BY TypeFactsHold
<1>2. /\ verdict'[turn] = v /\ v \notin {"success", "bad"}
      /\ \A t \in Turns : t # turn => verdict'[t] = verdict[t]
  BY <1>1 DEF TypeFacts, Early
<1>3. Regiving'
  <2> SUFFICES ASSUME NEW r \in net'
               PROVE  /\ r.m = "absorbGood" => verdict'[r.t] = "success"
                      /\ r.m = "absorbBad"  => verdict'[r.t] = "bad"
    BY DEF Regiving
  <2>1. r \in net /\ r.t \in Turns
    BY <1>1 DEF TypeFacts
  <2> QED BY <2>1, <1>2 DEF Regiving
<1>4. VerdictIsReal'
  BY <1>2 DEF VerdictIsReal
<1>5. AbsorbIsReal'
  BY <1>2 DEF AbsorbIsReal
<1> QED BY <1>3, <1>4, <1>5

\* A flag that the pipeline finds set was set during this turn, because the
\* entry of the pipeline clears it: dag_cancel and "aborted" follow it.
LEMMA FlagStep == TypeOK /\ Shape /\ FlagIsOurs /\ StopIsAsked /\ [Next]_vars
    => FlagIsOurs' /\ StopIsAsked'
<1> SUFFICES ASSUME TypeOK, Shape, FlagIsOurs, StopIsAsked, [Next]_vars
      PROVE FlagIsOurs' /\ StopIsAsked'
  OBVIOUS
<1> USE DEF TypeFacts, FlagIsOurs, StopIsAsked, InTurn, Idle, Head, Pipeline, Planning,
    loopVars, inVars, boardVars, waitVars, netVars, schedVars, histVars, MainOnly,
        WorkerOnly
<1>a. TypeFacts
  BY TypeFactsHold
<1>1. CASE User
  <2>1. CASE Sigint BY <1>a, <2>1 DEF Sigint
  <2>2. ASSUME NEW line \in {"stop", "chat"}, TypeLine(line)
        PROVE FlagIsOurs' /\ StopIsAsked'
    BY <1>a, <2>2 DEF TypeLine
  <2>3. ASSUME NEW pc \in {"cmd", "lang", "exit"}, ReadLine(pc)
        PROVE FlagIsOurs' /\ StopIsAsked'
    BY <1>a, <2>3 DEF ReadLine
  <2>4. CASE AnswerQuestion BY <1>a, <2>4 DEF AnswerQuestion
  <2> QED BY <1>1, <2>1, <2>2, <2>3, <2>4 DEF User
<1>2. CASE MainHead
  <2>1. CASE CommandReturn BY <1>a, <2>1 DEF CommandReturn
  <2>2. CASE LangReturn BY <1>a, <2>2 DEF LangReturn
  <2>3. ASSUME NEW pc \in {"chat", "plan"}, Route(pc)
        PROVE FlagIsOurs' /\ StopIsAsked'
    BY <1>a, <2>3 DEF Route, ClearFlag
  <2>4. ASSUME NEW b \in BOOLEAN, FastReturn(b) PROVE FlagIsOurs' /\ StopIsAsked'
    BY <1>a, <2>4 DEF FastReturn, EndTurn
  <2>5. ASSUME NEW b \in BOOLEAN, ChatReturn(b) PROVE FlagIsOurs' /\ StopIsAsked'
    BY <1>a, <2>5 DEF ChatReturn, EndTurn
  <2> QED BY <1>2, <2>1, <2>2, <2>3, <2>4, <2>5 DEF MainHead
<1>3. CASE MainTask
  <2>1. CASE AbsorbPlanReturn BY <1>a, <2>1 DEF AbsorbPlanReturn
  <2>2. CASE ReviewReturn BY <1>a, <2>2 DEF ReviewReturn, Send
  <2>3. CASE BoardQuiet BY <1>a, <2>3 DEF BoardQuiet
  <2>4. CASE BoardLine BY <1>a, <2>4 DEF BoardLine, PollLine
  <2>5. CASE BoardCheck BY <1>a, <2>5 DEF BoardCheck, Send
  <2>6. CASE BoardFail BY <1>a, <2>6 DEF BoardFail, Settle
  <2>7. CASE WaitLeave BY <1>a, <2>7 DEF WaitLeave
  <2>8. CASE WaitLine BY <1>a, <2>8 DEF WaitLine, PollLine
  <2>9. CASE ChatEnter BY <1>a, <2>9 DEF ChatEnter, ClearFlag
  <2>10. CASE ChatLeave BY <1>a, <2>10 DEF ChatLeave
  <2>11. CASE Join BY <1>a, <2>11 DEF Join
  <2>12. CASE Report BY <1>a, <2>12 DEF Report
  <2>13. CASE Regive BY <1>a, <2>13 DEF Regive, Send
  <2>14. CASE AbsorbReturn BY <1>a, <2>14 DEF AbsorbReturn, Settle
  <2>15. ASSUME NEW b \in BOOLEAN, PlanReturn(b) PROVE FlagIsOurs' /\ StopIsAsked'
    BY <1>a, <2>15 DEF PlanReturn, EndTurn
  <2>16. ASSUME NEW b \in BOOLEAN, SubmitReturn(b) PROVE FlagIsOurs' /\ StopIsAsked'
    BY <1>a, <2>16 DEF SubmitReturn, EndTurn, Settle
  <2>17. ASSUME NEW b \in BOOLEAN, BoardSnapshot(b)
        PROVE FlagIsOurs' /\ StopIsAsked'
    BY <1>a, <2>17 DEF BoardSnapshot, Settle
  <2>18. ASSUME NEW b \in BOOLEAN, Spawn(b) PROVE FlagIsOurs' /\ StopIsAsked'
    BY <1>a, <2>18 DEF Spawn
  <2>19. CASE PlanAsk BY <1>a, <2>19 DEF PlanAsk
  <2> QED BY <1>3, <2>1, <2>2, <2>3, <2>4, <2>5, <2>6, <2>7, <2>8, <2>9, <2>10, <2>11,
      <2>12, <2>13, <2>14, <2>15, <2>16, <2>17, <2>18, <2>19 DEF MainTask
<1>4. CASE Worker
  <2>1. CASE WorkerTop
    BY <1>a, <2>1 DEF WorkerTop, WorkerEnd, Send, CancelSeen, Shape, WorkerInsideWait
  <2>2. CASE WorkerCancelReturn BY <1>a, <2>2 DEF WorkerCancelReturn, WorkerEnd, Settle
  <2>3. CASE WorkerFail BY <1>a, <2>3 DEF WorkerFail, WorkerEnd, Settle
  <2>4. CASE WorkerWake BY <1>a, <2>4 DEF WorkerWake, CountPoll
  <2>5. ASSUME NEW b \in BOOLEAN, WorkerSnapshot(b)
        PROVE FlagIsOurs' /\ StopIsAsked'
    BY <1>a, <2>5 DEF WorkerSnapshot, WorkerEnd, Settle
  <2> QED BY <1>4, <2>1, <2>2, <2>3, <2>4, <2>5 DEF Worker
<1>5. CASE Sched
  <2>1. ASSUME NEW r \in net, Serve(r) PROVE FlagIsOurs' /\ StopIsAsked'
    BY <1>a, <2>1 DEF Serve
  <2>2. ASSUME NEW r \in net, Lose(r) PROVE FlagIsOurs' /\ StopIsAsked'
    BY <1>a, <2>2 DEF Lose
  <2>3. ASSUME NEW t \in Turns, NEW s \in {"completed", "failed"}, DagEnds(t, s)
        PROVE FlagIsOurs' /\ StopIsAsked'
    BY <1>a, <2>3 DEF DagEnds
  <2> QED BY <1>5, <2>1, <2>2, <2>3 DEF Sched
<1>6. CASE UNCHANGED vars
  BY <1>6 DEF vars
<1> QED BY <1>1, <1>2, <1>3, <1>4, <1>5, <1>6 DEF Next, Main

\* A turn that has not submitted has no DAG, and sched.dag_submit is on the
\* wire at most once for each turn.
LEMMA FreshDagStep == TypeOK /\ Shape /\ FreshDag /\ [Next]_vars => FreshDag'
<1> SUFFICES ASSUME TypeOK, Shape, FreshDag, [Next]_vars PROVE FreshDag'
  OBVIOUS
<1> USE DEF TypeFacts, FreshDag, InTurn, Idle, Head, Pipeline, Planning, loopVars, inVars,
    boardVars, waitVars, netVars, schedVars, histVars, MainOnly, WorkerOnly, BeforeSubmit
<1>a. TypeFacts
  BY TypeFactsHold
<1>1. CASE User
  <2>1. CASE Sigint BY <1>a, <2>1 DEF Sigint
  <2>2. ASSUME NEW line \in {"stop", "chat"}, TypeLine(line) PROVE FreshDag'
    BY <1>a, <2>2 DEF TypeLine
  <2>3. ASSUME NEW pc \in {"cmd", "lang", "exit"}, ReadLine(pc) PROVE FreshDag'
    <3>1. \A t \in Turns : t > turn' => t > turn
      BY <1>a, <2>3 DEF ReadLine
    <3>2. ASSUME NEW r \in net PROVE r.t <= turn' /\ (r.t = turn' => turn' = turn)
      <4>1. r.t \in Nat /\ r.t <= turn
        BY <1>a
      <4> QED BY <1>a, <4>1, <2>3 DEF ReadLine
    <3> QED BY <1>a, <2>3, <3>1, <3>2 DEF ReadLine
  <2>4. CASE AnswerQuestion BY <1>a, <2>4 DEF AnswerQuestion
  <2> QED BY <1>1, <2>1, <2>2, <2>3, <2>4 DEF User
<1>2. CASE MainHead
  <2>1. CASE CommandReturn BY <1>a, <2>1 DEF CommandReturn
  <2>2. CASE LangReturn BY <1>a, <2>2 DEF LangReturn
  <2>3. ASSUME NEW pc \in {"chat", "plan"}, Route(pc) PROVE FreshDag'
    BY <1>a, <2>3 DEF Route, ClearFlag
  <2>4. ASSUME NEW b \in BOOLEAN, FastReturn(b) PROVE FreshDag'
    BY <1>a, <2>4 DEF FastReturn, EndTurn
  <2>5. ASSUME NEW b \in BOOLEAN, ChatReturn(b) PROVE FreshDag'
    BY <1>a, <2>5 DEF ChatReturn, EndTurn
  <2> QED BY <1>2, <2>1, <2>2, <2>3, <2>4, <2>5 DEF MainHead
<1>3. CASE MainTask
  <2>1. CASE AbsorbPlanReturn BY <1>a, <2>1 DEF AbsorbPlanReturn
  <2>2. CASE ReviewReturn BY <1>a, <2>2 DEF ReviewReturn, Send
  <2>3. CASE BoardQuiet BY <1>a, <2>3 DEF BoardQuiet
  <2>4. CASE BoardLine BY <1>a, <2>4 DEF BoardLine, PollLine
  <2>5. CASE BoardCheck BY <1>a, <2>5 DEF BoardCheck, Send
  <2>6. CASE BoardFail BY <1>a, <2>6 DEF BoardFail, Settle
  <2>7. CASE WaitLeave BY <1>a, <2>7 DEF WaitLeave
  <2>8. CASE WaitLine BY <1>a, <2>8 DEF WaitLine, PollLine
  <2>9. CASE ChatEnter BY <1>a, <2>9 DEF ChatEnter, ClearFlag
  <2>10. CASE ChatLeave BY <1>a, <2>10 DEF ChatLeave
  <2>11. CASE Join BY <1>a, <2>11 DEF Join
  <2>12. CASE Report BY <1>a, <2>12 DEF Report
  <2>13. CASE Regive BY <1>a, <2>13 DEF Regive, Send
  <2>14. CASE AbsorbReturn BY <1>a, <2>14 DEF AbsorbReturn, Settle
  <2>15. ASSUME NEW b \in BOOLEAN, PlanReturn(b) PROVE FreshDag'
    BY <1>a, <2>15 DEF PlanReturn, EndTurn
  <2>16. ASSUME NEW b \in BOOLEAN, SubmitReturn(b) PROVE FreshDag'
    BY <1>a, <2>16 DEF SubmitReturn, EndTurn, Settle
  <2>17. ASSUME NEW b \in BOOLEAN, BoardSnapshot(b) PROVE FreshDag'
    BY <1>a, <2>17 DEF BoardSnapshot, Settle
  <2>18. ASSUME NEW b \in BOOLEAN, Spawn(b) PROVE FreshDag'
    BY <1>a, <2>18 DEF Spawn
  <2>19. CASE PlanAsk BY <1>a, <2>19 DEF PlanAsk
  <2> QED BY <1>3, <2>1, <2>2, <2>3, <2>4, <2>5, <2>6, <2>7, <2>8, <2>9, <2>10, <2>11,
      <2>12, <2>13, <2>14, <2>15, <2>16, <2>17, <2>18, <2>19 DEF MainTask
<1>4. CASE Worker
  <2>1. CASE WorkerTop BY <1>a, <2>1 DEF WorkerTop, WorkerEnd, Send, Shape, WorkerInsideWait
  <2>2. CASE WorkerCancelReturn BY <1>a, <2>2 DEF WorkerCancelReturn, WorkerEnd, Settle
  <2>3. CASE WorkerFail BY <1>a, <2>3 DEF WorkerFail, WorkerEnd, Settle
  <2>4. CASE WorkerWake BY <1>a, <2>4 DEF WorkerWake, CountPoll
  <2>5. ASSUME NEW b \in BOOLEAN, WorkerSnapshot(b) PROVE FreshDag'
    BY <1>a, <2>5 DEF WorkerSnapshot, WorkerEnd, Settle
  <2> QED BY <1>4, <2>1, <2>2, <2>3, <2>4, <2>5 DEF Worker
<1>5. CASE Sched
  <2>1. ASSUME NEW r \in net, Serve(r) PROVE FreshDag'
    <3>1. \A q \in net' : q \in net /\ q # r
      BY <2>1 DEF Serve
    <3>2. \A q \in net : q.m = "submit" /\ r.m = "submit" /\ q.t = r.t => q = r
      BY DEF TypeOK, Request
    <3>3. \A t \in Turns : dag'[t] # dag[t]
        => t = r.t /\ (r.m = "submit" \/ dag[t] = "running")
      BY <1>a, <2>1 DEF Serve
    <3> QED BY <1>a, <2>1, <3>1, <3>2, <3>3 DEF Serve
  <2>2. ASSUME NEW r \in net, Lose(r) PROVE FreshDag'
    BY <1>a, <2>2 DEF Lose
  <2>3. ASSUME NEW t \in Turns, NEW s \in {"completed", "failed"}, DagEnds(t, s)
        PROVE FreshDag'
    BY <1>a, <2>3 DEF DagEnds
  <2> QED BY <1>5, <2>1, <2>2, <2>3 DEF Sched
<1>6. CASE UNCHANGED vars
  BY <1>6 DEF vars
<1> QED BY <1>1, <1>2, <1>3, <1>4, <1>5, <1>6 DEF Next, Main

\* An answer the worker holds, and the result it leaves in the wait context,
\* is the final state of the DAG of the current turn.
LEMMA TrueAnswerStep == TypeOK /\ Shape /\ FreshDag /\ TrueAnswer /\ [Next]_vars
    => TrueAnswer'
<1> SUFFICES ASSUME TypeOK, Shape, FreshDag, TrueAnswer, [Next]_vars PROVE TrueAnswer'
  OBVIOUS
<1> USE DEF TypeFacts, TrueAnswer, InTurn, Idle, Head, Pipeline, Planning, loopVars, inVars,
    boardVars, waitVars, netVars, schedVars, histVars, MainOnly, WorkerOnly, InWait,
        Shape, WorkerInsideWait, Terminal
<1>a. TypeFacts
  BY TypeFactsHold
<1>1. CASE User
  <2>1. CASE Sigint BY <1>a, <2>1 DEF Sigint
  <2>2. ASSUME NEW line \in {"stop", "chat"}, TypeLine(line) PROVE TrueAnswer'
    BY <1>a, <2>2 DEF TypeLine
  <2>3. ASSUME NEW pc \in {"cmd", "lang", "exit"}, ReadLine(pc) PROVE TrueAnswer'
    BY <1>a, <2>3 DEF ReadLine
  <2>4. CASE AnswerQuestion BY <1>a, <2>4 DEF AnswerQuestion
  <2> QED BY <1>1, <2>1, <2>2, <2>3, <2>4 DEF User
<1>2. CASE MainHead
  <2>1. CASE CommandReturn BY <1>a, <2>1 DEF CommandReturn
  <2>2. CASE LangReturn BY <1>a, <2>2 DEF LangReturn
  <2>3. ASSUME NEW pc \in {"chat", "plan"}, Route(pc) PROVE TrueAnswer'
    BY <1>a, <2>3 DEF Route, ClearFlag
  <2>4. ASSUME NEW b \in BOOLEAN, FastReturn(b) PROVE TrueAnswer'
    BY <1>a, <2>4 DEF FastReturn, EndTurn
  <2>5. ASSUME NEW b \in BOOLEAN, ChatReturn(b) PROVE TrueAnswer'
    BY <1>a, <2>5 DEF ChatReturn, EndTurn
  <2> QED BY <1>2, <2>1, <2>2, <2>3, <2>4, <2>5 DEF MainHead
<1>3. CASE MainTask
  <2>1. CASE AbsorbPlanReturn BY <1>a, <2>1 DEF AbsorbPlanReturn
  <2>2. CASE ReviewReturn BY <1>a, <2>2 DEF ReviewReturn, Send
  <2>3. CASE BoardQuiet BY <1>a, <2>3 DEF BoardQuiet
  <2>4. CASE BoardLine BY <1>a, <2>4 DEF BoardLine, PollLine
  <2>5. CASE BoardCheck BY <1>a, <2>5 DEF BoardCheck, Send
  <2>6. CASE BoardFail BY <1>a, <2>6 DEF BoardFail, Settle
  <2>7. CASE WaitLeave BY <1>a, <2>7 DEF WaitLeave
  <2>8. CASE WaitLine BY <1>a, <2>8 DEF WaitLine, PollLine
  <2>9. CASE ChatEnter BY <1>a, <2>9 DEF ChatEnter, ClearFlag
  <2>10. CASE ChatLeave BY <1>a, <2>10 DEF ChatLeave
  <2>11. CASE Join BY <1>a, <2>11 DEF Join
  <2>12. CASE Report BY <1>a, <2>12 DEF Report
  <2>13. CASE Regive BY <1>a, <2>13 DEF Regive, Send
  <2>14. CASE AbsorbReturn BY <1>a, <2>14 DEF AbsorbReturn, Settle
  <2>15. ASSUME NEW b \in BOOLEAN, PlanReturn(b) PROVE TrueAnswer'
    BY <1>a, <2>15 DEF PlanReturn, EndTurn
  <2>16. ASSUME NEW b \in BOOLEAN, SubmitReturn(b) PROVE TrueAnswer'
    BY <1>a, <2>16 DEF SubmitReturn, EndTurn, Settle
  <2>17. ASSUME NEW b \in BOOLEAN, BoardSnapshot(b) PROVE TrueAnswer'
    BY <1>a, <2>17 DEF BoardSnapshot, Settle
  <2>18. ASSUME NEW b \in BOOLEAN, Spawn(b) PROVE TrueAnswer'
    BY <1>a, <2>18 DEF Spawn
  <2>19. CASE PlanAsk BY <1>a, <2>19 DEF PlanAsk
  <2> QED BY <1>3, <2>1, <2>2, <2>3, <2>4, <2>5, <2>6, <2>7, <2>8, <2>9, <2>10, <2>11,
      <2>12, <2>13, <2>14, <2>15, <2>16, <2>17, <2>18, <2>19 DEF MainTask
<1>4. CASE Worker
  <2>1. CASE WorkerTop BY <1>a, <2>1 DEF WorkerTop, WorkerEnd, Send, Threads
  <2>2. CASE WorkerCancelReturn BY <1>a, <2>2 DEF WorkerCancelReturn, WorkerEnd, Settle
  <2>3. CASE WorkerFail BY <1>a, <2>3 DEF WorkerFail, WorkerEnd, Settle
  <2>4. CASE WorkerWake BY <1>a, <2>4 DEF WorkerWake, CountPoll
  <2>5. ASSUME NEW b \in BOOLEAN, WorkerSnapshot(b) PROVE TrueAnswer'
    BY <1>a, <2>5 DEF WorkerSnapshot, WorkerEnd, Settle
  <2> QED BY <1>4, <2>1, <2>2, <2>3, <2>4, <2>5 DEF Worker
<1>5. CASE Sched
  <2>1. ASSUME NEW r \in net, Serve(r) PROVE TrueAnswer'
    BY <1>a, <2>1 DEF Serve, FreshDag, Awaits, Threads
  <2>2. ASSUME NEW r \in net, Lose(r) PROVE TrueAnswer'
    BY <1>a, <2>2 DEF Lose
  <2>3. ASSUME NEW t \in Turns, NEW s \in {"completed", "failed"}, DagEnds(t, s)
        PROVE TrueAnswer'
    BY <1>a, <2>3 DEF DagEnds
  <2> QED BY <1>5, <2>1, <2>2, <2>3 DEF Sched
<1>6. CASE UNCHANGED vars
  BY <1>6 DEF vars
<1> QED BY <1>1, <1>2, <1>3, <1>4, <1>5, <1>6 DEF Next, Main

\* A turn that is not over has no verdict yet.
LEMMA OneVerdictStep == TypeOK /\ Shape /\ OneVerdict /\ [Next]_vars => OneVerdict'
<1> SUFFICES ASSUME TypeOK, Shape, OneVerdict, [Next]_vars PROVE OneVerdict'
  OBVIOUS
<1> USE DEF TypeFacts, OneVerdict, InTurn, Idle, Head, Pipeline, Planning, loopVars, inVars,
    boardVars, waitVars, netVars, schedVars, histVars, MainOnly, WorkerOnly, Undecided
<1>a. TypeFacts
  BY TypeFactsHold
<1>1. CASE User
  <2>1. CASE Sigint BY <1>a, <2>1 DEF Sigint
  <2>2. ASSUME NEW line \in {"stop", "chat"}, TypeLine(line) PROVE OneVerdict'
    BY <1>a, <2>2 DEF TypeLine
  <2>3. ASSUME NEW pc \in {"cmd", "lang", "exit"}, ReadLine(pc) PROVE OneVerdict'
    BY <1>a, <2>3 DEF ReadLine
  <2>4. CASE AnswerQuestion BY <1>a, <2>4 DEF AnswerQuestion
  <2> QED BY <1>1, <2>1, <2>2, <2>3, <2>4 DEF User
<1>2. CASE MainHead
  <2>1. CASE CommandReturn BY <1>a, <2>1 DEF CommandReturn
  <2>2. CASE LangReturn BY <1>a, <2>2 DEF LangReturn
  <2>3. ASSUME NEW pc \in {"chat", "plan"}, Route(pc) PROVE OneVerdict'
    BY <1>a, <2>3 DEF Route, ClearFlag
  <2>4. ASSUME NEW b \in BOOLEAN, FastReturn(b) PROVE OneVerdict'
    BY <1>a, <2>4 DEF FastReturn, EndTurn
  <2>5. ASSUME NEW b \in BOOLEAN, ChatReturn(b) PROVE OneVerdict'
    BY <1>a, <2>5 DEF ChatReturn, EndTurn
  <2> QED BY <1>2, <2>1, <2>2, <2>3, <2>4, <2>5 DEF MainHead
<1>3. CASE MainTask
  <2>1. CASE AbsorbPlanReturn BY <1>a, <2>1 DEF AbsorbPlanReturn
  <2>2. CASE ReviewReturn BY <1>a, <2>2 DEF ReviewReturn, Send
  <2>3. CASE BoardQuiet BY <1>a, <2>3 DEF BoardQuiet
  <2>4. CASE BoardLine BY <1>a, <2>4 DEF BoardLine, PollLine
  <2>5. CASE BoardCheck BY <1>a, <2>5 DEF BoardCheck, Send
  <2>6. CASE BoardFail BY <1>a, <2>6 DEF BoardFail, Settle
  <2>7. CASE WaitLeave BY <1>a, <2>7 DEF WaitLeave
  <2>8. CASE WaitLine BY <1>a, <2>8 DEF WaitLine, PollLine
  <2>9. CASE ChatEnter BY <1>a, <2>9 DEF ChatEnter, ClearFlag
  <2>10. CASE ChatLeave BY <1>a, <2>10 DEF ChatLeave
  <2>11. CASE Join BY <1>a, <2>11 DEF Join
  <2>12. CASE Report BY <1>a, <2>12 DEF Report
  <2>13. CASE Regive BY <1>a, <2>13 DEF Regive, Send
  <2>14. CASE AbsorbReturn BY <1>a, <2>14 DEF AbsorbReturn, Settle
  <2>15. ASSUME NEW b \in BOOLEAN, PlanReturn(b) PROVE OneVerdict'
    BY <1>a, <2>15 DEF PlanReturn, EndTurn
  <2>16. ASSUME NEW b \in BOOLEAN, SubmitReturn(b) PROVE OneVerdict'
    BY <1>a, <2>16 DEF SubmitReturn, EndTurn, Settle
  <2>17. ASSUME NEW b \in BOOLEAN, BoardSnapshot(b) PROVE OneVerdict'
    BY <1>a, <2>17 DEF BoardSnapshot, Settle
  <2>18. ASSUME NEW b \in BOOLEAN, Spawn(b) PROVE OneVerdict'
    BY <1>a, <2>18 DEF Spawn
  <2>19. CASE PlanAsk BY <1>a, <2>19 DEF PlanAsk
  <2> QED BY <1>3, <2>1, <2>2, <2>3, <2>4, <2>5, <2>6, <2>7, <2>8, <2>9, <2>10, <2>11,
      <2>12, <2>13, <2>14, <2>15, <2>16, <2>17, <2>18, <2>19 DEF MainTask
<1>4. CASE Worker
  <2>1. CASE WorkerTop BY <1>a, <2>1 DEF WorkerTop, WorkerEnd, Send
  <2>2. CASE WorkerCancelReturn BY <1>a, <2>2 DEF WorkerCancelReturn, WorkerEnd, Settle
  <2>3. CASE WorkerFail BY <1>a, <2>3 DEF WorkerFail, WorkerEnd, Settle
  <2>4. CASE WorkerWake BY <1>a, <2>4 DEF WorkerWake, CountPoll
  <2>5. ASSUME NEW b \in BOOLEAN, WorkerSnapshot(b) PROVE OneVerdict'
    BY <1>a, <2>5 DEF WorkerSnapshot, WorkerEnd, Settle
  <2> QED BY <1>4, <2>1, <2>2, <2>3, <2>4, <2>5 DEF Worker
<1>5. CASE Sched
  <2>1. ASSUME NEW r \in net, Serve(r) PROVE OneVerdict'
    BY <1>a, <2>1 DEF Serve
  <2>2. ASSUME NEW r \in net, Lose(r) PROVE OneVerdict'
    BY <1>a, <2>2 DEF Lose
  <2>3. ASSUME NEW t \in Turns, NEW s \in {"completed", "failed"}, DagEnds(t, s)
        PROVE OneVerdict'
    BY <1>a, <2>3 DEF DagEnds
  <2> QED BY <1>5, <2>1, <2>2, <2>3 DEF Sched
<1>6. CASE UNCHANGED vars
  BY <1>6 DEF vars
<1> QED BY <1>1, <1>2, <1>3, <1>4, <1>5, <1>6 DEF Next, Main

\* Verdicts and learned facts stay true: the second reading of the flag, in
\* Regive, may only suppress the fact, never change it.
LEMMA VerdictStep == TypeOK /\ Shape /\ FreshDag /\ TrueAnswer /\ OneVerdict
    /\ Regiving /\ VerdictIsReal /\ AbsorbIsReal /\ [Next]_vars
        => Regiving' /\ VerdictIsReal' /\ AbsorbIsReal'
<1> SUFFICES ASSUME TypeOK, Shape, FreshDag, TrueAnswer, OneVerdict, Regiving,
                    VerdictIsReal, AbsorbIsReal, [Next]_vars
      PROVE Regiving' /\ VerdictIsReal' /\ AbsorbIsReal'
  OBVIOUS
<1> USE DEF TypeFacts, Regiving, VerdictIsReal, AbsorbIsReal, InTurn, Idle, Head,
    Pipeline, Planning, loopVars, inVars, boardVars, waitVars, netVars, schedVars, histVars,
        MainOnly, WorkerOnly, Terminal
<1>a. TypeFacts
  BY TypeFactsHold
<1>1. CASE User
  <2>1. CASE Sigint BY <1>a, <2>1 DEF Sigint
  <2>2. ASSUME NEW line \in {"stop", "chat"}, TypeLine(line)
        PROVE Regiving' /\ VerdictIsReal' /\ AbsorbIsReal'
    BY <1>a, <2>2 DEF TypeLine
  <2>3. ASSUME NEW pc \in {"cmd", "lang", "exit"}, ReadLine(pc)
        PROVE Regiving' /\ VerdictIsReal' /\ AbsorbIsReal'
    BY <1>a, <2>3 DEF ReadLine
  <2>4. CASE AnswerQuestion BY <1>a, <2>4 DEF AnswerQuestion
  <2> QED BY <1>1, <2>1, <2>2, <2>3, <2>4 DEF User
<1>2. CASE MainHead
  <2>1. CASE CommandReturn BY <1>a, <2>1 DEF CommandReturn
  <2>2. CASE LangReturn BY <1>a, <2>2 DEF LangReturn
  <2>3. ASSUME NEW pc \in {"chat", "plan"}, Route(pc)
        PROVE Regiving' /\ VerdictIsReal' /\ AbsorbIsReal'
    BY <1>a, <2>3 DEF Route, ClearFlag
  <2>4. ASSUME NEW b \in BOOLEAN, FastReturn(b)
        PROVE Regiving' /\ VerdictIsReal' /\ AbsorbIsReal'
    <3>1. CASE ~b
      BY <1>a, <2>4, <3>1 DEF FastReturn
    <3>2. CASE b
      <4>1. turn \in Turns /\ verdict[turn] = "none"
        BY <1>a, <2>4 DEF FastReturn, OneVerdict, Undecided
      <4>2. /\ verdict' = [verdict EXCEPT ![turn] = "replayed"]
            /\ mpc' = "repl" /\ UNCHANGED <<dag, absorbed>> /\ \A r \in net' : r \in net
        BY <2>4, <3>2 DEF FastReturn, EndTurn
      <4> QED BY <4>1, <4>2, EarlyVerdict DEF Early
    <3> QED BY <3>1, <3>2
  <2>5. ASSUME NEW b \in BOOLEAN, ChatReturn(b)
        PROVE Regiving' /\ VerdictIsReal' /\ AbsorbIsReal'
    BY <1>a, <2>5 DEF ChatReturn, EndTurn, OneVerdict, Undecided
  <2> QED BY <1>2, <2>1, <2>2, <2>3, <2>4, <2>5 DEF MainHead
<1>3. CASE MainTask
  <2>1. CASE AbsorbPlanReturn BY <1>a, <2>1 DEF AbsorbPlanReturn
  <2>2. CASE ReviewReturn BY <1>a, <2>2 DEF ReviewReturn, Send
  <2>3. CASE BoardQuiet BY <1>a, <2>3 DEF BoardQuiet
  <2>4. CASE BoardLine BY <1>a, <2>4 DEF BoardLine, PollLine
  <2>5. CASE BoardCheck BY <1>a, <2>5 DEF BoardCheck, Send
  <2>6. CASE BoardFail BY <1>a, <2>6 DEF BoardFail, Settle
  <2>7. CASE WaitLeave BY <1>a, <2>7 DEF WaitLeave
  <2>8. CASE WaitLine BY <1>a, <2>8 DEF WaitLine, PollLine
  <2>9. CASE ChatEnter BY <1>a, <2>9 DEF ChatEnter, ClearFlag
  <2>10. CASE ChatLeave BY <1>a, <2>10 DEF ChatLeave
  <2>11. CASE Join BY <1>a, <2>11 DEF Join
  <2>12. CASE Report BY <1>a, <2>12 DEF Report, TaskOk, OneVerdict, Undecided, TrueAnswer
  <2>13. CASE Regive BY <1>a, <2>13 DEF Regive, Send, TaskOk, Regivable
  <2>14. CASE AbsorbReturn BY <1>a, <2>14 DEF AbsorbReturn, Settle
  <2>15. ASSUME NEW b \in BOOLEAN, PlanReturn(b)
        PROVE Regiving' /\ VerdictIsReal' /\ AbsorbIsReal'
    <3>1. CASE b
      BY <1>a, <2>15, <3>1 DEF PlanReturn
    <3>2. CASE ~b
      <4>1. turn \in Turns /\ verdict[turn] = "none"
        BY <1>a, <2>15 DEF PlanReturn, OneVerdict, Undecided
      <4>2. /\ verdict' = [verdict EXCEPT ![turn] = "planFail"]
            /\ mpc' = "repl" /\ UNCHANGED <<dag, absorbed>> /\ \A r \in net' : r \in net
        BY <2>15, <3>2 DEF PlanReturn, EndTurn
      <4> QED BY <4>1, <4>2, EarlyVerdict DEF Early
    <3> QED BY <3>1, <3>2
  <2>16. ASSUME NEW b \in BOOLEAN, SubmitReturn(b)
        PROVE Regiving' /\ VerdictIsReal' /\ AbsorbIsReal'
    <3>1. CASE b
      BY <1>a, <2>16, <3>1 DEF SubmitReturn, Settle
    <3>2. CASE ~b
      <4>1. turn \in Turns /\ verdict[turn] = "none"
        BY <1>a, <2>16 DEF SubmitReturn, OneVerdict, Undecided
      <4>2. /\ verdict' = [verdict EXCEPT ![turn] = "submitFail"]
            /\ mpc' = "repl" /\ UNCHANGED <<dag, absorbed>> /\ \A r \in net' : r \in net
        BY <2>16, <3>2 DEF SubmitReturn, Settle, EndTurn
      <4> QED BY <4>1, <4>2, EarlyVerdict DEF Early
    <3> QED BY <3>1, <3>2
  <2>17. ASSUME NEW b \in BOOLEAN, BoardSnapshot(b)
        PROVE Regiving' /\ VerdictIsReal' /\ AbsorbIsReal'
    BY <1>a, <2>17 DEF BoardSnapshot, Settle
  <2>18. ASSUME NEW b \in BOOLEAN, Spawn(b)
        PROVE Regiving' /\ VerdictIsReal' /\ AbsorbIsReal'
    BY <1>a, <2>18 DEF Spawn
  <2>19. CASE PlanAsk BY <1>a, <2>19 DEF PlanAsk
  <2> QED BY <1>3, <2>1, <2>2, <2>3, <2>4, <2>5, <2>6, <2>7, <2>8, <2>9, <2>10, <2>11,
      <2>12, <2>13, <2>14, <2>15, <2>16, <2>17, <2>18, <2>19 DEF MainTask
<1>4. CASE Worker
  <2>1. CASE WorkerTop BY <1>a, <2>1 DEF WorkerTop, WorkerEnd, Send, Shape, WorkerInsideWait
  <2>2. CASE WorkerCancelReturn
    BY <1>a, <2>2 DEF WorkerCancelReturn, WorkerEnd, Settle, Shape, WorkerInsideWait
  <2>3. CASE WorkerFail
    BY <1>a, <2>3 DEF WorkerFail, WorkerEnd, Settle, Shape, WorkerInsideWait
  <2>4. CASE WorkerWake BY <1>a, <2>4 DEF WorkerWake, CountPoll
  <2>5. ASSUME NEW b \in BOOLEAN, WorkerSnapshot(b)
        PROVE Regiving' /\ VerdictIsReal' /\ AbsorbIsReal'
    BY <1>a, <2>5 DEF WorkerSnapshot, WorkerEnd, Settle, Shape, WorkerInsideWait
  <2> QED BY <1>4, <2>1, <2>2, <2>3, <2>4, <2>5 DEF Worker
<1>5. CASE Sched
  <2>1. ASSUME NEW r \in net, Serve(r) PROVE Regiving' /\ VerdictIsReal' /\ AbsorbIsReal'
    BY <1>a, <2>1 DEF Serve, FreshDag
  <2>2. ASSUME NEW r \in net, Lose(r) PROVE Regiving' /\ VerdictIsReal' /\ AbsorbIsReal'
    BY <1>a, <2>2 DEF Lose
  <2>3. ASSUME NEW t \in Turns, NEW s \in {"completed", "failed"}, DagEnds(t, s)
        PROVE Regiving' /\ VerdictIsReal' /\ AbsorbIsReal'
    BY <1>a, <2>3 DEF DagEnds
  <2> QED BY <1>5, <2>1, <2>2, <2>3 DEF Sched
<1>6. CASE UNCHANGED vars
  BY <1>6 DEF vars
<1> QED BY <1>1, <1>2, <1>3, <1>4, <1>5, <1>6 DEF Next, Main

\* sched.absorb of a result is sent at most once for each turn.
LEMMA OneFactStep == TypeOK /\ Shape /\ FreshDag /\ OneVerdict /\ Regiving
    /\ AbsorbIsReal /\ OneFact /\ [Next]_vars => OneFact'
<1> SUFFICES ASSUME TypeOK, Shape, FreshDag, OneVerdict, Regiving, AbsorbIsReal,
                    OneFact, [Next]_vars
      PROVE OneFact'
  OBVIOUS
<1> USE DEF TypeFacts, OneFact, InTurn, Idle, Head, Pipeline, Planning, loopVars, inVars,
    boardVars, waitVars, netVars, schedVars, histVars, MainOnly, WorkerOnly
<1>a. TypeFacts
  BY TypeFactsHold
<1>1. CASE User
  <2>1. CASE Sigint BY <1>a, <2>1 DEF Sigint
  <2>2. ASSUME NEW line \in {"stop", "chat"}, TypeLine(line) PROVE OneFact'
    BY <1>a, <2>2 DEF TypeLine
  <2>3. ASSUME NEW pc \in {"cmd", "lang", "exit"}, ReadLine(pc) PROVE OneFact'
    BY <1>a, <2>3 DEF ReadLine
  <2>4. CASE AnswerQuestion BY <1>a, <2>4 DEF AnswerQuestion
  <2> QED BY <1>1, <2>1, <2>2, <2>3, <2>4 DEF User
<1>2. CASE MainHead
  <2>1. CASE CommandReturn BY <1>a, <2>1 DEF CommandReturn
  <2>2. CASE LangReturn BY <1>a, <2>2 DEF LangReturn
  <2>3. ASSUME NEW pc \in {"chat", "plan"}, Route(pc) PROVE OneFact'
    BY <1>a, <2>3 DEF Route, ClearFlag
  <2>4. ASSUME NEW b \in BOOLEAN, FastReturn(b) PROVE OneFact'
    BY <1>a, <2>4 DEF FastReturn, EndTurn
  <2>5. ASSUME NEW b \in BOOLEAN, ChatReturn(b) PROVE OneFact'
    BY <1>a, <2>5 DEF ChatReturn, EndTurn
  <2> QED BY <1>2, <2>1, <2>2, <2>3, <2>4, <2>5 DEF MainHead
<1>3. CASE MainTask
  <2>1. CASE AbsorbPlanReturn BY <1>a, <2>1 DEF AbsorbPlanReturn
  <2>2. CASE ReviewReturn BY <1>a, <2>2 DEF ReviewReturn, Send
  <2>3. CASE BoardQuiet BY <1>a, <2>3 DEF BoardQuiet
  <2>4. CASE BoardLine BY <1>a, <2>4 DEF BoardLine, PollLine
  <2>5. CASE BoardCheck BY <1>a, <2>5 DEF BoardCheck, Send
  <2>6. CASE BoardFail BY <1>a, <2>6 DEF BoardFail, Settle
  <2>7. CASE WaitLeave BY <1>a, <2>7 DEF WaitLeave
  <2>8. CASE WaitLine BY <1>a, <2>8 DEF WaitLine, PollLine
  <2>9. CASE ChatEnter BY <1>a, <2>9 DEF ChatEnter, ClearFlag
  <2>10. CASE ChatLeave BY <1>a, <2>10 DEF ChatLeave
  <2>11. CASE Join BY <1>a, <2>11 DEF Join
  <2>12. CASE Report
    BY <1>a, <2>12 DEF Report, AbsorbIsReal, OneVerdict, Undecided, Regiving
  <2>13. CASE Regive BY <1>a, <2>13 DEF Regive, Send, TaskOk
  <2>14. CASE AbsorbReturn BY <1>a, <2>14 DEF AbsorbReturn, Settle
  <2>15. ASSUME NEW b \in BOOLEAN, PlanReturn(b) PROVE OneFact'
    BY <1>a, <2>15 DEF PlanReturn, EndTurn
  <2>16. ASSUME NEW b \in BOOLEAN, SubmitReturn(b) PROVE OneFact'
    BY <1>a, <2>16 DEF SubmitReturn, EndTurn, Settle
  <2>17. ASSUME NEW b \in BOOLEAN, BoardSnapshot(b) PROVE OneFact'
    BY <1>a, <2>17 DEF BoardSnapshot, Settle
  <2>18. ASSUME NEW b \in BOOLEAN, Spawn(b) PROVE OneFact'
    BY <1>a, <2>18 DEF Spawn
  <2>19. CASE PlanAsk BY <1>a, <2>19 DEF PlanAsk
  <2> QED BY <1>3, <2>1, <2>2, <2>3, <2>4, <2>5, <2>6, <2>7, <2>8, <2>9, <2>10, <2>11,
      <2>12, <2>13, <2>14, <2>15, <2>16, <2>17, <2>18, <2>19 DEF MainTask
<1>4. CASE Worker
  <2>1. CASE WorkerTop BY <1>a, <2>1 DEF WorkerTop, WorkerEnd, Send, Shape, WorkerInsideWait
  <2>2. CASE WorkerCancelReturn
    BY <1>a, <2>2 DEF WorkerCancelReturn, WorkerEnd, Settle, Shape, WorkerInsideWait
  <2>3. CASE WorkerFail
    BY <1>a, <2>3 DEF WorkerFail, WorkerEnd, Settle, Shape, WorkerInsideWait
  <2>4. CASE WorkerWake BY <1>a, <2>4 DEF WorkerWake, CountPoll
  <2>5. ASSUME NEW b \in BOOLEAN, WorkerSnapshot(b) PROVE OneFact'
    BY <1>a, <2>5 DEF WorkerSnapshot, WorkerEnd, Settle, Shape, WorkerInsideWait
  <2> QED BY <1>4, <2>1, <2>2, <2>3, <2>4, <2>5 DEF Worker
<1>5. CASE Sched
  <2>1. ASSUME NEW r \in net, Serve(r) PROVE OneFact'
    <3>1. \A q \in net' : q \in net /\ q # r
      BY <2>1 DEF Serve
    <3>2. ASSUME NEW q \in net, q.t = r.t,
                 q.m \in {"absorbGood", "absorbBad"}, r.m \in {"absorbGood", "absorbBad"}
          PROVE  q = r
      BY <2>1, <3>2 DEF TypeOK, Request, Regiving
    <3>3. \A t \in Turns : absorbed'[t] # absorbed[t]
                            => t = r.t /\ r.m \in {"absorbGood", "absorbBad"}
      BY <1>a, <2>1 DEF Serve
    <3>4. mpc' = mpc /\ turn' = turn
      BY <2>1 DEF Serve
    <3> QED BY <1>a, <2>1, <3>1, <3>2, <3>3, <3>4
  <2>2. ASSUME NEW r \in net, Lose(r) PROVE OneFact'
    BY <1>a, <2>2 DEF Lose
  <2>3. ASSUME NEW t \in Turns, NEW s \in {"completed", "failed"}, DagEnds(t, s)
        PROVE OneFact'
    BY <1>a, <2>3 DEF DagEnds
  <2> QED BY <1>5, <2>1, <2>2, <2>3 DEF Sched
<1>6. CASE UNCHANGED vars
  BY <1>6 DEF vars
<1> QED BY <1>1, <1>2, <1>3, <1>4, <1>5, <1>6 DEF Next, Main

\* An answer to sched.dag_submit means that the DAG exists.
LEMMA DagExistsStep == TypeOK /\ Shape /\ FreshDag /\ DagExists /\ [Next]_vars => DagExists'
<1> SUFFICES ASSUME TypeOK, Shape, FreshDag, DagExists, [Next]_vars PROVE DagExists'
  OBVIOUS
<1> USE DEF TypeFacts, DagExists, InTurn, Idle, Head, Pipeline, Planning, loopVars, inVars,
    boardVars, waitVars, netVars, schedVars, histVars, MainOnly, WorkerOnly, Threads
<1>a. TypeFacts
  BY TypeFactsHold
<1>1. CASE User
  <2>1. CASE Sigint BY <1>a, <2>1 DEF Sigint
  <2>2. ASSUME NEW line \in {"stop", "chat"}, TypeLine(line) PROVE DagExists'
    BY <1>a, <2>2 DEF TypeLine
  <2>3. ASSUME NEW pc \in {"cmd", "lang", "exit"}, ReadLine(pc) PROVE DagExists'
    BY <1>a, <2>3 DEF ReadLine
  <2>4. CASE AnswerQuestion BY <1>a, <2>4 DEF AnswerQuestion
  <2> QED BY <1>1, <2>1, <2>2, <2>3, <2>4 DEF User
<1>2. CASE MainHead
  <2>1. CASE CommandReturn BY <1>a, <2>1 DEF CommandReturn
  <2>2. CASE LangReturn BY <1>a, <2>2 DEF LangReturn
  <2>3. ASSUME NEW pc \in {"chat", "plan"}, Route(pc) PROVE DagExists'
    BY <1>a, <2>3 DEF Route, ClearFlag
  <2>4. ASSUME NEW b \in BOOLEAN, FastReturn(b) PROVE DagExists'
    BY <1>a, <2>4 DEF FastReturn, EndTurn
  <2>5. ASSUME NEW b \in BOOLEAN, ChatReturn(b) PROVE DagExists'
    BY <1>a, <2>5 DEF ChatReturn, EndTurn
  <2> QED BY <1>2, <2>1, <2>2, <2>3, <2>4, <2>5 DEF MainHead
<1>3. CASE MainTask
  <2>1. CASE AbsorbPlanReturn BY <1>a, <2>1 DEF AbsorbPlanReturn
  <2>2. CASE ReviewReturn BY <1>a, <2>2 DEF ReviewReturn, Send
  <2>3. CASE BoardQuiet BY <1>a, <2>3 DEF BoardQuiet
  <2>4. CASE BoardLine BY <1>a, <2>4 DEF BoardLine, PollLine
  <2>5. CASE BoardCheck BY <1>a, <2>5 DEF BoardCheck, Send
  <2>6. CASE BoardFail BY <1>a, <2>6 DEF BoardFail, Settle
  <2>7. CASE WaitLeave BY <1>a, <2>7 DEF WaitLeave
  <2>8. CASE WaitLine BY <1>a, <2>8 DEF WaitLine, PollLine
  <2>9. CASE ChatEnter BY <1>a, <2>9 DEF ChatEnter, ClearFlag
  <2>10. CASE ChatLeave BY <1>a, <2>10 DEF ChatLeave
  <2>11. CASE Join BY <1>a, <2>11 DEF Join
  <2>12. CASE Report BY <1>a, <2>12 DEF Report
  <2>13. CASE Regive BY <1>a, <2>13 DEF Regive, Send
  <2>14. CASE AbsorbReturn BY <1>a, <2>14 DEF AbsorbReturn, Settle
  <2>15. ASSUME NEW b \in BOOLEAN, PlanReturn(b) PROVE DagExists'
    BY <1>a, <2>15 DEF PlanReturn, EndTurn
  <2>16. ASSUME NEW b \in BOOLEAN, SubmitReturn(b) PROVE DagExists'
    BY <1>a, <2>16 DEF SubmitReturn, EndTurn, Settle
  <2>17. ASSUME NEW b \in BOOLEAN, BoardSnapshot(b) PROVE DagExists'
    BY <1>a, <2>17 DEF BoardSnapshot, Settle
  <2>18. ASSUME NEW b \in BOOLEAN, Spawn(b) PROVE DagExists'
    BY <1>a, <2>18 DEF Spawn
  <2>19. CASE PlanAsk BY <1>a, <2>19 DEF PlanAsk
  <2> QED BY <1>3, <2>1, <2>2, <2>3, <2>4, <2>5, <2>6, <2>7, <2>8, <2>9, <2>10, <2>11,
      <2>12, <2>13, <2>14, <2>15, <2>16, <2>17, <2>18, <2>19 DEF MainTask
<1>4. CASE Worker
  <2>1. CASE WorkerTop BY <1>a, <2>1 DEF WorkerTop, WorkerEnd, Send, Shape, WorkerInsideWait
  <2>2. CASE WorkerCancelReturn
    BY <1>a, <2>2 DEF WorkerCancelReturn, WorkerEnd, Settle, Shape, WorkerInsideWait
  <2>3. CASE WorkerFail
    BY <1>a, <2>3 DEF WorkerFail, WorkerEnd, Settle, Shape, WorkerInsideWait
  <2>4. CASE WorkerWake BY <1>a, <2>4 DEF WorkerWake, CountPoll
  <2>5. ASSUME NEW b \in BOOLEAN, WorkerSnapshot(b) PROVE DagExists'
    BY <1>a, <2>5 DEF WorkerSnapshot, WorkerEnd, Settle, Shape, WorkerInsideWait
  <2> QED BY <1>4, <2>1, <2>2, <2>3, <2>4, <2>5 DEF Worker
<1>5. CASE Sched
  <2>1. ASSUME NEW r \in net, Serve(r) PROVE DagExists'
    BY <1>a, <2>1 DEF Serve, Awaits
  <2>2. ASSUME NEW r \in net, Lose(r) PROVE DagExists'
    BY <1>a, <2>2 DEF Lose
  <2>3. ASSUME NEW t \in Turns, NEW s \in {"completed", "failed"}, DagEnds(t, s)
        PROVE DagExists'
    BY <1>a, <2>3 DEF DagEnds
  <2> QED BY <1>5, <2>1, <2>2, <2>3 DEF Sched
<1>6. CASE UNCHANGED vars
  BY <1>6 DEF vars
<1> QED BY <1>1, <1>2, <1>3, <1>4, <1>5, <1>6 DEF Next, Main

\* Every step of the threads and of sched_d is a step of the lifecycle or
\* leaves it unchanged.
LEMMA RefineStep == IInv /\ [Next]_vars => [Life!Next]_(Life!vars)
<1> SUFFICES ASSUME IInv, [Next]_vars PROVE [Life!Next]_(Life!vars)
  OBVIOUS
<1> USE DEF TypeFacts, IInv, InTurn, Idle, Head, Pipeline, Planning, loopVars, inVars, boardVars,
    waitVars, netVars, schedVars, histVars, MainOnly, WorkerOnly, Phase, Life!vars
<1>a. TypeFacts
  BY TypeFactsHold
<1>1. CASE User
  <2>1. CASE Sigint BY <1>a, <2>1 DEF Sigint
  <2>2. ASSUME NEW line \in {"stop", "chat"}, TypeLine(line) PROVE [Life!Next]_(Life!vars)
    BY <1>a, <2>2 DEF TypeLine
  <2>3. ASSUME NEW pc \in {"cmd", "lang", "exit"}, ReadLine(pc)
        PROVE [Life!Next]_(Life!vars)
    <3>1. CASE pc = "lang"
      <4>1. Life!Open
        BY <2>3, <3>1 DEF ReadLine, Life!Open
      <4> QED BY <4>1 DEF Life!Next
    <3>2. CASE pc # "lang"
      BY <2>3, <3>2 DEF ReadLine
    <3> QED BY <3>1, <3>2
  <2>4. CASE AnswerQuestion BY <1>a, <2>4 DEF AnswerQuestion
  <2> QED BY <1>1, <2>1, <2>2, <2>3, <2>4 DEF User
<1>2. CASE MainHead
  <2>1. CASE CommandReturn BY <1>a, <2>1 DEF CommandReturn
  <2>2. CASE LangReturn BY <1>a, <2>2 DEF LangReturn
  <2>3. ASSUME NEW pc \in {"chat", "plan"}, Route(pc) PROVE [Life!Next]_(Life!vars)
    BY <1>a, <2>3 DEF Route, ClearFlag
  <2>4. ASSUME NEW b \in BOOLEAN, FastReturn(b) PROVE [Life!Next]_(Life!vars)
    <3>1. CASE ~b
      BY <2>4, <3>1 DEF FastReturn
    <3>2. CASE b
      <4>1. verdict[turn] = "none"
        BY <1>a, <2>4 DEF FastReturn, OneVerdict, Undecided
      <4>2. Life!CloseEarly("replayed")
        BY <4>1, <2>4, <3>2 DEF FastReturn, EndTurn, Life!CloseEarly, Life!Decide
      <4> QED BY <4>2 DEF Life!Next, Life!Early
    <3> QED BY <3>1, <3>2
  <2>5. ASSUME NEW b \in BOOLEAN, ChatReturn(b) PROVE [Life!Next]_(Life!vars)
    <3>1. verdict[turn] = "none"
      BY <1>a, <2>5 DEF ChatReturn, OneVerdict, Undecided
    <3>2. \E v \in {"answered", "chatFail"} : Life!CloseEarly(v)
      BY <3>1, <2>5 DEF ChatReturn, EndTurn, Life!CloseEarly, Life!Decide
    <3> QED BY <3>2 DEF Life!Next, Life!Early
  <2> QED BY <1>2, <2>1, <2>2, <2>3, <2>4, <2>5 DEF MainHead
<1>3. CASE MainTask
  <2>1. CASE AbsorbPlanReturn BY <1>a, <2>1 DEF AbsorbPlanReturn
  <2>2. CASE ReviewReturn BY <1>a, <2>2 DEF ReviewReturn, Send
  <2>3. CASE BoardQuiet BY <1>a, <2>3 DEF BoardQuiet
  <2>4. CASE BoardLine BY <1>a, <2>4 DEF BoardLine, PollLine
  <2>5. CASE BoardCheck BY <1>a, <2>5 DEF BoardCheck, Send
  <2>6. CASE BoardFail BY <1>a, <2>6 DEF BoardFail, Settle
  <2>7. CASE WaitLeave BY <1>a, <2>7 DEF WaitLeave
  <2>8. CASE WaitLine BY <1>a, <2>8 DEF WaitLine, PollLine
  <2>9. CASE ChatEnter BY <1>a, <2>9 DEF ChatEnter, ClearFlag
  <2>10. CASE ChatLeave BY <1>a, <2>10 DEF ChatLeave
  <2>11. CASE Join BY <1>a, <2>11 DEF Join
  <2>12. CASE Report
    <3>1. verdict[turn] = "none" /\ turn \in Turns
      BY <1>a, <2>12 DEF Report, OneVerdict, Undecided
    <3>2. PICK v \in Life!Judged :
            /\ verdict' = [verdict EXCEPT ![turn] = v]
            /\ v = "success" => dag[turn] = "completed"
            /\ v = "bad" => dag[turn] \in Life!Failed
      BY <1>a, <2>12 DEF Report, TaskOk, TrueAnswer, Terminal, Life!Judged, Life!Failed
    <3>3. Life!Judge(v)
      BY <3>1, <3>2, <2>12 DEF Report, Life!Judge, Life!Decide
    <3> QED BY <3>3 DEF Life!Next
  <2>13. CASE Regive
    <3>1. CASE Regivable
      BY <2>13, <3>1 DEF Regive
    <3>2. CASE ~Regivable
      <4>1. Life!Finish
        BY <2>13, <3>2 DEF Regive, Life!Finish
      <4> QED BY <4>1 DEF Life!Next
    <3> QED BY <3>1, <3>2
  <2>14. CASE AbsorbReturn
    <3>1. Life!Finish
      BY <2>14 DEF AbsorbReturn, Life!Finish
    <3> QED BY <3>1 DEF Life!Next
  <2>15. ASSUME NEW b \in BOOLEAN, PlanReturn(b) PROVE [Life!Next]_(Life!vars)
    <3>1. CASE b
      BY <2>15, <3>1 DEF PlanReturn
    <3>2. CASE ~b
      <4>1. verdict[turn] = "none"
        BY <1>a, <2>15 DEF PlanReturn, OneVerdict, Undecided
      <4>2. Life!CloseEarly("planFail")
        BY <4>1, <2>15, <3>2 DEF PlanReturn, EndTurn, Life!CloseEarly, Life!Decide
      <4> QED BY <4>2 DEF Life!Next, Life!Early
    <3> QED BY <3>1, <3>2
  <2>16. ASSUME NEW b \in BOOLEAN, SubmitReturn(b) PROVE [Life!Next]_(Life!vars)
    <3>1. CASE b
      <4>1. Life!Launch
        BY <2>16, <3>1 DEF SubmitReturn, DagIdGiven, DagExists, Life!Launch
      <4> QED BY <4>1 DEF Life!Next
    <3>2. CASE ~b
      <4>1. verdict[turn] = "none"
        BY <1>a, <2>16 DEF SubmitReturn, OneVerdict, Undecided
      <4>2. Life!CloseEarly("submitFail")
        BY <4>1, <2>16, <3>2 DEF SubmitReturn, EndTurn, Life!CloseEarly, Life!Decide
      <4> QED BY <4>2 DEF Life!Next, Life!Early
    <3> QED BY <3>1, <3>2
  <2>17. ASSUME NEW b \in BOOLEAN, BoardSnapshot(b) PROVE [Life!Next]_(Life!vars)
    BY <1>a, <2>17 DEF BoardSnapshot, Settle
  <2>18. ASSUME NEW b \in BOOLEAN, Spawn(b) PROVE [Life!Next]_(Life!vars)
    BY <1>a, <2>18 DEF Spawn
  <2>19. CASE PlanAsk BY <1>a, <2>19 DEF PlanAsk
  <2> QED BY <1>3, <2>1, <2>2, <2>3, <2>4, <2>5, <2>6, <2>7, <2>8, <2>9, <2>10, <2>11,
      <2>12, <2>13, <2>14, <2>15, <2>16, <2>17, <2>18, <2>19 DEF MainTask
<1>4. CASE Worker
  <2>1. CASE WorkerTop BY <1>a, <2>1 DEF WorkerTop, WorkerEnd, Send, Shape, WorkerInsideWait
  <2>2. CASE WorkerCancelReturn
    BY <1>a, <2>2 DEF WorkerCancelReturn, WorkerEnd, Settle, Shape, WorkerInsideWait
  <2>3. CASE WorkerFail
    BY <1>a, <2>3 DEF WorkerFail, WorkerEnd, Settle, Shape, WorkerInsideWait
  <2>4. CASE WorkerWake BY <1>a, <2>4 DEF WorkerWake, CountPoll
  <2>5. ASSUME NEW b \in BOOLEAN, WorkerSnapshot(b) PROVE [Life!Next]_(Life!vars)
    BY <1>a, <2>5 DEF WorkerSnapshot, WorkerEnd, Settle, Shape, WorkerInsideWait
  <2> QED BY <1>4, <2>1, <2>2, <2>3, <2>4, <2>5 DEF Worker
<1>5. CASE Sched
  <2>1. ASSUME NEW r \in net, Serve(r) PROVE [Life!Next]_(Life!vars)
    <3>a. /\ r.t \in Turns /\ turn' = turn /\ mpc' = mpc /\ verdict' = verdict
          /\ Life!Turns = Turns
      BY <1>a, <2>1 DEF Serve, Life!Turns, Turns
    <3>1. CASE r.m = "submit"
      <4>1. Life!Start(r.t)
        BY <1>a, <3>a, <2>1, <3>1 DEF Serve, FreshDag, Life!Start
      <4> QED BY <3>a, <4>1 DEF Life!Next
    <3>2. CASE r.m = "cancel" /\ dag[r.t] = "running"
      <4>1. Life!End(r.t, "canceled")
        BY <1>a, <3>a, <2>1, <3>2 DEF Serve, Life!End
      <4> QED BY <3>a, <4>1 DEF Life!Next, Life!Failed
    <3>3. CASE r.m = "absorbGood"
      <4>1. Life!Learn(r.t, "good")
        BY <1>a, <3>a, <2>1, <3>3 DEF Serve, Regiving, OneFact, Life!Learn
      <4> QED BY <3>a, <4>1 DEF Life!Next
    <3>4. CASE r.m = "absorbBad"
      <4>1. Life!Learn(r.t, "bad")
        BY <1>a, <3>a, <2>1, <3>4 DEF Serve, Regiving, OneFact, Life!Learn
      <4> QED BY <3>a, <4>1 DEF Life!Next
    <3>5. CASE r.m = "status" \/ (r.m = "cancel" /\ dag[r.t] # "running")
      BY <1>a, <3>a, <2>1, <3>5 DEF Serve
    <3>6. r.m \in Methods
      BY <2>1 DEF TypeOK, Request
    <3> QED BY <3>1, <3>2, <3>3, <3>4, <3>5, <3>6 DEF Methods
  <2>2. ASSUME NEW r \in net, Lose(r) PROVE [Life!Next]_(Life!vars)
    BY <1>a, <2>2 DEF Lose
  <2>3. ASSUME NEW t \in Turns, NEW s \in {"completed", "failed"}, DagEnds(t, s)
        PROVE [Life!Next]_(Life!vars)
    <3>1. Life!End(t, s)
      BY <2>3 DEF DagEnds, Life!End
    <3> QED BY <3>1 DEF Life!Next, Life!Turns, Turns, Life!Failed
  <2> QED BY <1>5, <2>1, <2>2, <2>3 DEF Sched
<1>6. CASE UNCHANGED vars
  BY <1>6 DEF vars
<1> QED BY <1>1, <1>2, <1>3, <1>4, <1>5, <1>6 DEF Next, Main

-----------------------------------------------------------------------------
(* The theorems *)

\* The boot state of the CLI, before the first prompt, satisfies the invariant.
LEMMA InvInit == Init => IInv
<1> SUFFICES ASSUME Init PROVE IInv
  OBVIOUS
<1> USE DEF Init, InTurn, Idle, Head, Pipeline, Planning
<1>1. TypeOK
  <2>1. /\ 0 \in 0..MaxTurns /\ 0 \in 0..BoardPolls
        /\ 0 \in 0..StaleMax /\ 0 \in 0..WaitPolls
    BY TurnAssumption DEF TurnAssumption
  <2>2. /\ reply \in [Threads -> {"ok"} \cup DagState \cup {"wait"}]
        /\ dag \in [Turns -> DagState] /\ absorbed \in [Turns -> {"none", "good", "bad"}]
        /\ verdict \in [Turns -> Verdict]
    BY DEF DagState, Verdict
  <2>3. wpc \in WorkerPc /\ wres \in WaitResult
    BY DEF WorkerPc, WaitResult
  <2> QED BY <2>1, <2>2, <2>3 DEF TypeOK
<1>2. Shape
  BY DEF Shape, WorkerInsideWait, InBoard
<1>3. FreshDag /\ OneVerdict
  BY DEF FreshDag, OneVerdict
<1>4. TrueAnswer
  BY DEF TrueAnswer, Terminal
<1>5. FlagIsOurs /\ StopIsAsked
  BY DEF FlagIsOurs, StopIsAsked
<1>6. Regiving /\ VerdictIsReal /\ AbsorbIsReal /\ OneFact /\ DagExists
  BY DEF Regiving, VerdictIsReal, AbsorbIsReal, OneFact, DagExists
<1> QED BY <1>1, <1>2, <1>3, <1>4, <1>5, <1>6 DEF IInv

\* IInv is an invariant of the turns: threads, messages, flag and sched_d.
THEOREM Inductive == Spec => []IInv
<1>1. IInv /\ [Next]_vars => IInv'
  BY TypeStep, ShapeStep, FlagStep, FreshDagStep, TrueAnswerStep, OneVerdictStep,
     VerdictStep, OneFactStep, DagExistsStep DEF IInv
<1> QED BY InvInit, <1>1, PTL DEF Spec

\* Every variable keeps its type; the poll counters of tp_board_loop and
\* cli_dag_wait_remote never pass their limits.
THEOREM TypeCorrect == Spec => []TypeOK
<1>1. IInv => TypeOK
  BY DEF IInv
<1> QED BY Inductive, <1>1, PTL

\* The wait worker never outlives tp_wait, whose stack holds its context.
THEOREM WorkerIsJoined == Spec => []WorkerInsideWait
<1>1. IInv => WorkerInsideWait
  BY DEF IInv, Shape
<1> QED BY Inductive, <1>1, PTL

\* The flag a turn finds, sched.dag_cancel and the verdict "aborted" answer a
\* request to stop of that turn.
THEOREM CancelIsAsked == Spec => []CancelOnlyWhenAsked
<1>1. IInv => CancelOnlyWhenAsked
  BY DEF IInv, CancelOnlyWhenAsked
<1> QED BY Inductive, <1>1, PTL

\* Success and failure are shown only for a DAG that ended that way.
THEOREM VerdictIsTrue == Spec => []VerdictIsReal
<1>1. IInv => VerdictIsReal
  BY DEF IInv
<1> QED BY Inductive, <1>1, PTL

\* sched_d learns only what is true of the DAG and was told to the user.
THEOREM AbsorbIsTrue == Spec => []AbsorbIsReal
<1>1. IInv => AbsorbIsReal
  BY DEF IInv
<1> QED BY Inductive, <1>1, PTL

\* The threads, messages and flag of a turn implement the lifecycle.
THEOREM Implements == Spec => LifeSpec
<1>1. Init => Life!Init
  BY DEF Init, Life!Init, Phase, Idle, Life!Turns, Turns
<1> QED BY <1>1, Inductive, RefineStep, PTL DEF Spec, LifeSpec, Life!Spec
=============================================================================
