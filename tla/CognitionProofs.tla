--------------------------- MODULE CognitionProofs ---------------------------
(* The safety of Cognition for every number of topics and questions: the     *)
(* answers sent are the user's, the records of the review outlive its        *)
(* threads, and the report is what the agents said.                          *)
EXTENDS Cognition, FiniteSetTheorems, SequenceTheorems, TLAPS

\* The main thread has not come to the dispatch of the review
BeforeDispatch == mpc \in {"idle", "absorb", "health", "alloc"} \cup Thinking
Spoken  == {"spoke", "blank", "mute"}
ToSpawn(t)  == [m |-> "spawn", t |-> t]
ToInvoke(t) == [m |-> "invoke", t |-> t]

\* Where the answers are: typed and not yet sent, or sent
AnswersOnTheirWay ==
  /\ mpc = "idle" => rounds = <<>>
  /\ mpc \in {"think1", "ask"} => Len(rounds) = 1
  /\ mpc \in {"idle", "think1"} => answers = {} /\ typed = None
  /\ mpc = "ask" => answers = typed.given /\ ~typed.quit
  /\ AnswersAreTheUsers

\* A thread exists only for a topic that was dispatched, and only until the join
ThreadsJoined ==
  /\ BeforeDispatch => dispatched = {}
  /\ \A t \in Topics \ dispatched : wpc[t] = "none"
  /\ mpc \in {"report", "done"} => \A t \in Topics : wpc[t] \in {"none", "done"}
  /\ mpc \in {"dispatch", "join", "report"} => ~freed

\* A request goes out after its thread, and the second after the answer to the
\* first; agent_d has spoken only when both were served
OneRequest ==
  /\ \A t \in Topics \ dispatched :
       agents[t] = "none" /\ reply[t] = "wait" /\ ToSpawn(t) \notin net /\ ToInvoke(t) \notin net
  /\ \A t \in Topics : ToSpawn(t) \in net => ToInvoke(t) \notin net
  /\ \A t \in Topics : agents[t] \in Spoken => ToSpawn(t) \notin net /\ ToInvoke(t) \notin net
  /\ \A t \in Topics : wpc[t] = "spawn" =>
       agents[t] \notin Spoken /\ ToInvoke(t) \notin net /\ (reply[t] # "wait" => ToSpawn(t) \notin net)
  /\ \A t \in Topics : wpc[t] = "invoke" => ToSpawn(t) \notin net

\* Output is what the agent said, and so is the report
OutputIsReal ==
  /\ \A t \in Topics : reply[t] \in {"text", "blank"} => agents[t] \in {"spoke", "blank"}
  /\ \A t \in Topics : output[t] => agents[t] \in {"spoke", "blank"}
  /\ \A t \in report : agents[t] \in {"spoke", "blank"}
ReportIsWhole == mpc = "done" /\ dispatched # {} /\ ~noMemory => report = Topics \ shown

IInv == /\ TypeOK /\ AnswersOnTheirWay /\ ThreadsJoined
        /\ OneRequest /\ OutputIsReal /\ ReportIsWhole

-----------------------------------------------------------------------------
\* The first call of think.process has no answers, the second has those given.
LEMMA FirstRound ==
  rounds' = <<{}>> => rounds' \in Seq(SUBSET Asked) /\ Len(rounds') <= 2 /\ Len(rounds') = 1
  OBVIOUS
LEMMA SecondRound ==
  ASSUME NEW as \in SUBSET Asked, rounds \in Seq(SUBSET Asked), Len(rounds) = 1,
         rounds' = Append(rounds, as)
  PROVE  /\ rounds' \in Seq(SUBSET Asked) /\ Len(rounds') <= 2
         /\ Len(rounds') = 2 /\ rounds'[2] = as
<1>1. /\ Append(rounds, as) \in Seq(SUBSET Asked)
      /\ Len(Append(rounds, as)) = Len(rounds) + 1
      /\ Append(rounds, as)[Len(rounds) + 1] = as
  BY AppendProperties
<1>2. Len(rounds) + 1 = 2 /\ 2 <= 2
  OBVIOUS
<1>3. Len(rounds') = 2 /\ rounds'[2] = as
  BY <1>1, <1>2, Zenon
<1> QED BY <1>1, <1>2, <1>3, Zenon

\* The next question is one of those that were asked for.
LEMMA ToAskType == TypeOK => ToAsk \subseteq Asked
<1> SUFFICES ASSUME TypeOK PROVE ToAsk \subseteq Asked
  OBVIOUS
<1>1. IsFiniteSet(Asked)
  BY FS_Interval, CognitionAssumption DEF Asked
<1>2. Cardinality(answers) \in Nat
  BY <1>1, FS_Subset, FS_CardinalityType DEF TypeOK
<1> QED BY <1>2, CognitionAssumption DEF TypeOK, ToAsk, Question, Asked

\* Every variable keeps its type.
LEMMA TypeStep == TypeOK /\ AnswersOnTheirWay /\ [Next]_vars => TypeOK'
<1> SUFFICES ASSUME TypeOK, AnswersOnTheirWay, [Next]_vars PROVE TypeOK'
  OBVIOUS
<1> USE CognitionAssumption DEF TypeOK, vars, thinkVars, reviewVars, workVars, agentVars,
    Think, MainOnly, ReviewOnly, WorkerOnly
<1> USE DEF Thinking, Review, Failure, Errors
<1>1. CASE Start
  <2>1. rounds' \in Seq(SUBSET Asked) /\ Len(rounds') <= 2
    BY <1>1, FirstRound DEF Start
  <2>2. /\ mpc' = "think1" /\ cancel' = FALSE
        /\ UNCHANGED <<print, questions, answers, outcome, typed, reviewVars, workVars, agentVars>>
    BY <1>1 DEF Start
  <2> HIDE DEF Asked
  <2> QED BY <2>1, <2>2
<1>2. CASE Sigint
  BY <1>2 DEF Sigint
<1>3. CASE Planning
  <2>1. ASSUME NEW n \in 0..MaxQuestions, Unclear(n) PROVE TypeOK'
    BY <2>1 DEF Unclear
  <2> QED BY <1>3, <2>1 DEF Planning, ThinkFails, PlanFails, PlanComes, QuestionsBad,
                StillUnclear, AbsorbReturn, Fails, End
<1>4. CASE Asking
  <2>1. CASE Answer
    <3>1. ToAsk \subseteq Asked
      BY ToAskType
    <3> QED BY <2>1, <3>1 DEF Answer
  <2>2. ASSUME NEW as \in SUBSET Asked, mpc = "ask", SendAnswers(as),
               typed' \in [given : SUBSET Asked, quit : BOOLEAN]
        PROVE  TypeOK'
    <3>0. Len(rounds) = 1 /\ rounds \in Seq(SUBSET Asked) /\ rounds' = Append(rounds, as)
      BY <2>2 DEF SendAnswers, AnswersOnTheirWay
    <3>1. rounds' \in Seq(SUBSET Asked) /\ Len(rounds') <= 2
      BY <3>0, SecondRound
    <3>2. /\ mpc' = "think2" /\ answers' = {}
          /\ UNCHANGED <<print, cancel, workVars, agentVars, reviewVars, questions, outcome>>
      BY <2>2 DEF SendAnswers
    <3> HIDE DEF Asked
    <3> QED BY <2>2, <3>1, <3>2
  <2>3. CASE NoMore
    BY <2>3, <2>2 DEF NoMore
  <2>4. CASE Quit
    <3>1. GivenUp \in SUBSET Asked
      BY DEF GivenUp
    <3> QED BY <2>4, <2>2, <3>1 DEF Quit
  <2> QED BY <1>4, <2>1, <2>3, <2>4 DEF Asking
<1>5. CASE Reviewing
  <2>1. ASSUME NEW t \in Topics, NEW how \in {"thread", "noThread", "noPrompt"}, Dispatch(t, how)
        PROVE  TypeOK'
    <3>1. [m |-> "spawn", t |-> t] \in [m : {"spawn", "invoke"}, t : Topics]
      OBVIOUS
    <3>2. net' \subseteq [m : {"spawn", "invoke"}, t : Topics]
      BY <2>1, <3>1 DEF Dispatch
    <3>3. status' \in [Topics -> {"ok"} \cup Errors]
      BY <2>1 DEF Dispatch
    <3>4. wpc' \in [Topics -> {"none", "spawn", "invoke", "done"}]
      BY <2>1 DEF Dispatch
    <3> QED BY <2>1, <3>2, <3>3, <3>4 DEF Dispatch
  <2>2. ASSUME NEW ok \in BOOLEAN, HealthReturn(ok) \/ Alloc(ok) \/ Verdicts(ok) PROVE TypeOK'
    BY <2>2 DEF HealthReturn, Alloc, Verdicts
  <2> QED BY <1>5, <2>1, <2>2 DEF Reviewing, ReviewOff, Join
<1>6. ASSUME NEW t \in Topics, Worker(t) PROVE TypeOK'
  <2>1. CASE SpawnFails(t)
    BY <2>1 DEF SpawnFails, Ends
  <2>2. ASSUME NEW m \in BOOLEAN, SpawnReturns(t, m) PROVE TypeOK'
    <3>1. [m |-> "invoke", t |-> t] \in [m : {"spawn", "invoke"}, t : Topics]
      OBVIOUS
    <3> QED BY <2>2, <3>1 DEF SpawnReturns, Ends
  <2>3. CASE InvokeFails(t)
    BY <2>3 DEF InvokeFails, Ends
  <2>4. CASE InvokeReturns(t)
    BY <2>4 DEF InvokeReturns, Ends
  <2> QED BY <1>6, <2>1, <2>2, <2>3, <2>4 DEF Worker
<1>7. ASSUME NEW r \in net, Serve(r) PROVE TypeOK'
  <2>1. r.t \in Topics
    OBVIOUS
  <2> QED BY <1>7, <2>1 DEF Serve
<1>8. CASE UNCHANGED vars
  BY <1>8
<1> QED BY <1>1, <1>2, <1>3, <1>4, <1>5, <1>6, <1>7, <1>8 DEF Next

\* What was typed is kept until it is sent.
LEMMA AnswersStep == TypeOK /\ AnswersOnTheirWay /\ [Next]_vars => AnswersOnTheirWay'
<1> SUFFICES ASSUME TypeOK, AnswersOnTheirWay, [Next]_vars PROVE AnswersOnTheirWay'
  OBVIOUS
<1> USE DEF AnswersOnTheirWay, AnswersAreTheUsers, vars, thinkVars, Think, MainOnly
<1>1. CASE Start
  <2>1. Len(rounds') = 1
    BY <1>1, FirstRound DEF Start
  <2>2. mpc = "idle" /\ mpc' = "think1" /\ UNCHANGED <<answers, typed>>
    BY <1>1 DEF Start
  <2> QED BY <2>1, <2>2
<1>2. CASE Sigint
  BY <1>2 DEF Sigint
<1>3. CASE Planning
  <2>1. /\ UNCHANGED <<answers, rounds, typed>>
        /\ \/ mpc = "think1" /\ mpc' = "ask"
           \/ mpc' \in {"done", "absorb", "health"}
    BY <1>3 DEF Planning, ThinkFails, PlanFails, PlanComes, QuestionsBad, StillUnclear, Unclear,
      AbsorbReturn, Fails, End
  <2>2. None.given = {} /\ ~None.quit
    BY DEF None
  <2> QED BY <2>1, <2>2
<1>4. CASE Asking
  <2>1. CASE Answer
    <3>1. /\ mpc = "ask" /\ mpc' = "ask" /\ rounds' = rounds
          /\ answers' = answers \cup ToAsk
          /\ typed' = [typed EXCEPT !.given = typed.given \cup ToAsk]
      BY <2>1 DEF Answer
    <3>2. Len(rounds') = 1
      BY <3>1
    <3>3. typed'.given = typed.given \cup ToAsk /\ typed'.quit = typed.quit
      BY <3>1 DEF TypeOK
    <3> QED BY <3>1, <3>2, <3>3
  <2>2. ASSUME NEW as \in SUBSET Asked, mpc = "ask", SendAnswers(as),
               as = IF typed'.quit THEN {} ELSE typed'.given
        PROVE  AnswersOnTheirWay'
    <3>1. Len(rounds') = 2 /\ rounds'[2] = as
      BY <2>2, SecondRound DEF SendAnswers, TypeOK
    <3>2. mpc' = "think2"
      BY <2>2 DEF SendAnswers
    <3> QED BY <2>2, <3>1, <3>2
  <2>3. CASE NoMore
    <3>1. answers \in SUBSET Asked /\ mpc = "ask" /\ typed' = typed
      BY <2>3 DEF NoMore, TypeOK
    <3> QED BY <2>3, <2>2, <3>1 DEF NoMore
  <2>4. CASE Quit
    <3>1. GivenUp \in SUBSET Asked /\ mpc = "ask" /\ typed'.quit = TRUE
      BY <2>4 DEF Quit, GivenUp, TypeOK
    <3> QED BY <2>4, <2>2, <3>1 DEF Quit, GivenUp
  <2> QED BY <1>4, <2>1, <2>3, <2>4 DEF Asking
<1>5. CASE Reviewing
  <2>1. UNCHANGED thinkVars /\ mpc \in Review /\ mpc' \in Review \cup {"done"}
    BY <1>5 DEF Reviewing, ReviewOff, Join, HealthReturn, Alloc, Dispatch, Verdicts, ReviewOnly, Review
  <2> QED BY <2>1 DEF Review
<1>6. ASSUME NEW t \in Topics, Worker(t) PROVE AnswersOnTheirWay'
  BY <1>6 DEF Worker, SpawnFails, SpawnReturns, InvokeFails, InvokeReturns, WorkerOnly
<1>7. ASSUME NEW r \in net, Serve(r) PROVE AnswersOnTheirWay'
  BY <1>7 DEF Serve
<1>8. CASE UNCHANGED vars
  BY <1>8
<1> QED BY <1>1, <1>2, <1>3, <1>4, <1>5, <1>6, <1>7, <1>8 DEF Next

\* Threads are those of the dispatch, and all of them end before the join does.
LEMMA ThreadsStep == TypeOK /\ ThreadsJoined /\ [Next]_vars => ThreadsJoined'
<1> SUFFICES ASSUME TypeOK, ThreadsJoined, [Next]_vars PROVE ThreadsJoined'
  OBVIOUS
<1> USE DEF ThreadsJoined, BeforeDispatch, vars, reviewVars, workVars, Think, MainOnly, ReviewOnly,
    Thinking
<1>1. CASE Start
  BY <1>1 DEF Start
<1>2. CASE Sigint
  BY <1>2 DEF Sigint
<1>3. CASE Planning
  BY <1>3 DEF Planning, ThinkFails, PlanFails, PlanComes, QuestionsBad, StillUnclear, Unclear,
    AbsorbReturn, Fails, End
<1>4. CASE Asking
  BY <1>4 DEF Asking, Answer, NoMore, Quit, SendAnswers
<1>5. CASE Reviewing
  <2>1. ASSUME NEW t \in Topics, NEW how \in {"thread", "noThread", "noPrompt"}, Dispatch(t, how)
        PROVE  ThreadsJoined'
    <3>1. /\ mpc = "dispatch" /\ dispatched' = dispatched \cup {t} /\ freed' = freed
          /\ mpc' \in {"dispatch", "join"}
      BY <2>1 DEF Dispatch
    <3>2. \A u \in Topics \ {t} : wpc'[u] = wpc[u]
      BY <2>1 DEF Dispatch, TypeOK
    <3> QED BY <3>1, <3>2
  <2>2. CASE ReviewOff
    BY <2>2 DEF ReviewOff
  <2>3. CASE Join
    BY <2>3 DEF Join, AllDone
  <2>4. ASSUME NEW ok \in BOOLEAN, HealthReturn(ok) PROVE ThreadsJoined'
    BY <2>4 DEF HealthReturn
  <2>5. ASSUME NEW ok \in BOOLEAN, Alloc(ok) PROVE ThreadsJoined'
    BY <2>5 DEF Alloc
  <2>6. ASSUME NEW ok \in BOOLEAN, Verdicts(ok) PROVE ThreadsJoined'
    BY <2>6 DEF Verdicts
  <2> QED BY <1>5, <2>1, <2>2, <2>3, <2>4, <2>5, <2>6 DEF Reviewing
<1>6. ASSUME NEW t \in Topics, Worker(t) PROVE ThreadsJoined'
  <2>1. UNCHANGED <<mpc, reviewVars>>
    BY <1>6 DEF Worker, SpawnFails, SpawnReturns, InvokeFails, InvokeReturns, WorkerOnly
  <2>2. wpc[t] \notin {"none", "done"} /\ \A u \in Topics \ {t} : wpc'[u] = wpc[u]
    BY <1>6 DEF Worker, SpawnFails, SpawnReturns, InvokeFails, InvokeReturns, Ends, TypeOK
  <2> QED BY <2>1, <2>2
<1>7. ASSUME NEW r \in net, Serve(r) PROVE ThreadsJoined'
  BY <1>7 DEF Serve
<1>8. CASE UNCHANGED vars
  BY <1>8
<1> QED BY <1>1, <1>2, <1>3, <1>4, <1>5, <1>6, <1>7, <1>8 DEF Next

\* What a request does when it is served.
LEMMA ServeFacts ==
  ASSUME TypeOK, NEW r \in net, Serve(r)
  PROVE  /\ r.t \in Topics /\ r = [m |-> r.m, t |-> r.t] /\ r.m \in {"spawn", "invoke"}
         /\ UNCHANGED <<mpc, thinkVars, reviewVars, workVars>>
         /\ net' = net \ {r}
         /\ \A u \in Topics \ {r.t} : agents'[u] = agents[u] /\ reply'[u] = reply[u]
         /\ r.m = "spawn" => agents'[r.t] \notin Spoken
         /\ reply'[r.t] \in {"text", "blank"} /\ reply'[r.t] # reply[r.t] => agents'[r.t] \in {"spoke", "blank"}
         /\ wpc[r.t] # r.m => reply'[r.t] = reply[r.t]
<1> USE DEF TypeOK, Serve
<1>1. r.t \in Topics /\ r = [m |-> r.m, t |-> r.t] /\ r.m \in {"spawn", "invoke"}
  OBVIOUS
<1>2. UNCHANGED <<mpc, thinkVars, reviewVars, workVars>> /\ net' = net \ {r}
  OBVIOUS
<1>3. PICK a \in IF r.m = "spawn" THEN {"none", "idle"} ELSE {"spoke", "blank", "mute"} :
       /\ agents' = [agents EXCEPT ![r.t] = a]
       /\ reply' = IF wpc[r.t] # r.m THEN reply
                   ELSE [reply EXCEPT ![r.t] = CASE a = "none" -> "noId" [] a = "idle" -> "id"
                                                 [] a = "spoke" -> "text" [] a = "blank" -> "blank"
                                                 [] a = "mute" -> "empty"]
  OBVIOUS
<1>4. \A u \in Topics \ {r.t} : agents'[u] = agents[u] /\ reply'[u] = reply[u]
  BY <1>1, <1>3
<1>5. agents'[r.t] = a
  BY <1>1, <1>3
<1>6. wpc[r.t] # r.m => reply'[r.t] = reply[r.t]
  BY <1>3
<1>7. reply'[r.t] \in {"text", "blank"} /\ reply'[r.t] # reply[r.t] => a \in {"spoke", "blank"}
  BY <1>1, <1>3
<1>8. r.m = "spawn" => a \notin Spoken
  BY <1>1, <1>3 DEF Spoken
<1> QED BY <1>1, <1>2, <1>4, <1>5, <1>6, <1>7, <1>8

\* No agent speaks before it was asked to, nor twice.
LEMMA OneRequestStep == TypeOK /\ ThreadsJoined /\ OneRequest /\ [Next]_vars => OneRequest'
<1> SUFFICES ASSUME TypeOK, ThreadsJoined, OneRequest, [Next]_vars PROVE OneRequest'
  OBVIOUS
<1> USE DEF OneRequest, ToSpawn, ToInvoke, Spoken, vars, reviewVars, workVars, agentVars, Think, MainOnly,
    ReviewOnly
<1>1. CASE Start
  BY <1>1 DEF Start
<1>2. CASE Sigint
  BY <1>2 DEF Sigint
<1>3. CASE Planning
  BY <1>3 DEF Planning, ThinkFails, PlanFails, PlanComes, QuestionsBad, StillUnclear, Unclear,
    AbsorbReturn, Fails, End
<1>4. CASE Asking
  BY <1>4 DEF Asking, Answer, NoMore, Quit, SendAnswers
<1>5. CASE Reviewing
  <2>1. ASSUME NEW t \in Topics, NEW how \in {"thread", "noThread", "noPrompt"}, Dispatch(t, how)
        PROVE  OneRequest'
    <3>1. /\ t \notin dispatched /\ dispatched' = dispatched \cup {t} /\ UNCHANGED <<agents, reply>>
          /\ net' \subseteq net \cup {ToSpawn(t)}
      BY <2>1 DEF Dispatch
    <3>2. \A u \in Topics \ {t} : wpc'[u] = wpc[u]
      BY <2>1 DEF Dispatch, TypeOK
    <3>3. wpc'[t] \in {"none", "spawn"}
      BY <2>1 DEF Dispatch, TypeOK
    <3>4. agents[t] = "none" /\ reply[t] = "wait" /\ ToSpawn(t) \notin net /\ ToInvoke(t) \notin net
      BY <3>1
    <3>5. ToInvoke(t) \notin net'
      BY <3>1, <3>4
    <3>6. \A u \in Topics \ {t} : (ToSpawn(u) \in net' => ToSpawn(u) \in net)
                                  /\ (ToInvoke(u) \in net' => ToInvoke(u) \in net)
      BY <3>1
    <3> HIDE DEF ToSpawn, ToInvoke
    <3> QED BY <3>1, <3>2, <3>3, <3>4, <3>5, <3>6
  <2>2. CASE ReviewOff
    BY <2>2 DEF ReviewOff
  <2>3. CASE Join
    BY <2>3 DEF Join
  <2>4. ASSUME NEW ok \in BOOLEAN, HealthReturn(ok) PROVE OneRequest'
    BY <2>4 DEF HealthReturn
  <2>5. ASSUME NEW ok \in BOOLEAN, Alloc(ok) PROVE OneRequest'
    BY <2>5 DEF Alloc
  <2>6. ASSUME NEW ok \in BOOLEAN, Verdicts(ok) PROVE OneRequest'
    BY <2>6 DEF Verdicts
  <2> QED BY <1>5, <2>1, <2>2, <2>3, <2>4, <2>5, <2>6 DEF Reviewing
<1>6. ASSUME NEW t \in Topics, Worker(t) PROVE OneRequest'
  <2>1. t \in dispatched
    BY <1>6 DEF ThreadsJoined, Worker, SpawnFails, SpawnReturns, InvokeFails, InvokeReturns
  <2>2. UNCHANGED <<dispatched, agents>>
    BY <1>6 DEF Worker, SpawnFails, SpawnReturns, InvokeFails, InvokeReturns, WorkerOnly
  <2>3. \A u \in Topics \ {t} : wpc'[u] = wpc[u] /\ reply'[u] = reply[u]
    BY <1>6 DEF Worker, SpawnFails, SpawnReturns, InvokeFails, InvokeReturns, Ends, TypeOK
  <2>4. \/ wpc'[t] = "done" /\ net' = net
        \/ /\ wpc[t] = "spawn" /\ reply[t] = "id"
           /\ wpc'[t] = "invoke" /\ net' = net \cup {ToInvoke(t)}
    BY <1>6 DEF Worker, SpawnFails, SpawnReturns, InvokeFails, InvokeReturns, Ends, TypeOK
  <2>5. CASE wpc'[t] = "done" /\ net' = net
    BY <2>1, <2>2, <2>3, <2>5
  <2>6. CASE /\ wpc[t] = "spawn" /\ reply[t] = "id"
             /\ wpc'[t] = "invoke" /\ net' = net \cup {ToInvoke(t)}
    <3>1. agents[t] \notin Spoken /\ ToSpawn(t) \notin net'
      BY <2>6
    <3>2. \A u \in Topics \ {t} : (ToSpawn(u) \in net' => ToSpawn(u) \in net)
                                  /\ (ToInvoke(u) \in net' => ToInvoke(u) \in net)
      BY <2>6
    <3> HIDE DEF ToSpawn, ToInvoke
    <3> QED BY <2>1, <2>2, <2>3, <2>6, <3>1, <3>2
  <2> QED BY <2>4, <2>5, <2>6
<1>7. ASSUME NEW r \in net, Serve(r) PROVE OneRequest'
  <2>1. /\ r.t \in Topics /\ r = [m |-> r.m, t |-> r.t] /\ r.m \in {"spawn", "invoke"}
        /\ UNCHANGED <<reviewVars, workVars>> /\ net' = net \ {r}
        /\ \A u \in Topics \ {r.t} : agents'[u] = agents[u] /\ reply'[u] = reply[u]
        /\ r.m = "spawn" => agents'[r.t] \notin Spoken
        /\ wpc[r.t] # r.m => reply'[r.t] = reply[r.t]
    BY <1>7, ServeFacts
  <2>2. r.t \in dispatched
    BY <2>1
  <2>3. CASE r = ToSpawn(r.t)
    <3>1. ToInvoke(r.t) \notin net /\ ToSpawn(r.t) \notin net' /\ agents'[r.t] \notin Spoken
      BY <2>1, <2>3
    <3> HIDE DEF ToSpawn, ToInvoke
    <3> QED BY <2>1, <2>2, <3>1
  <2>4. CASE r = ToInvoke(r.t)
    <3>1. ToSpawn(r.t) \notin net /\ ToInvoke(r.t) \notin net' /\ wpc[r.t] # "spawn"
      BY <2>1, <2>4
    <3> HIDE DEF ToSpawn, ToInvoke
    <3> QED BY <2>1, <2>2, <3>1
  <2> QED BY <2>1, <2>3, <2>4
<1>8. CASE UNCHANGED vars
  BY <1>8
<1> QED BY <1>1, <1>2, <1>3, <1>4, <1>5, <1>6, <1>7, <1>8 DEF Next

\* Output and report are of agents that answered.
LEMMA OutputStep == TypeOK /\ OneRequest /\ OutputIsReal /\ [Next]_vars => OutputIsReal'
<1> SUFFICES ASSUME TypeOK, OneRequest, OutputIsReal, [Next]_vars PROVE OutputIsReal'
  OBVIOUS
<1> USE DEF OutputIsReal, vars, reviewVars, workVars, agentVars, Think, MainOnly, ReviewOnly
<1>1. CASE Start
  BY <1>1 DEF Start
<1>2. CASE Sigint
  BY <1>2 DEF Sigint
<1>3. CASE Planning
  BY <1>3 DEF Planning, ThinkFails, PlanFails, PlanComes, QuestionsBad, StillUnclear, Unclear,
    AbsorbReturn, Fails, End
<1>4. CASE Asking
  BY <1>4 DEF Asking, Answer, NoMore, Quit, SendAnswers
<1>5. CASE Reviewing
  <2>1. ASSUME NEW t \in Topics, NEW how \in {"thread", "noThread", "noPrompt"}, Dispatch(t, how)
        PROVE  OutputIsReal'
    BY <2>1 DEF Dispatch
  <2>2. CASE ReviewOff \/ Join
    BY <2>2 DEF ReviewOff, Join
  <2>3. ASSUME NEW ok \in BOOLEAN, HealthReturn(ok) \/ Alloc(ok) PROVE OutputIsReal'
    BY <2>3 DEF HealthReturn, Alloc
  <2>4. ASSUME NEW ok \in BOOLEAN, Verdicts(ok) PROVE OutputIsReal'
    BY <2>4 DEF Verdicts, Spoke
  <2> QED BY <1>5, <2>1, <2>2, <2>3, <2>4 DEF Reviewing
<1>6. ASSUME NEW t \in Topics, Worker(t) PROVE OutputIsReal'
  <2>1. UNCHANGED <<agents, report>>
    BY <1>6 DEF Worker, SpawnFails, SpawnReturns, InvokeFails, InvokeReturns, WorkerOnly
  <2>2. \A u \in Topics : reply'[u] = reply[u] \/ reply'[u] = "wait"
    BY <1>6 DEF Worker, SpawnFails, SpawnReturns, InvokeFails, InvokeReturns, Ends, TypeOK
  <2>3. \A u \in Topics : output'[u] => output[u] \/ reply[u] \in {"text", "blank"}
    BY <1>6 DEF Worker, SpawnFails, SpawnReturns, InvokeFails, InvokeReturns, TypeOK
  <2> QED BY <2>1, <2>2, <2>3
<1>7. ASSUME NEW r \in net, Serve(r) PROVE OutputIsReal'
  <2>1. /\ r.t \in Topics /\ r = [m |-> r.m, t |-> r.t] /\ r.m \in {"spawn", "invoke"}
        /\ UNCHANGED <<reviewVars, workVars>>
        /\ \A u \in Topics \ {r.t} : agents'[u] = agents[u] /\ reply'[u] = reply[u]
        /\ reply'[r.t] \in {"text", "blank"} /\ reply'[r.t] # reply[r.t] => agents'[r.t] \in {"spoke", "blank"}
    BY <1>7, ServeFacts
  <2>2. agents[r.t] \notin Spoken
    BY <2>1 DEF OneRequest, ToSpawn, ToInvoke
  <2>3. reply[r.t] \notin {"text", "blank"} /\ ~output[r.t] /\ r.t \notin report
    BY <2>1, <2>2 DEF Spoken
  <2> QED BY <2>1, <2>3 DEF TypeOK
<1>8. CASE UNCHANGED vars
  BY <1>8
<1> QED BY <1>1, <1>2, <1>3, <1>4, <1>5, <1>6, <1>7, <1>8 DEF Next

\* A review that dispatched is over only with its verdicts.
LEMMA ReportStep == TypeOK /\ ThreadsJoined /\ ReportIsWhole /\ [Next]_vars => ReportIsWhole'
<1> SUFFICES ASSUME TypeOK, ThreadsJoined, ReportIsWhole, [Next]_vars PROVE ReportIsWhole'
  OBVIOUS
<1> USE DEF ReportIsWhole, ThreadsJoined, BeforeDispatch, Thinking, vars, reviewVars, Think, MainOnly,
    ReviewOnly
<1>1. CASE Start
  BY <1>1 DEF Start
<1>2. CASE Sigint
  BY <1>2 DEF Sigint
<1>3. CASE Planning
  BY <1>3 DEF Planning, ThinkFails, PlanFails, PlanComes, QuestionsBad, StillUnclear, Unclear,
    AbsorbReturn, Fails, End
<1>4. CASE Asking
  BY <1>4 DEF Asking, Answer, NoMore, Quit, SendAnswers
<1>5. CASE Reviewing
  <2>1. ASSUME NEW t \in Topics, NEW how \in {"thread", "noThread", "noPrompt"}, Dispatch(t, how)
        PROVE  ReportIsWhole'
    BY <2>1 DEF Dispatch
  <2>2. CASE ReviewOff
    BY <2>2 DEF ReviewOff
  <2>3. CASE Join
    BY <2>3 DEF Join
  <2>4. ASSUME NEW ok \in BOOLEAN, HealthReturn(ok) PROVE ReportIsWhole'
    BY <2>4 DEF HealthReturn
  <2>5. ASSUME NEW ok \in BOOLEAN, Alloc(ok) PROVE ReportIsWhole'
    BY <2>5 DEF Alloc
  <2>6. ASSUME NEW ok \in BOOLEAN, Verdicts(ok) PROVE ReportIsWhole'
    BY <2>6 DEF Verdicts, Spoke, TypeOK
  <2> QED BY <1>5, <2>1, <2>2, <2>3, <2>4, <2>5, <2>6 DEF Reviewing
<1>6. ASSUME NEW t \in Topics, Worker(t) PROVE ReportIsWhole'
  BY <1>6 DEF Worker, SpawnFails, SpawnReturns, InvokeFails, InvokeReturns, WorkerOnly
<1>7. ASSUME NEW r \in net, Serve(r) PROVE ReportIsWhole'
  BY <1>7 DEF Serve
<1>8. CASE UNCHANGED vars
  BY <1>8
<1> QED BY <1>1, <1>2, <1>3, <1>4, <1>5, <1>6, <1>7, <1>8 DEF Next

LEMMA InitIInv == Init => IInv
<1> SUFFICES ASSUME Init PROVE IInv
  OBVIOUS
<1>1. rounds = <<>> /\ rounds \in Seq(SUBSET Asked) /\ Len(rounds) = 0
  BY DEF Init
<1>2. TypeOK
  <2>1. rounds \in Seq(SUBSET Asked) /\ Len(rounds) <= 2
    BY <1>1
  <2>2. typed \in [given : SUBSET Asked, quit : BOOLEAN] /\ answers \subseteq Asked
    BY DEF Init, None
  <2>3. questions \in 0..MaxQuestions
    BY CognitionAssumption DEF Init
  <2>4. /\ wpc = [t \in Topics |-> "none"] /\ status = [t \in Topics |-> "ok"]
        /\ output = [t \in Topics |-> FALSE] /\ agents = [t \in Topics |-> "none"]
        /\ reply = [t \in Topics |-> "wait"]
    BY DEF Init, Fresh
  <2>5. /\ print \in BOOLEAN /\ cancel = FALSE /\ mpc = "idle" /\ outcome = "none"
        /\ dispatched = {} /\ freed = TRUE /\ report = {} /\ shown = {} /\ noMemory = FALSE
        /\ net = {}
    BY DEF Init
  <2> HIDE DEF Asked
  <2> QED BY <2>1, <2>2, <2>3, <2>4, <2>5 DEF TypeOK, Errors
<1>3. AnswersOnTheirWay
  <2> HIDE DEF Asked
  <2> QED BY <1>1 DEF Init, AnswersOnTheirWay, AnswersAreTheUsers
<1>4. ThreadsJoined /\ OneRequest /\ OutputIsReal /\ ReportIsWhole
  BY DEF Init, Fresh, ThreadsJoined, OneRequest, OutputIsReal, ReportIsWhole, BeforeDispatch, Spoken
<1> QED BY <1>2, <1>3, <1>4 DEF IInv

-----------------------------------------------------------------------------
\* The parts hold together in every behaviour: requests, threads and records
\* of cli_review.c, and the answers of cli_gccp_interact.
THEOREM Inductive == Spec => []IInv
<1>1. IInv /\ [Next]_vars => IInv'
  BY TypeStep, AnswersStep, ThreadsStep, OneRequestStep, OutputStep, ReportStep DEF IInv
<1> QED BY InitIInv, <1>1, PTL DEF Spec

\* Every variable of the planning and the review keeps its type, for any
\* number of topics and questions.
THEOREM TypeCorrect == Spec => []TypeOK
<1>1. IInv => TypeOK
  BY DEF IInv
<1> QED BY Inductive, <1>1, PTL

\* The second think.process carries what the user typed for the questions, and
\* nothing after a word to stop (cli_gccp_interact).
THEOREM AnswersReachTheModel == Spec => []AnswersAreTheUsers
<1>1. IInv => AnswersAreTheUsers
  BY DEF IInv, AnswersOnTheirWay
<1> QED BY Inductive, <1>1, PTL

\* No record of the review is given back while a thread still writes to it,
\* however many threads there are (review_join, review_free).
THEOREM RecordsOutliveThreads == Spec => []WorkersInsideReview
<1>1. IInv => WorkersInsideReview
  <2> SUFFICES ASSUME IInv, NEW t \in Topics, wpc[t] \in {"spawn", "invoke"} PROVE ~freed
    BY DEF WorkersInsideReview
  <2>1. t \in dispatched /\ ~BeforeDispatch /\ mpc \notin {"report", "done"}
    BY DEF IInv, ThreadsJoined
  <2>2. mpc \in {"dispatch", "join"}
    BY <2>1 DEF IInv, TypeOK, BeforeDispatch, Thinking, Review
  <2> QED BY <2>2 DEF IInv, ThreadsJoined
<1> QED BY Inductive, <1>1, PTL

\* The report is what agents answered and all that they did, although requests
\* are served after their workers left (review_verdicts, review_report).
THEOREM ReportIsTrue == Spec => []ReportIsReal
<1>1. IInv => ReportIsReal
  BY CognitionAssumption DEF IInv, OutputIsReal, ReportIsWhole, ReportIsReal
<1> QED BY Inductive, <1>1, PTL
=============================================================================
