------------------------------- MODULE Cognition -------------------------------
(* From a task's words to its plan: think.process in one or two rounds with  *)
(* the questions of GCCP between them (core/cli_think.c,                     *)
(* chat/cli_chat_gccp.c), the plan registered with sched_d, and the review   *)
(* by sub-agents on threads of their own (cmd/cli_review.c). The module      *)
(* spells out what TaskTurn takes in the steps plan, absorbPlan and review.  *)
(* think_d and agent_d are external; each call has a connection of its own,  *)
(* and a request may be served after its caller has left.                    *)
EXTENDS Naturals, Sequences, FiniteSets

CONSTANTS Topics,       \* cli_review_topics: as many as the host is rich enough for
          MaxQuestions  \* bound: questions of a round

ASSUME CognitionAssumption ==
  IsFiniteSet(Topics) /\ Topics # {} /\ MaxQuestions \in Nat \ {0}

VARIABLES print,     \* -p: nobody is asked
          cancel,    \* g_cli_cancel
          mpc,       \* where the main thread is
          questions, \* of the first answer of think_d
          answers,   \* the lines given, by question
          outcome,   \* "plan", or why there is none
          dispatched,\* the topics that have been given to threads
          wpc,       \* the worker of each topic
          status, output,  \* cli_review_job_t
          agents,    \* agent_d: the agent of each topic
          net,       \* requests on their way to agent_d
          reply,     \* the answer each worker finds
          freed,     \* jobs: the workers' records have been given back
          report, shown  \* topics in the report, and shown as failed
VARIABLES rounds,    \* history: the answers sent with each think.process
          typed,     \* history: lines the user has typed, and whether the last one was a word to stop
          noMemory   \* history: memory ran out in the main thread of the review

thinkVars  == <<questions, answers, outcome, rounds, typed>>
reviewVars == <<dispatched, freed, report, shown, noMemory>>
workVars   == <<wpc, status, output>>
agentVars  == <<agents, net, reply>>
vars == <<print, cancel, mpc, thinkVars, reviewVars, workVars, agentVars>>

Asked    == 1..MaxQuestions
None     == [given |-> {}, quit |-> FALSE]
Thinking == {"think1", "ask", "think2"}
Review   == {"health", "alloc", "dispatch", "join", "report"}
Failure  == {"callFailed", "badQuestions", "stillUnclear", "badPlan"}
Errors   == {"spawn", "noAgent", "memory", "invoke", "empty"}

TypeOK ==
  /\ print \in BOOLEAN /\ cancel \in BOOLEAN
  /\ mpc \in {"idle", "absorb", "done"} \cup Thinking \cup Review
  /\ questions \in 0..MaxQuestions /\ answers \subseteq Asked
  /\ outcome \in {"none", "plan"} \cup Failure
  /\ dispatched \subseteq Topics /\ freed \in BOOLEAN /\ noMemory \in BOOLEAN
  /\ wpc \in [Topics -> {"none", "spawn", "invoke", "done"}]
  /\ status \in [Topics -> {"ok"} \cup Errors] /\ output \in [Topics -> BOOLEAN]
  /\ agents \in [Topics -> {"none", "idle", "spoke", "blank", "mute"}]
  /\ net \subseteq [m : {"spawn", "invoke"}, t : Topics]
  /\ reply \in [Topics -> {"wait", "id", "noId", "text", "blank", "empty"}]
  /\ report \subseteq Topics /\ shown \subseteq Topics
  /\ rounds \in Seq(SUBSET Asked) /\ Len(rounds) <= 2
  /\ typed \in [given : SUBSET Asked, quit : BOOLEAN]

Fresh ==
  /\ wpc = [t \in Topics |-> "none"] /\ status = [t \in Topics |-> "ok"]
  /\ output = [t \in Topics |-> FALSE]
Init ==
  /\ print \in BOOLEAN /\ cancel = FALSE /\ mpc = "idle" /\ questions = 0 /\ answers = {} /\ outcome = "none"
  /\ dispatched = {} /\ freed = TRUE /\ report = {} /\ shown = {} /\ noMemory = FALSE
  /\ Fresh /\ agents = [t \in Topics |-> "none"] /\ net = {} /\ reply = [t \in Topics |-> "wait"]
  /\ rounds = <<>> /\ typed = None

\* Ctrl+C; while a question is asked the terminal is raw and there is no signal
Sigint == /\ mpc \notin {"idle", "ask", "done"} /\ cancel' = TRUE
          /\ UNCHANGED <<print, mpc, thinkVars, reviewVars, workVars, agentVars>>
\* A call that is answered comes back with the answer only while nobody has canceled
RpcOk == ~cancel

-----------------------------------------------------------------------------
(* cli_think_process_remote *)

MainOnly == UNCHANGED <<print, cancel, workVars, agentVars>>
Think == MainOnly /\ UNCHANGED reviewVars

\* The pipeline begins; its entry clears the flag
Start ==
  /\ mpc = "idle" /\ mpc' = "think1" /\ cancel' = FALSE
  /\ rounds' = <<{}>>
  /\ UNCHANGED <<print, questions, answers, outcome, typed, reviewVars, workVars, agentVars>>

End(o) == mpc' = "done" /\ outcome' = o
Fails(pc, o) == mpc = pc /\ End(o) /\ Think /\ UNCHANGED <<questions, answers, rounds, typed>>

\* The call failed, or its answer is no JSON in a JSON string
ThinkFails == \E pc \in {"think1", "think2"} : Fails(pc, "callFailed")
\* A plan that does not parse
PlanFails == \E pc \in {"think1", "think2"} : RpcOk /\ Fails(pc, "badPlan")
PlanComes ==
  /\ mpc \in {"think1", "think2"} /\ RpcOk
  /\ mpc' = "absorb" /\ outcome' = "plan"
  /\ Think /\ UNCHANGED <<questions, answers, rounds, typed>>

\* think_d wants to know more; questions that are no list end the planning
Unclear(n) ==
  /\ mpc = "think1" /\ RpcOk
  /\ mpc' = "ask" /\ questions' = n
  /\ Think /\ UNCHANGED <<answers, outcome, rounds, typed>>
QuestionsBad == RpcOk /\ Fails("think1", "badQuestions")
\* and may want that only once (mutant: the user is asked again)
AskedAgain   == /\ mpc = "think2" /\ RpcOk /\ mpc' = "ask"
                /\ Think /\ UNCHANGED <<questions, answers, outcome, rounds, typed>>
StillUnclear == RpcOk /\ Fails("think2", "stillUnclear")

\* cli_gccp_interact: the question that is next, an answer to it, an empty line
\* or the end of the input (what has been given is sent), or a word to stop
\* (nothing of it is)
Question == Cardinality(answers) + 1
ToAsk    == IF print \/ Question > questions THEN {} ELSE {Question}
Answer ==
  /\ mpc = "ask" /\ ToAsk # {}
  /\ answers' = answers \cup ToAsk /\ typed' = [typed EXCEPT !.given = @ \cup ToAsk]
  /\ Think /\ UNCHANGED <<mpc, questions, outcome, rounds>>
\* (mutant: what was answered before the word is sent)
KeptAtQuit == answers
GivenUp    == {}
SendAnswers(as) ==
  /\ mpc' = "think2" /\ rounds' = Append(rounds, as) /\ answers' = {}
  /\ Think /\ UNCHANGED <<questions, outcome>>
NoMore == mpc = "ask" /\ SendAnswers(answers) /\ UNCHANGED typed
Quit   == /\ mpc = "ask" /\ ToAsk # {} /\ SendAnswers(GivenUp)
          /\ typed' = [typed EXCEPT !.quit = TRUE]

\* sched.absorb of the plan; its failure changes nothing
AbsorbReturn == mpc = "absorb" /\ mpc' = "health" /\ MainOnly /\ UNCHANGED <<thinkVars, reviewVars>>

-----------------------------------------------------------------------------
(* cli_cognition_review, main thread *)

ReviewOnly == UNCHANGED <<print, cancel, thinkVars, agentVars>>

\* Switched off by AIRY_COGNITION_REVIEW=0
ReviewOff == /\ mpc = "health" /\ mpc' = "done"
             /\ ReviewOnly /\ UNCHANGED <<reviewVars, workVars>>
\* agent.health_check; its failure is shown for the review as a whole
HealthReturn(ok) ==
  /\ mpc = "health" /\ (ok => RpcOk)
  /\ mpc' = (IF ok THEN "alloc" ELSE "done") /\ shown' = (IF ok THEN {} ELSE Topics)
  /\ ReviewOnly /\ UNCHANGED <<dispatched, freed, report, noMemory, workVars>>
Alloc(ok) ==
  /\ mpc = "alloc" /\ mpc' = (IF ok THEN "dispatch" ELSE "done")
  /\ freed' = ~ok /\ noMemory' = ~ok
  /\ ReviewOnly /\ UNCHANGED <<dispatched, report, shown, workVars>>

\* review_dispatch, in any order of the topics: a thread; without one its status stays
\* "ok", without memory for its prompt it is told so
Dispatch(t, how) ==
  /\ mpc = "dispatch" /\ t \notin dispatched /\ dispatched' = dispatched \cup {t}
  /\ mpc' = IF dispatched' = Topics THEN "join" ELSE "dispatch"
  /\ wpc' = [wpc EXCEPT ![t] = IF how = "thread" THEN "spawn" ELSE "none"]
  /\ status' = [status EXCEPT ![t] = IF how = "noPrompt" THEN "memory" ELSE "ok"]
  /\ IF how = "thread" THEN net' = net \cup {[m |-> "spawn", t |-> t]} ELSE UNCHANGED net
  /\ UNCHANGED <<print, cancel, thinkVars, freed, report, shown, noMemory, output, agents, reply>>

\* review_join (mutants: one worker is waited for, a topic without a thread too)
FirstDone == \E t \in Topics : wpc[t] \in {"none", "done"}
NoneLeft  == \A t \in Topics : wpc[t] = "done"
AllDone   == \A t \in Topics : wpc[t] \in {"none", "done"}
Join ==
  /\ mpc = "join" /\ AllDone /\ mpc' = "report"
  /\ ReviewOnly /\ UNCHANGED <<reviewVars, workVars>>

\* review_verdicts and review_report, and the records go (mutant: a worker that
\* ended well is taken to have spoken)
EndedWell(t) == status[t] = "ok"
Spoke(t)     == output[t]
Verdicts(ok) ==
  /\ mpc = "report" /\ mpc' = "done" /\ freed' = TRUE /\ noMemory' = ~ok
  /\ shown'  = {t \in Topics : ~Spoke(t)}
  /\ report' = IF ok THEN {t \in Topics : Spoke(t)} ELSE {}
  /\ status' = [t \in Topics |-> "ok"] /\ output' = [t \in Topics |-> FALSE]
  /\ UNCHANGED <<print, cancel, thinkVars, agentVars, dispatched, wpc>>

-----------------------------------------------------------------------------
(* cli_review_worker *)

WorkerOnly == UNCHANGED <<print, cancel, mpc, thinkVars, reviewVars, agents>>
Ends(t, st) == /\ wpc' = [wpc EXCEPT ![t] = "done"] /\ status' = [status EXCEPT ![t] = st]
               /\ reply' = [reply EXCEPT ![t] = "wait"]

\* Refused, timed out or canceled
SpawnFails(t) == wpc[t] = "spawn" /\ Ends(t, "spawn") /\ WorkerOnly /\ UNCHANGED <<output, net>>
SpawnReturns(t, memory) ==
  /\ wpc[t] = "spawn" /\ RpcOk /\ reply[t] \in {"id", "noId"} /\ WorkerOnly /\ UNCHANGED output
  /\ IF reply[t] = "id" /\ memory
     THEN /\ wpc' = [wpc EXCEPT ![t] = "invoke"] /\ net' = net \cup {[m |-> "invoke", t |-> t]}
          /\ reply' = [reply EXCEPT ![t] = "wait"] /\ UNCHANGED status
     ELSE Ends(t, IF reply[t] = "id" THEN "memory" ELSE "noAgent") /\ UNCHANGED net
InvokeFails(t) == wpc[t] = "invoke" /\ Ends(t, "invoke") /\ WorkerOnly /\ UNCHANGED <<output, net>>
\* A verdict, an empty string (an error, but output all the same), no verdict
InvokeReturns(t) ==
  /\ wpc[t] = "invoke" /\ RpcOk /\ reply[t] \in {"text", "blank", "empty"} /\ WorkerOnly /\ UNCHANGED net
  /\ Ends(t, IF reply[t] = "text" THEN "ok" ELSE "empty")
  /\ output' = [output EXCEPT ![t] = reply[t] \in {"text", "blank"}]

\* agent_d: what it is asked, whether anybody still waits or not
Serve(r) ==
  /\ r \in net /\ net' = net \ {r}
  /\ \E a \in IF r.m = "spawn" THEN {"none", "idle"} ELSE {"spoke", "blank", "mute"} :
       /\ agents' = [agents EXCEPT ![r.t] = a]
       /\ reply' = IF wpc[r.t] # r.m THEN reply
                   ELSE [reply EXCEPT ![r.t] = CASE a = "none" -> "noId" [] a = "idle" -> "id"
                                                 [] a = "spoke" -> "text" [] a = "blank" -> "blank"
                                                 [] a = "mute" -> "empty"]
  /\ UNCHANGED <<print, cancel, mpc, thinkVars, reviewVars, workVars>>

-----------------------------------------------------------------------------
Planning == \/ ThinkFails \/ PlanFails \/ PlanComes \/ QuestionsBad \/ StillUnclear
            \/ \E n \in 0..MaxQuestions : Unclear(n)
            \/ AbsorbReturn
Asking   == Answer \/ NoMore \/ Quit
Reviewing == \/ ReviewOff \/ Join
             \/ \E ok \in BOOLEAN : HealthReturn(ok) \/ Alloc(ok) \/ Verdicts(ok)
             \/ \E t \in Topics, how \in {"thread", "noThread", "noPrompt"} : Dispatch(t, how)
Worker(t) == \/ SpawnFails(t) \/ InvokeFails(t) \/ InvokeReturns(t)
             \/ \E m \in BOOLEAN : SpawnReturns(t, m)
Next == \/ Start \/ Sigint \/ Planning \/ Asking \/ Reviewing
        \/ \E t \in Topics : Worker(t)
        \/ \E r \in net : Serve(r)

\* Threads run and every gateway call returns (GwCall!CallEnds); the user may
\* leave a question unanswered for ever
Fairness == WF_vars(Planning) /\ WF_vars(Reviewing) /\ \A t \in Topics : WF_vars(Worker(t))
Spec == Init /\ [][Next]_vars /\ Fairness

-----------------------------------------------------------------------------
(* Properties *)

\* The second think.process carries the lines that were typed for the
\* questions of the first, all that were given before the user skipped one,
\* and none of them after a word to stop (cli_gccp_interact)
AnswersAreTheUsers ==
  Len(rounds) = 2 => rounds[2] = IF typed.quit THEN {} ELSE typed.given

\* The records of the workers are on the heap of a call that may end early:
\* none is given back while a thread still writes to it (review_join,
\* review_free)
WorkersInsideReview == (\E t \in Topics : wpc[t] \in {"spawn", "invoke"}) => ~freed

\* The report holds what agents answered, in whatever order they came, and
\* nothing of a topic whose agent never did: without a thread, without a
\* prompt, refused, canceled, or answered after its worker had left. Every
\* other topic of a review is shown as failed (review_verdicts), unless there
\* is no memory for the report.
ReportIsReal ==
  /\ \A t \in report : agents[t] \in {"spoke", "blank"}
  /\ mpc = "done" /\ dispatched = Topics /\ ~noMemory => report = Topics \ shown

\* Documented by cli_review.c:19-21 (no failure is silent: the main thread
\* renders every failure explicitly after joining): a topic whose worker ended
\* with an error is shown as failed.
NoFailureIsSilent ==
  [][\A ok \in BOOLEAN : Verdicts(ok) => \A t \in Topics : status[t] # "ok" => t \in shown']_vars

\* Planning ends, or waits for the user's answer to a question: the review
\* never blocks the turn, whatever becomes of its agents (cli_review.h)
PlanningEnds == mpc \notin {"idle", "ask"} ~> mpc \in {"ask", "done"}
=============================================================================
