------------------------------ MODULE TaskTurn ------------------------------
(* The turns of airy_cli: the main loop of core/main.c, the task pipeline    *)
(* of core/airy_cli_taskflow.c and the wait worker of core/airy_cli_exec.c   *)
(* and core/cli_dag.c, sharing one cancel flag (g_cli_cancel) with the       *)
(* SIGINT handler and with the chat line a user may type during a task.      *)
(* sched_d is external: a table of DAGs that serves the requests put on the  *)
(* wire, also those whose caller has stopped waiting for the answer. Locals  *)
(* that die with a call go back to their initial value.                      *)
EXTENDS Naturals

CONSTANTS MaxTurns,    \* bound: turns per run of the CLI
          BoardPolls,  \* the 300 polls after which the board gives up
          StaleMax,    \* the 10 polls without a change after which it does
          WaitPolls,   \* CLI_DAG_WAIT_MAX_POLLS
          PrintMode    \* TRUE for -p/--json, where stdin is never polled

ASSUME TurnAssumption ==
  /\ MaxTurns \in Nat /\ PrintMode \in BOOLEAN
  /\ BoardPolls \in Nat \ {0} /\ StaleMax \in Nat \ {0} /\ WaitPolls \in Nat \ {0}

VARIABLES cancel,      \* g_cli_cancel
          stdin,       \* the line typed and not read yet
          turn,        \* the number of the current (or last) turn
          mpc, ret,    \* where the main thread is; where an interjected chat returns to
          polls, stale,\* tp_board_t
          wpc, wpolls, \* where the wait worker is; its poll count
          wres,        \* cli_task_wait_ctx_t: err and result
          net,         \* requests on their way to sched_d
          reply,       \* per thread: the answer that has arrived for its request
          dag,         \* sched_d: the DAG of each turn
          absorbed,    \* sched_d: the fact learned about each turn's DAG
          verdict,     \* what the turn told the user
          failed       \* main(): the exit status of -p
VARIABLES asked,       \* history: turns in which the user asked to stop
          cancelSent   \* history: turns for which sched.dag_cancel was sent

loopVars  == <<turn, verdict, failed>>
inVars    == <<stdin, ret>>
boardVars == <<polls, stale>>
waitVars  == <<wpc, wpolls, wres>>
netVars   == <<net, reply>>
schedVars == <<dag, absorbed>>
histVars  == <<asked, cancelSent>>
vars == <<cancel, mpc, loopVars, inVars, boardVars, waitVars, netVars, schedVars, histVars>>

Turns    == 1..MaxTurns
Terminal == {"completed", "failed", "canceled"}  \* "failed" also stands for semantic_failed
DagState == {"none", "running"} \cup Terminal
Threads  == {"main", "worker"}
Methods  == {"submit", "status", "cancel", "absorbGood", "absorbBad"}
Request  == [m : Methods, t : Turns, by : Threads]

Idle     == {"repl", "cmd", "exit"}
Head     == {"lang", "fast", "route", "chat"}
Planning == {"plan", "ask", "replan", "absorbPlan", "review"}
Pipeline == Planning \cup {"submit", "board", "boardSleep", "boardRx", "spawn", "wait",
                         "chatEnter", "chatIn", "join", "report", "regive", "absorbRx"}
WorkerPc == {"top", "statusRx", "cancelRx", "sleep", "done"}
Verdict  == {"none", "replayed", "answered", "chatFail", "planFail", "submitFail",
             "aborted", "success", "bad", "noResult"}
WaitResult == {"none", "errGeneric", "errCanceled", "errTimeout", "errState"} \cup Terminal
InTurn == mpc \notin Idle

TypeOK ==
  /\ cancel \in BOOLEAN /\ failed \in BOOLEAN
  /\ stdin \in {"none", "stop", "chat"}
  /\ turn \in 0..MaxTurns
  /\ mpc \in Idle \cup Head \cup Pipeline /\ ret \in {"boardSleep", "wait"}
  /\ polls \in 0..BoardPolls /\ stale \in 0..StaleMax
  /\ wpc \in WorkerPc /\ wpolls \in 0..WaitPolls /\ wres \in WaitResult
  /\ net \subseteq Request
  /\ reply \in [Threads -> {"ok"} \cup DagState \cup {"wait"}]
  /\ dag \in [Turns -> DagState] /\ absorbed \in [Turns -> {"none", "good", "bad"}]
  /\ verdict \in [Turns -> Verdict]
  /\ asked \subseteq Turns /\ cancelSent \subseteq Turns

Init ==
  /\ cancel = FALSE /\ failed = FALSE /\ stdin = "none" /\ turn = 0
  /\ mpc = "repl" /\ ret = "wait" /\ polls = 0 /\ stale = 0
  /\ wpc = "done" /\ wpolls = 0 /\ wres = "none"
  /\ net = {} /\ reply = [th \in Threads |-> "wait"]
  /\ dag = [t \in Turns |-> "none"] /\ absorbed = [t \in Turns |-> "none"]
  /\ verdict = [t \in Turns |-> "none"]
  /\ asked = {} /\ cancelSent = {}

-----------------------------------------------------------------------------
(* The user *)

\* Ctrl+C: the handler only sets the flag
Sigint ==
  /\ mpc # "exit"
  /\ cancel' = TRUE
  /\ asked' = IF InTurn THEN asked \cup {turn} ELSE asked
  /\ UNCHANGED <<mpc, loopVars, inVars, boardVars, waitVars, netVars, schedVars, cancelSent>>

\* A line typed while the turn runs waits in stdin until it is polled
TypeLine(line) ==
  /\ ~PrintMode /\ InTurn /\ stdin = "none"
  /\ stdin' = line
  /\ UNCHANGED <<cancel, mpc, ret, loopVars, boardVars, waitVars, netVars, schedVars, histVars>>

-----------------------------------------------------------------------------
(* Gateway calls *)

\* The receive loop looks at the flag before it looks at the answer
RpcOk == ~cancel

\* reply "wait": no answer yet
Send(m, th) ==
  /\ net' = net \cup {[m |-> m, t |-> turn, by |-> th]}
  /\ reply' = [reply EXCEPT ![th] = "wait"]

\* The call returns; a status request nobody waits for any more does nothing
Settle(th) ==
  /\ net' = net \ [m : {"status"}, t : Turns, by : {th}]
  /\ reply' = [reply EXCEPT ![th] = "wait"]

-----------------------------------------------------------------------------
(* The main loop: prompt, commands and the head of a turn *)

MainOnly == UNCHANGED <<boardVars, waitVars, schedVars, histVars>>

ReadLine(pc) ==
  /\ mpc = "repl"
  /\ (pc = "lang" => turn < MaxTurns)
  /\ turn' = IF pc = "lang" THEN turn + 1 ELSE turn
  /\ mpc' = pc /\ stdin' = "none"
  /\ MainOnly /\ UNCHANGED <<cancel, ret, verdict, failed, netVars>>

CommandReturn ==
  /\ mpc = "cmd" /\ mpc' = "repl"
  /\ MainOnly /\ UNCHANGED <<cancel, loopVars, inVars, netVars>>

\* The turn is over: back to the prompt with what the user was told
EndTurn(v) ==
  /\ mpc' = "repl"
  /\ verdict' = [verdict EXCEPT ![turn] = v]

\* cli_lang_gw: a failed think.lang_process changes nothing
LangReturn ==
  /\ mpc = "lang" /\ mpc' = "fast"
  /\ MainOnly /\ UNCHANGED <<cancel, loopVars, inVars, netVars>>

\* sched.plan: a hit (l1, l2) closes the turn, anything else is a miss (l3)
FastReturn(hit) ==
  /\ mpc = "fast" /\ (hit => RpcOk)
  /\ IF hit THEN EndTurn("replayed") ELSE mpc' = "route" /\ UNCHANGED verdict
  /\ MainOnly /\ UNCHANGED <<cancel, turn, failed, inVars, netVars>>

\* The entries of cli_chat_reply and cli_run_task_pipeline both clear the flag
\* (mutant: they do not)
FlagKept  == UNCHANGED cancel
ClearFlag == cancel' = FALSE

Route(pc) ==
  /\ mpc = "route"
  /\ ClearFlag /\ mpc' = pc
  /\ MainOnly /\ UNCHANGED <<loopVars, inVars, netVars>>

ChatReturn(ok) ==
  /\ mpc = "chat" /\ (ok => RpcOk)
  /\ EndTurn(IF ok THEN "answered" ELSE "chatFail")
  /\ failed' = (failed \/ ~ok)
  /\ MainOnly /\ UNCHANGED <<cancel, turn, inVars, netVars>>

-----------------------------------------------------------------------------
(* The task pipeline *)

\* think_d wants to know more: the user is asked, but not under -p
PlanAsk ==
  /\ mpc = "plan" /\ RpcOk /\ ~PrintMode
  /\ mpc' = "ask"
  /\ MainOnly /\ UNCHANGED <<cancel, loopVars, inVars, netVars>>

\* The questions take the lines of the terminal, also one typed before them;
\* then the request is sent once more
AnswerQuestion ==
  /\ mpc = "ask" /\ mpc' = "replan" /\ stdin' = "none"
  /\ MainOnly /\ UNCHANGED <<cancel, loopVars, ret, netVars>>

\* The plan, or none; what needs no user (a failed call, a second wish to
\* ask, no questions under -p) is a part of this step
PlanReturn(ok) ==
  /\ mpc \in {"plan", "replan"} /\ (ok => RpcOk)
  /\ IF ok THEN mpc' = "absorbPlan" /\ UNCHANGED verdict ELSE EndTurn("planFail")
  /\ failed' = (failed \/ ~ok)
  /\ MainOnly /\ UNCHANGED <<cancel, turn, inVars, netVars>>

AbsorbPlanReturn ==
  /\ mpc = "absorbPlan" /\ mpc' = "review"
  /\ MainOnly /\ UNCHANGED <<cancel, loopVars, inVars, netVars>>

\* The review never blocks the turn; then sched.dag_submit goes out
ReviewReturn ==
  /\ mpc = "review" /\ mpc' = "submit"
  /\ Send("submit", "main")
  /\ MainOnly /\ UNCHANGED <<cancel, loopVars, inVars>>

\* Only an answer that names the DAG is a success (mutant: any return is)
AnyAnswer  == TRUE
DagIdGiven == reply["main"] = "ok"

SubmitReturn(ok) ==
  /\ mpc = "submit" /\ (ok => RpcOk /\ DagIdGiven)
  /\ IF ok THEN mpc' = "board" /\ UNCHANGED verdict ELSE EndTurn("submitFail")
  /\ failed' = (failed \/ ~ok)
  /\ Settle("main")
  /\ MainOnly /\ UNCHANGED <<cancel, turn, inVars>>

\* cli_task_poll_input with a line to read: a stop word sets the flag, any
\* other line is a chat
PollLine(stopPc, chatRet) ==
  /\ stdin' = "none"
  /\ \/ /\ stdin = "stop"
        /\ cancel' = TRUE /\ asked' = asked \cup {turn} /\ mpc' = stopPc
        /\ UNCHANGED ret
     \/ /\ stdin = "chat"
        /\ mpc' = "chatEnter" /\ ret' = chatRet
        /\ UNCHANGED <<cancel, asked>>

BoardQuiet ==
  /\ mpc = "board" /\ stdin = "none"
  /\ mpc' = "boardSleep"
  /\ MainOnly /\ UNCHANGED <<cancel, loopVars, inVars, netVars>>

BoardLine ==
  /\ mpc = "board"
  /\ PollLine("spawn", "boardSleep")
  /\ UNCHANGED <<loopVars, boardVars, waitVars, netVars, schedVars, cancelSent>>

\* After the 200ms sleep: leave on cancel, otherwise ask for the snapshot
BoardCheck ==
  /\ mpc = "boardSleep"
  /\ IF cancel THEN mpc' = "spawn" /\ UNCHANGED netVars
               ELSE mpc' = "boardRx" /\ Send("status", "main")
  /\ MainOnly /\ UNCHANGED <<cancel, loopVars, inVars>>

\* Polling stops after BoardPolls, or StaleMax without a change (mutant: the
\* comparison is > instead of >=)
BoardOver(p, s) == p > BoardPolls \/ s > StaleMax
BoardDone(p, s) == p >= BoardPolls \/ s >= StaleMax

\* A snapshot: stop at a terminal state or when a limit is reached. "changed"
\* abstracts the comparison with the last state and progress printed, and the
\* first snapshot always differs from the empty state.
BoardSnapshot(changed) ==
  /\ mpc = "boardRx" /\ RpcOk /\ reply["main"] # "wait"
  /\ IF reply["main"] \in Terminal
     THEN mpc' = "spawn" /\ UNCHANGED boardVars
     ELSE /\ polls = 0 => changed
          /\ stale' = IF changed THEN 0 ELSE stale + 1
          /\ polls' = polls + 1
          /\ mpc' = IF BoardDone(polls', stale') THEN "spawn" ELSE "board"
  /\ Settle("main")
  /\ UNCHANGED <<cancel, loopVars, inVars, waitVars, schedVars, histVars>>

\* "Status query failed": canceled, timed out or refused
BoardFail ==
  /\ mpc = "boardRx" /\ mpc' = "spawn"
  /\ Settle("main")
  /\ MainOnly /\ UNCHANGED <<cancel, loopVars, inVars>>

\* Without a thread the wait runs synchronously: the main thread only joins
Spawn(threaded) ==
  /\ mpc = "spawn"
  /\ polls' = 0 /\ stale' = 0 /\ wpc' = "top"
  /\ mpc' = IF threaded THEN "wait" ELSE "join"
  /\ UNCHANGED <<cancel, loopVars, inVars, wpolls, wres, netVars, schedVars, histVars>>

WaitLeave ==
  /\ mpc = "wait" /\ (wpc = "done" \/ cancel)
  /\ mpc' = "join"
  /\ MainOnly /\ UNCHANGED <<cancel, loopVars, inVars, netVars>>

WaitLine ==
  /\ mpc = "wait" /\ wpc # "done" /\ ~cancel
  /\ PollLine("join", "wait")
  /\ UNCHANGED <<loopVars, boardVars, waitVars, netVars, schedVars, cancelSent>>

\* The interjected line: cli_chat_reply clears the flag, then waits for llm_d
ChatEnter ==
  /\ mpc = "chatEnter" /\ mpc' = "chatIn"
  /\ ClearFlag
  /\ MainOnly /\ UNCHANGED <<loopVars, inVars, netVars>>

ChatLeave ==
  /\ mpc = "chatIn" /\ mpc' = ret /\ ret' = "wait"
  /\ MainOnly /\ UNCHANGED <<cancel, loopVars, stdin, netVars>>

\* The worker's context lives on this thread's stack: it is always joined
\* (mutant: only when it is already done)
NoJoin == TRUE
Joined == wpc = "done"

Join ==
  /\ mpc = "join" /\ Joined
  /\ mpc' = "report"
  /\ MainOnly /\ UNCHANGED <<cancel, loopVars, inVars, netVars>>

\* task_ok_probe on the aggregate, whose status is the state of the DAG
\* (mutant: any result will do)
AnyResult(res) == res \in Terminal
TaskOk(res)    == res = "completed"

\* cli_task_result_render, with the flag read once
Report ==
  /\ mpc = "report" /\ mpc' = "regive"
  /\ verdict' = [verdict EXCEPT ![turn] =
       IF cancel THEN "aborted"
       ELSE IF TaskOk(wres) THEN "success"
       ELSE IF wres \in Terminal THEN "bad" ELSE "noResult"]
  /\ MainOnly /\ UNCHANGED <<cancel, turn, failed, inVars, netVars>>

\* The flag is read again before the result is given back to sched_d
\* (mutant: it is not)
AnyRegiven == wres \in Terminal
Regivable  == ~cancel /\ wres \in Terminal

Regive ==
  /\ mpc = "regive" /\ wres' = "none"
  /\ IF Regivable
     THEN mpc' = "absorbRx" /\ Send(IF TaskOk(wres) THEN "absorbGood" ELSE "absorbBad", "main")
     ELSE mpc' = "repl" /\ UNCHANGED netVars
  /\ UNCHANGED <<cancel, loopVars, inVars, boardVars, wpc, wpolls, schedVars, histVars>>

AbsorbReturn ==
  /\ mpc = "absorbRx" /\ mpc' = "repl"
  /\ Settle("main")
  /\ MainOnly /\ UNCHANGED <<cancel, loopVars, inVars>>

-----------------------------------------------------------------------------
(* The wait worker: cli_dag_wait_remote *)

WorkerOnly == UNCHANGED <<cancel, mpc, loopVars, inVars, boardVars, schedVars, asked>>

WorkerEnd(res) == wpc' = "done" /\ wres' = res /\ wpolls' = 0

\* Ctrl+C propagates: tested before each poll (mutant: not tested)
CancelIgnored == FALSE
CancelSeen    == cancel

WorkerTop ==
  /\ wpc = "top" /\ WorkerOnly
  /\ IF wpolls >= WaitPolls
     THEN WorkerEnd("errTimeout") /\ UNCHANGED <<netVars, cancelSent>>
     ELSE IF CancelSeen
     THEN /\ wpc' = "cancelRx" /\ Send("cancel", "worker")
          /\ cancelSent' = cancelSent \cup {turn} /\ UNCHANGED <<wpolls, wres>>
     ELSE /\ wpc' = "statusRx" /\ Send("status", "worker")
          /\ UNCHANGED <<wpolls, wres, cancelSent>>

\* Whatever becomes of sched.dag_cancel, the wait ends as canceled
WorkerCancelReturn ==
  /\ wpc = "cancelRx" /\ WorkerOnly
  /\ WorkerEnd("errCanceled") /\ Settle("worker")
  /\ UNCHANGED cancelSent

\* packed: the terminal snapshot could be rendered as a result
WorkerSnapshot(packed) ==
  /\ wpc = "statusRx" /\ RpcOk /\ reply["worker"] # "wait" /\ WorkerOnly
  /\ IF reply["worker"] \in Terminal
     THEN WorkerEnd(IF packed THEN reply["worker"] ELSE "errState")
     ELSE wpc' = "sleep" /\ UNCHANGED <<wpolls, wres>>
  /\ Settle("worker")
  /\ UNCHANGED cancelSent

\* No snapshot (canceled, timed out, refused): AIRY_ERR_GENERIC_FAIL
WorkerFail ==
  /\ wpc = "statusRx" /\ WorkerOnly
  /\ WorkerEnd("errGeneric") /\ Settle("worker")
  /\ UNCHANGED cancelSent

\* The for loop counts its polls (mutant: it does not)
NoCount   == UNCHANGED wpolls
CountPoll == wpolls' = wpolls + 1

WorkerWake ==
  /\ wpc = "sleep" /\ wpc' = "top" /\ WorkerOnly
  /\ CountPoll
  /\ UNCHANGED <<wres, netVars, cancelSent>>

-----------------------------------------------------------------------------
(* sched_d *)

\* The thread that still waits for the answer to this request
Awaits(r) ==
  /\ r.t = turn /\ reply[r.by] = "wait"
  /\ IF r.by = "worker" THEN \/ wpc = "statusRx" /\ r.m = "status"
                             \/ wpc = "cancelRx" /\ r.m = "cancel"
     ELSE \/ mpc = "submit"   /\ r.m = "submit"
          \/ mpc = "boardRx"  /\ r.m = "status"
          \/ mpc = "absorbRx" /\ r.m \in {"absorbGood", "absorbBad"}

Serve(r) ==
  /\ r \in net /\ net' = net \ {r}
  /\ dag' = [dag EXCEPT ![r.t] = IF r.m = "submit" THEN "running"
                                 ELSE IF r.m = "cancel" /\ @ = "running" THEN "canceled" ELSE @]
  /\ absorbed' = [absorbed EXCEPT ![r.t] = IF r.m = "absorbGood" THEN "good"
                                           ELSE IF r.m = "absorbBad" THEN "bad" ELSE @]
  /\ reply' = IF ~Awaits(r) THEN reply
              ELSE [reply EXCEPT ![r.by] = IF r.m = "status" THEN dag[r.t] ELSE "ok"]
  /\ UNCHANGED <<cancel, mpc, loopVars, inVars, boardVars, waitVars, histVars>>

Lose(r) ==
  /\ r \in net /\ net' = net \ {r}
  /\ UNCHANGED <<cancel, mpc, loopVars, inVars, boardVars, waitVars, reply, schedVars, histVars>>

DagEnds(t, s) ==
  /\ dag[t] = "running"
  /\ dag' = [dag EXCEPT ![t] = s]
  /\ UNCHANGED <<cancel, mpc, loopVars, inVars, boardVars, waitVars, netVars, absorbed, histVars>>

-----------------------------------------------------------------------------
User == \/ Sigint
        \/ \E line \in {"stop", "chat"} : TypeLine(line)
        \/ \E pc \in {"cmd", "lang", "exit"} : ReadLine(pc)
        \/ AnswerQuestion

MainHead == \/ CommandReturn \/ LangReturn
            \/ \E pc \in {"chat", "plan"} : Route(pc)
            \/ \E b \in BOOLEAN : FastReturn(b) \/ ChatReturn(b)

MainTask ==
  \/ PlanAsk \/ AbsorbPlanReturn \/ ReviewReturn
  \/ BoardQuiet \/ BoardLine \/ BoardCheck \/ BoardFail
  \/ WaitLeave \/ WaitLine \/ ChatEnter \/ ChatLeave
  \/ Join \/ Report \/ Regive \/ AbsorbReturn
  \/ \E b \in BOOLEAN : PlanReturn(b) \/ SubmitReturn(b) \/ BoardSnapshot(b) \/ Spawn(b)

Main == MainHead \/ MainTask

Worker == \/ WorkerTop \/ WorkerCancelReturn \/ WorkerFail \/ WorkerWake
          \/ \E b \in BOOLEAN : WorkerSnapshot(b)

Sched == \/ \E r \in net : Serve(r) \/ Lose(r)
         \/ \E t \in Turns, s \in {"completed", "failed"} : DagEnds(t, s)

Next == User \/ Main \/ Worker \/ Sched

Spec == Init /\ [][Next]_vars
\* Both threads are scheduled and every gateway call returns (GwCall!CallEnds);
\* nothing is assumed of the user, who may leave a question unanswered, of the
\* network or of sched_d
FairSpec == Spec /\ WF_vars(Main) /\ WF_vars(Worker)

-----------------------------------------------------------------------------
(* Properties *)

\* Nothing acts on a Ctrl+C of another turn: a chat or a task finds the flag
\* set only if the user asked to stop in its turn, and only then is
\* sched.dag_cancel sent or the turn reported as aborted. (g_cli_cancel is
\* global and stays set after the turn it was meant for.)
FlagIsOurs  == mpc \in Pipeline \cup {"chat"} /\ cancel => turn \in asked
StopIsAsked ==
  \A t \in Turns : t \in cancelSent \/ verdict[t] = "aborted" => t \in asked
CancelOnlyWhenAsked == FlagIsOurs /\ StopIsAsked

\* A result shown as a success or a failure is what sched_d's DAG ended as,
\* through snapshots that may be old, a worker that may be ahead of the
\* main thread and a flag that may change at any point.
VerdictIsReal ==
  \A t \in Turns : /\ verdict[t] = "success" => dag[t] = "completed"
                   /\ verdict[t] = "bad" => dag[t] \in Terminal \ {"completed"}

\* What sched_d learns from sched.absorb, however late it arrives, is the
\* truth about the DAG and what the user was told: an aborted turn, or one
\* without a result, teaches nothing.
AbsorbIsReal ==
  \A t \in Turns :
    /\ absorbed[t] = "good" => dag[t] = "completed" /\ verdict[t] = "success"
    /\ absorbed[t] = "bad"  => dag[t] \in Terminal \ {"completed"} /\ verdict[t] = "bad"

\* The wait worker writes into a context on the stack of tp_wait: it never
\* runs when the main thread is out of tp_wait.
WorkerInsideWait ==
  wpc # "done" => \/ mpc \in {"wait", "join"}
                  \/ mpc \in {"chatEnter", "chatIn"} /\ ret = "wait"

\* A stop request that is pending when the board is left reaches sched_d:
\* the worker sends sched.dag_cancel before anything else.
StopReachesSched ==
  \A t \in Turns : (turn = t /\ mpc = "spawn" /\ cancel) ~> (t \in cancelSent)

\* Every turn ends or waits for the user at a question of the planning, whatever
\* the user types, the network loses and however long the DAG runs: polls, RPC
\* budgets and the join are all bounded. Once the questions are answered no
\* other comes, and the turn ends.
TurnEnds == /\ InTurn ~> (~InTurn \/ mpc = "ask")
            /\ mpc = "replan" ~> ~InTurn

\* The turns, threads and messages of this module implement the lifecycle of
\* TaskLifecycle: one verdict per turn, at most one DAG per turn, verdicts
\* and learned facts that agree with how the DAG ended.
Phase == IF mpc \in Idle THEN "idle"
         ELSE IF mpc \in Head \cup Planning \cup {"submit"} THEN "open"
         ELSE IF mpc \in {"regive", "absorbRx"} THEN "closing" ELSE "executing"
Life     == INSTANCE TaskLifecycle WITH cur <- turn, phase <- Phase
LifeSpec == Life!Spec

\* Documented by cli_dag.c:448 ("Ctrl+C propagates: really calls
\* sched.dag_cancel"): a flag set while the worker waits leads to a
\* dag_cancel unless the DAG has ended.
CtrlCPropagates ==
  \A t \in Turns : (turn = t /\ cancel /\ wpc = "statusRx")
                     ~> (t \in cancelSent \/ dag[t] \in Terminal)

\* Documented by main.c:57-59 ("Reset to 0 before each new task", the task
\* "then aborts"): between the entry of the pipeline and its report the flag
\* is not cleared.
FlagKeptDuringTask ==
  [][(cancel /\ mpc \in Pipeline) => cancel']_vars

\* Documented by cli_chat.c:383-384 ("SIGINT only cancels the wait of the
\* current turn and does not pollute the next"): while a
\* turn waits for a call, the flag is set only if the user asked in that turn.
NoSpill == (mpc \in {"lang", "fast"} /\ cancel) => turn \in asked

\* Documented by main.c:298 and main.c:489 ("1 = this turn got no usable
\* result, which decides the exit status of -p"; "a failed turn must reach
\* the exit status").
FailureReachesExit ==
  mpc = "exit" =>
    \A t \in Turns : verdict[t] \in {"planFail", "submitFail", "chatFail", "bad", "noResult"}
                       => failed
=============================================================================
