# Verification of AgentRT: the command line and the updater

This directory holds TLA+ models of the programs whose source is in this
repository: `airy_cli` (C, `tools/airy_cli/`), the interactive front end of the
runtime, and `latest/airymaxrt` (shell), the launcher that installs and updates
it. The daemons (`sched_d`, `mem_d`, `agent_d`, `llm_d`, `gateway_d`) and the
kernel are submodules with empty directories here. They appear in the models as
external processes that may answer, fail, hang, come back or lose a message, as
far as the code of this repository has to live with it.

`tlc -config X.cfg M` checks a run, `tlapm M.tla` the proofs of a
module whose name ends in `Proofs`. Paths below are relative to `src/`; `cli/`
stands for `tools/airy_cli/src/`.

## 1. Inventory

| Component | State | Operations | Talks to |
|---|---|---|---|
| Main loop and commands: `cli/core/main.c`, `airy_cli_cmdline.c`, `cli/cmd/cli_cmds.c`, `airy_cli_frontend.c` | mode (argument, stream, terminal), exit status, the wish to change over to the full-screen view | read a line, find the command it means, run it, or a turn; `/quit`, `/tui` | the line editor; gateway calls; the turn; the other front end |
| Turn and task pipeline: `cli/core/main.c`, `airy_cli_pipeline.c`, `airy_cli_taskflow.c`, `airy_cli_exec.c`, `cli_dag.c` | `g_cli_cancel`, the turn's verdict, exit status, board counters, the wait worker's context on the main stack | read a line, language gateway, fast path, route, chat, plan, review, submit, board, wait, report, give the result back | `sched_d`, `llm_d`, `think_d` by gateway calls; the SIGINT handler; the worker thread by a shared context |
| Gateway call: `cli/cmd/cli_gw.c`, `cli_gw_rpc.c` | receive buffer, budget, renewals; `g_cli_gw_err` shared by all callers | connect, send, receive loop, take the body, triage, describe the error | every component that calls a daemon; `g_cli_cancel` |
| Self-heal: `cli/cmd/cli_daemon_lifecycle.c`, `airy_cli_cmd_system.c` | per daemon: restarts, last restart, pid; last scan | scan, probe, spawn, `/daemon start, stop, restart` | called by the main loop before each prompt; processes |
| Liveness watch: `cli/cmd/cli_live.c` | view of each service (seen, up), gateway epoch | one round per idle beat; rebuild of the session | called by the line editor; the gateway; the chat session |
| Chat session: `cli/chat/cli_chat_history.c`, `_session.c`, `_memory.c`, `_finalize.c` | history ring of at most 60 messages; the lasting copy is in `mem_d` | add, restore and rebind from `mem_d`, clear, record a turn | chat reply, liveness watch, `mem_d` |
| Chat reply and tool loop: `cli/chat/cli_chat.c`, `cli_chat_tools.c` | message buffer, round counter, tool errors | at most 8 tool rounds, a summary round | `llm_d`, `tool_d`, history |
| Token usage: `cli/chat/cli_chat_usage.c` | counters of the chat, the point at which the session begins to count | count an answer, flush, show the account under a turn | `llm_d`, the turn |
| Classification and blueprint: `cli_chat_classify.c`, `cli_classify.c`, `airy_cli_pipeline.c` | none that lasts | chat or task, the tiers of `sched.plan` | the turn |
| Thinking: `cli/core/cli_think.c`, `cli/chat/cli_chat_gccp.c` | the answers given to the questions of the first round | one or two calls of `think.process`, the questions between them | `think_d`, the user |
| Review: `cli/cmd/cli_review.c` | one job and one thread per topic | health check, dispatch, spawn and invoke an agent, join, verdicts, report | `agent_d` from several threads; shared records on the heap |
| Line editor: `cli/tui/tui_line_readline.c`, `tui_input.c`, `tui_history.c`, `tui_complete.c`, `tui_ime.c` | the line and its caret, the history and its file, the completion, the pinyin with its candidates | one per key; load and save of the history | key reading, liveness watch, a file |
| Key reading: `cli/tui/tui_keys.c` | bytes on their way, Windows records | a key out of one byte or a sequence, with limits of time | terminal |
| Release updates: `latest/airymaxrt` | `releases/*`, `.complete`, `current`, `update.intent`, `update.lock`, `install.env` | update, `--rollback`, recovery at each start | file system, other launchers |
| Launcher, installers, npm shell, code generators, build, rendering, full-screen view | configuration and output | | |

What is hard in it:

- **One flag for everything.** `g_cli_cancel` is set by the handler at any
  instant, read by every receive loop in two threads, and cleared at the entry
  of a chat or a pipeline, also of a chat that runs *inside* a pipeline.
- **Two threads on one stack frame.** `tp_wait` starts a worker which writes into
  a local context, while the main thread serves typed lines.
- **Stale and late answers.** The board and the worker each judge a snapshot; a
  request whose caller gave up may still be served; results are given back
  without waiting for them to be used.
- **Clocks read once.** The self-heal scan stamps restarts with the clock of its
  start, and each probe before may take seconds.
- **Budgets.** A round of the watch, a renewable call budget, two board limits:
  each is a place for an off-by-one or an endless wait.
- **Sequences with gaps.** A key is up to a dozen bytes with a time limit between
  them; the limit may pass within a sequence, and the terminal may hang up there.
- **State kept beside a line.** The caret, the word Tab began with, the draft, the
  candidates and the page of the pinyin are each computed from a line that other keys change.
- **Threads with records of their caller.** The review starts one thread per topic;
  any of them may have no thread, no prompt, no agent, no answer or a late one.
- **Crash recovery.** An update is a dozen renames, links and writes; the
  launcher may die between any two, also in the middle of `rm -rf`, and another
  launcher may be at work.

What makes each component correct:

- *turn*: no stop leaks into another turn; a verdict is what the DAG ended as;
  `sched_d` learns only what is true and was told; the worker never outlives its
  frame; every turn ends; a stop reaches `sched_d`; failure reaches the exit status.
- *main loop*: the exit status of a batch remembers every turn without a usable result; an argument
  is run once; what is shown under a turn belongs to this session.
- *thinking and review*: the second call carries what the user answered; no record is
  given back while its thread runs; the report is what agents said; planning ends.
- *line editor and keys*: no key tears a character; no letter is lost unasked; the
  next process recalls the same lines; the keys reported are the keys sent.
- *gateway call*: a declared length is taken whole; silence is put up with for the
  documented time; the call returns; the reason shown is its own.
- *self-heal*: bounded spawns, a backoff between them, the prompt comes back.
- *watch*: a rebuild only for a real restart; the input is given back; a round ends.
- *updates*: `current` always names a release marked complete; a pending update is
  settled; a published release is not written to; install.env agrees; there is something to roll back to; mutual exclusion.
- *chat and its session*: every request to the model is well-formed, whatever was
  interrupted; the tool rounds are bounded and the chat ends; a failed turn leaves
  nothing behind; a rebuilt session is whole and shows nothing twice; rounds are
  dropped as pairs, a rebind loses nothing, what was cleared stays cleared.

The hazards, each at its line, are in `PROJECT.json`.

## 2. Modules

| Module | Models | Notes |
|---|---|---|
| `TaskTurn` | turn and task pipeline | detailed specification |
| `TaskLifecycle` | what it promises | abstract: a turn, one DAG, one verdict, one fact |
| `TaskTurnProofs` | | theorems about `TaskTurn` |
| `GwCall` | gateway call | theorems: `GatewayProofs` |
| `SelfHeal`, `MCSelfHeal` | self-heal and `/daemon` | theorems: `SelfHealProofs` |
| `LiveWatch`, `MCLiveWatch` | liveness watch | theorems: `GatewayProofs` |
| `Chat` | chat turn, tool loop, history, session | theorems: `ChatProofs` |
| `Repl`, `MCRepl` | main loop, commands, way of a turn, account, exit status | spells out what `TaskTurn` takes in one step before the pipeline; theorems: `PromptProofs` |
| `Cognition` | thinking, GCCP questions, review | spells out the steps `plan`, `absorbPlan` and `review` of `TaskTurn`; theorems: `CognitionProofs` |
| `LineEditor`, `MCLineEditor` | line editor | its keys are those `KeyReader` reports; theorems: `LineEditorProofs` |
| `KeyReader` | key reading | theorems: `PromptProofs` |
| `UpdateTx` | release updates | detailed specification; theorems: `UpdateTxProofs` |
| `Releases` | what the updater promises | abstract: releases that become ready, a link that switches between them |

### TaskTurn

`mpc` is where the main thread is, `wpc` where the wait worker is; one action is
the code between two points at which the other thread, the handler or the network
can be seen. `Sigint` is `cli_sigint_handler`; `ReadLine`, `LangReturn`,
`FastReturn`, `Route`, `ChatReturn` are `cli_loop_step` and `cli_turn`;
`PlanReturn` ... `AbsorbReturn` are `cli_run_task_pipeline` in its order, with
`Board*` for `tp_board_loop` and `Wait*`, `Join` for `tp_wait`; `ChatEnter` and
`ChatLeave` are the chat that `cli_task_poll_input` runs for a line typed
meanwhile. `PlanAsk` and `AnswerQuestion` are the questions that `tp_plan` may ask: it waits there for
the user, as long as the user likes, and sends its request once more. `Worker*` is `cli_dag_wait_remote`. `Send`
and `Settle` are the two ends
of a gateway call, of which only what the pipeline can tell apart is kept: it
succeeded (then the flag was not set when the answer was looked at, `RpcOk`) or
it did not. Requests wait in the set `net` until `Serve` or `Lose`; `Serve` may
come long after the caller left. `asked` and `cancelSent` are history variables
that no guard reads.

Abstractions: `failed` of a DAG also stands for `semantic_failed`; "changed" of a
snapshot stands for the comparison of the last printed state and progress; the
commands of the prompt are one step; the poll limits (300, 10 and 4500 in the
code) are constants.

`TaskLifecycle` is the abstract machine: a turn opens, closes early or launches the
DAG that `sched_d` holds for it, judges it once, and only a judged result is
learned. `Life == INSTANCE TaskLifecycle WITH cur <- turn, phase <- Phase` is the
refinement; `Phase` groups the values of `mpc`.

### GwCall

One action per way in and out of `cli_gw_exchange` and `gw_rx_loop`. Time is
counted in the 100 ms slices of the loop, a response in one unit of header and
`size` of body that arrive in any pieces. `framing` is what `gw_recv_feed` can see
of it: a Content-Length, chunks, or neither. `Outcomes` is the triage of
`cli_gw_call_q`; JSON that was cut does not parse. `err` is `g_cli_gw_err`.

### SelfHeal

`pc` walks `cli_daemon_lifecycle_reconcile_once` entry by entry: `Probe` (budget,
backoff, online?), `StartProbe` (the second probe inside `cli_daemon_start`),
`Fork` or `ForkFails`. Time is kept as ages, capped where no comparison can change:
`delay` is how far the clock has run since the scan read it, so `Stamped` sets an
age of `delay` and not of 0. Daemons boot, crash, hang and recover between any two
steps. `forks`, `sinceFork` and `late` are history.

### LiveWatch

`Tick` probes the gateway (`NewEpoch`), `Probe` one service (`Outcome`, `Back`,
`Advance`, `InBudget`), `RoundOver` and `Rebuild` end the round. `broke` and
`replaced` are history: what really failed or was replaced since it was reported.

### Chat

`Enter`, `Inject`, `Llm*`, `Tool`, `RecordTurn`, `Finalize` are `cli_chat_reply` in its
order, one action per gateway call and the code up to the next. `buffer` is the
message buffer, with the number of calls an assistant's message asks for and the
call a tool's message answers. `history` is the ring; `Restored` replays
`mem.recent` into it, record by record (`AddRecord`, `Replayed`). A record gives back what its form says (`Roles`): a whole
turn, a question (the record is cut at 1600 bytes, perhaps before the answer), one
message of another client, or nothing. `Tool` goes on after Ctrl+C, as the code does: each call left
is tried, refused and answered, and the next request is the one that is canceled.
`Restart` is the end of the process at any point and the next start, with `--resume` or not.
`failed` is history.

Abstractions: a message is who said it in which turn; the cut of a tool's result, the
echo filter of the memories and the language post-processing change texts only, and
`tool_round` never returns -1 here, because the answer's `tool_calls` come from an array with elements
(`choice_fill`). The chat a typed line starts during a task is the same chat.

### Repl

`pc` walks `cli_main_loop` and `cli_turn`: `read`, then a command's `call`, or `lang`, `route`,
`class`, `chat` or `task`, `account`, and `read` again. `Meant` is the lookup of a name or of
its only continuation. A chat is rounds that cost tokens and an end, a task an end; both are spelled out
in `Chat` and `TaskTurn`. `counted` is the total of `llm_d`, `base` the point the session starts
from, `own` the counter of the chat. `Served` and `Lost` are the two ends of a call as `g_cli_cancel`
leaves them. `pressed`, `refused`, `spent`, `bad` and `unmet` are history: `bad` holds the turns whose chat failed or
whose task was not planned or not taken, which `cli_turn` returns as a failure, `unmet` those whose task was taken and
ended badly, which it does not.

Abstractions: prompt and completion tokens and their cost are one number; a command is the one
gateway call it makes.

### Cognition

`mpc` is the main thread: `think1`, `ask`, `think2` and `absorb`, then `health`, `alloc`, `dispatch`,
`join`, `report` of the review; `wpc` holds the worker of each topic. `Answer`, `NoMore`, `Quit` are the
lines a user may give to a question. `net` holds the requests on their way to `agent_d`, which `Serve` takes
whether or not somebody still waits. An agent answers a text, an empty string (`blank`: the code takes it
for an error and keeps it as output), or nothing. `freed` is the life of the records.

### LineEditor

A line is a sequence of bytes with one character of three bytes, so that the loops over
continuation bytes matter; `NamesAreWhole` says that commands and file names consist of whole characters
(the table of commands is ASCII, names are UTF-8). `text` is line and caret; each key is an action, the ones of
the pinyin apart. `Refreshed`, `Spent` and `Flipped` are the ways the candidates change. `Byte` takes a
character's bytes one by one (`owed`). `cap` is the memory the line has (`input_cap`), which `Sized` doubles from one
of `Caps` to the next; each key makes the room that its code asks for, which for `Tab` may be too little, and for the
draft that `Down` copies is nothing. A line with its NUL beyond that memory is an `Overrun`, after which no key is
taken: the program has no defined behaviour there. `Enter` saves the history, whole, in part, perhaps to within a
line, or not at all, and `Restart` loads it through a buffer of `LoadMax` bytes: `Pushed` is the loop over the
pieces of a line, `Loaded` the one over
the lines of the file, and `Matching` the loop over the candidates of Tab, each a recursive function. `cut`,
`unsaved` and `written` are history.

### KeyReader

`wire` is what is under way from the terminal, in pieces that arrive at once, `rd` where `tui_read_key` is within a
key; `Reached` gives where a byte leads from there, table by table of `tui_keys.c`, and `Timeout` is a limit that
passed. A byte on POSIX, the bytes of a record on Windows are in `cache` until they are taken. `due` is what the
keys sent mean, `torn` that a delay or a
second key came inside a sequence, both history.

### UpdateTx

One action per effect on the disk of `upd_lock_acq`, `upd_recover`,
`apply_package`, `rel_prune` and the `--rollback` branch. `rm -rf` is `Gnaw` (some
files, perhaps `.complete`; the directory becomes a newer one if a file at its top was taken), `Gone` (the rest) and
`Removed`. `Die` may come between any two. `TakeLock` and `Look` are the two steps of a launcher that finds a lock:
its pid may have gone in between, and what `kill -0` finds alive may be any process (`Reuse`: the system gave the pid
away, as after a reboot). `Boot` is the recovery at the start of any launcher. `Finish` may fail to write a file of the
release, `.complete` among them, and goes on as the code does. `Rewrite` and `Rewritten` are the beginning and the end
of a write of `agentrt-env.sh` or of the launcher through the links, that is into the current release (`writing`); it
may be left unfinished. Times are the number of releases finished so far. `alone` and `marked` are history: no two
processes were ever between lock and release, and every `.complete` that was due was written. `ln -sfn` is one
step, as in GNU coreutils, which rename a new link over
the old. The layout is taken as migrated (`migrate_layout`
returns at once), and the download and signature check as a choice between a good
and a bad package.

`Releases` has no launchers, locks, intents or deaths. A release becomes ready once, the link goes
from a ready release to a ready one in a single step, and what is current is never withdrawn. It says nothing of what
is inside a release (`NeverInPlace` does), and promises nothing any more after two updates were at work together or
a mark could not be written (`kept <- Sound`). `Promise == INSTANCE Releases WITH ready <- complete, ...`
is the refinement: `Finish` publishes, `Recover`, `Commit` and `Swap` switch, `Gnaw` and `Gone` withdraw,
and every other step is a stutter.

## 3. Runs

| Run | Checks | Bounds |
|---|---|---|
| `task_turn` | `LifeSpec`, `TypeOK`, `CancelOnlyWhenAsked`, `VerdictIsReal`, `AbsorbIsReal`, `WorkerInsideWait`, `TurnEnds`, `StopReachesSched` | two turns; 2 polls for each limit |
| `self_heal` | `RestartsBounded`, `BackoffFromScan`, `ScanEnds` | two daemons, 2 restarts, backoff 2, probe 1 |
| `live_watch` | `RebuildIsJustified`, `InputGivenBack` | three services, two epochs |
| `gw_call` | `NotCutShort`, `SilenceIsBounded`, `CallEnds` | one caller, timeout 2 slices, one renewal, 3 units of body |
| `chat` | `TypeOK`, `RequestIsWellFormed`, `ToolRoundsBounded`, `NothingTwice`, `FailedLeavesNoTrace`, `RebuiltIsWhole`, `ChatEnds` | three turns of any client, a ring of two rounds, two tool rounds of up to two calls |
| `repl` | `StatusTellsFailure`, `ShownIsOfThisSession`, `PromptEnds` | three lines, six commands, seven tokens, `llm_d` counts from 1 to 3 |
| `repl_cancel` | `CancelSparesNext`: violation, see section 5 | two lines |
| `cognition` | `AnswersAreTheUsers`, `WorkersInsideReview`, `ReportIsReal`, `PlanningEnds` | three topics, two questions |
| `line_editor` | `WholeCharacters`, `CandidatesFit`, `PinyinIsKept`, `TabKeepsTheRest`, `HistorySurvives` | six keys, six bytes, buffers of 6, 12 and 24, a history of two lines, a load buffer of 4 and a caller's buffer of 5 bytes, pages of two |
| `key_reader` | `MeansWhatWasSent`, `CallReturns` | three of twenty keys, control strings of 3 bytes, two gaps, both platforms |
| `update_tx` | `CurrentIsComplete`, `IntentResolved`, `PromiseSpec` | two launchers, two operations, one fault, two artifacts |
| `update_mutex` | `Mutex`: violation, see section 5 | two launchers |

Each module has a `TypeOK`. `task_turn` checks it together with what the proofs need, `chat` because it bounds
the ring. In the other modules it carries no hazard and is not listed in the
configuration; `INVARIANT TypeOK` may be added there, and holds. `LiveWatch!RoundEnds`, the liveness
of a round, holds in the same way under `LiveWatch.cfg`.

Why the bounds are enough. *Two turns* are what a leak from one turn to the next
needs; a third is in the position of the second, and the theorems of section 4
hold for any number. *Two polls* for each limit give a first, a last and a
repeated poll; the limits are only compared with `>=`. *Two daemons* let one hang
in front of the other; *probe 1, backoff 2* is the smallest instance in which a delay inside
a scan is shorter than the backoff and adds up over two probes. *Three services*, of
which two use up the budget, leave one behind the budget. *Two slices and one
renewal* separate the last slice of a quantum from that of the call; a body of 3
units against a buffer of 4 reaches the size limit (header plus 3). *Two launchers, two
operations, one fault* are what a stale lock, a half-finished update and its
recovery beside another process need; three operations by two launchers exceed two million
states and were not run to the end. *Two rounds* in the ring and *three
turns* make it evict, also with single messages that shift the pairs; two tool rounds
have a first, a last and the summary behind it, and two calls a first that is answered and a second
that is canceled. *Three lines* of `Repl` are a turn that fails, one that does not, and the end;
*from 1 to 3* lets another client spend before the first account and between two. *Three topics*
give a thread that failed, one that is late and one that speaks; two questions an answer
followed by an empty line or a word to stop. *Six keys* are a character, a letter, a caret movement
and a Tab or recall with something left over, and enough to write, submit, leave and recall a line; a buffer that is
smaller than the six bytes of a line cuts one, and so does the load; two lines overflow the history. *Buffers of 6, 12
and 24* (256 and its doubles in the code) lie at the six bytes of a line, so that typing and completing both meet
their ends. *Three sends* are a sequence
between two others, and *two gaps* tear two of them or one twice. `MaxTurns`, `MaxOps`, `MaxCalls`, `MaxLines`,
`MaxCounted`, `MaxQuestions`, `MaxKeys`, `MaxBytes`, `Caps`, `MaxSends`, `MaxGaps`, `MaxMessages` (never reached),
`MaxFaults`,
`MaxCopies`, `MaxEpoch`, `MaxSize` and the cap `LongTime` of the histories of
`GwCall` are bounds of the models and not of the code.

`CHECK_DEADLOCK FALSE` is set in the runs of `TaskTurn` and `Repl`, where the program
exits, of `Cognition`, which is one planning and ends with it, and of `LineEditor` and `KeyReader`, where
the keys run out. `UpdateTx` has the step `Rest` for an installation that nobody updates any
more.

Fairness:

- `TaskTurn`: weak fairness of the two threads. Both are ordinary threads, and every call they
  wait for returns, which `GwCall!CallEnds` shows. Nothing is assumed of the
  user, the network or `sched_d`: the user may never answer a question of the plan (`AnswerQuestion` is no
  step of `Main`), and `TurnEnds` excepts the wait for it. Once the last question is answered the turn ends.
- `Repl`: the loop goes on; each call, chat and task it waits for ends (`GwCall!CallEnds`, `Chat!ChatEnds`,
  `TaskTurn!TurnEnds`). A task at a terminal may wait at a question; `PromptEnds`, the only liveness stated, is about
  `-p`, where none is asked. A chat's rounds are capped by `spent`.
- `Cognition`: the main thread outside a question, and each worker. Nobody assumes that the user
  answers, that `agent_d` serves a request, or that Ctrl+C is pressed.
- `KeyReader`: the reader runs and its limits pass; the terminal need not send. `CallReturns` is about POSIX
  only: on Windows a record without bytes leads to a read without a limit. `LineEditor` states no liveness.
- `SelfHeal`, `LiveWatch`: a scan or round that is under way goes on; each probe has a time budget.
  `LiveWatch` also assumes that the editor keeps beating.
- `GwCall`: `poll` returns after a slice at the latest. One part is not the
  code's doing: the request is sent on a blocking socket (`cli_gw.c:403-428`)
  without a timeout and without a look at the flag, so `FairCallSpec` assumes that the
  gateway reads what it is sent. With a gateway that does not, the call hangs.
- `Chat`: the chat is on the main thread and each of its calls ends (`GwCall!CallEnds`).
- `UpdateTx`: a launcher that runs goes on, and the launcher is started again
  while an update is pending. The recovery happens in no other place. `IntentResolved` excepts a lock whose pid
  came to another process: nothing makes that process end (`IntentReplayed`, section 5).

Every property of a passing run has a mutant in `PROJECT.json`: a plausible slip in the
code (a dropped guard, an off-by-one, a missing reset) under which TLC finds it violated.

## 4. Proofs

Eight modules hold theorems, each about the `Spec` of the module they extend and for every value
of its constants under the named assumption of that module. In each, the safety properties follow
from one theorem (`Inductive`, in `GatewayProofs` also `CallInductive`): `Spec => []IInv`, where `IInv` is a
conjunction of named parts that
`Init` establishes and every action keeps. `TypeCorrect` is `TypeOK`.

### TaskTurnProofs

`TaskTurnProofs` proves, for every `MaxTurns`, every poll limit and both modes
(assumption `TurnAssumption`):

- `TypeCorrect`, `WorkerIsJoined`, `CancelIsAsked`, `VerdictIsTrue`, `AbsorbIsTrue`:
  the five invariants of the run `task_turn`;
- `Implements`: `Spec => Life!Spec`, every behaviour is one of `TaskLifecycle`.

All of them follow from `Inductive`: `Spec => []IInv`. None of the properties is
inductive alone. `IInv` has twelve parts:

| Part | Why it is needed |
|---|---|
| `TypeOK`, `Shape` | poll counters stay within their limits because a loop is left when one is reached; the worker runs only inside `tp_wait`, so the worker's `turn` is the main thread's |
| `FlagIsOurs` | in a chat or the pipeline a set flag was set in this turn: the entry cleared what was left over. `StopIsAsked` rests on it |
| `StopIsAsked` | with `FlagIsOurs` it is `CancelOnlyWhenAsked` |
| `FreshDag` | no DAG before the submit of its turn, and at most one submit on the wire: a late submit cannot start a second DAG |
| `TrueAnswer` | a terminal state in the hands of the worker or the reporter is the final state: ends of a DAG are final, so a stale snapshot with one is not stale |
| `OneVerdict` | a turn that goes on has none |
| `Regiving` | between verdict and give-back, and on the wire, result and verdict agree although the flag may change after it was read |
| `VerdictIsReal`, `AbsorbIsReal` | |
| `OneFact` | a fact is sent once, however late it arrives |
| `DagExists` | a submit that was answered has a DAG |

Each part has a step lemma with one step per action; `Inductive` puts them
together; `Implements` maps each action to one of `TaskLifecycle` or to a stutter.

### The others

| Module | Proved | The strengthening, and why it is needed |
|---|---|---|
| `UpdateTxProofs` | `LinkIsComplete`: `CurrentIsComplete`; `KeepsPromise`: the refinement `PromiseSpec` | `Sound` is `alone` and `marked`. `OneInside`: while it holds, one launcher at most is between lock and release. `Careful`: what that one removes, or may come to remove, is not current, and what it is about to make current is complete if it is there. A death leaves no obligation behind, which is why the property survives it. For the refinement also `Fresh` (`PlacedIsFresh`): what is in place and not finished has a name that nothing complete has, so that `Finish` publishes a new one |
| `GatewayProofs` | `RebuildsAreJustified`, `InputComesBack` | views are old when they are read; they err on one side, because what the view takes for down is in `broke` (`DownHasBroken`), what fails now is too (`FailureIsNoted`), and a service that was named is not probed again in its round (`NamesAreJustified`, for which the table must be without duplicates) |
| `GatewayProofs`, of `GwCall` | `SilenceIsCharged`, `WholeIsTaken` | `Charged`: silence seen, budget left and renewals left, each worth one timeout, make up the bound in every call under way |
| `SelfHealProofs` | `SpawnsAreBounded`, `BackoffIsKept` (an action property) | `DelayIsProbes`: the delay of a scan is the sum of its probes. `LimitsPassed`: an entry that passed both limits at the first probe still passes them at the fork. `AgeIsOfFork`: an age tells no more than the time since the last spawn and its delay |
| `CognitionProofs` | `AnswersReachTheModel`, `RecordsOutliveThreads`, `ReportIsTrue` | `ThreadsJoined`: a thread exists only for a dispatched topic and until the join. `OneRequest`: a request is on its way only while its worker is at it or has left, so that a late one cannot speak for another |
| `PromptProofs`, of `Repl` | `StatusIsTrue`, `AccountIsOfSession` | `StatusIsFlag`: the flag is set if and only if a turn returned a failure, that is for the turns of `bad` and not for those of `unmet`. `CountedHere`: the session has one starting point after the process' own, and no counter holds more than was counted since |
| `PromptProofs`, of `KeyReader` | `KeysTyped`; `KeysMeanWhatWasSent` for keys the code knows | `UnderWay`: the bytes in `cache` and on the wire are the rest of the key that has begun, and its codes not yet reported are those due. `Behind`: a key sent before the one before it was read to its end waits whole behind that rest |
| `ChatProofs` | `RequestsAreWellFormed`, `RoundsAreBounded`, `HistoryShowsOnce`, `FailuresLeaveNoTrace`, `RebuildLosesNothing` (an action property) | `PastInv`: whose turns ring and records show. `LoopInv`: which calls are open where in the message buffer, and that it has room for what the loop may still push |
| `LineEditorProofs` | `NoneIsTorn`, `CandidatesAreShown`; of the action properties `SavedIsRecalled`, `OnlyTheWordChanges`, `LettersAreKept` | `EditInv`: with the bytes of a character still to come (`Due`) the line is whole and the caret between characters. `DraftFits`: the draft always has its place in the line's buffer, which never becomes smaller. `HistInv`: until a line was cut or a save failed, the file is equal to the lines held, which have no two equal neighbours. `ImeGood`: candidates and pages are those of the letters |

*Chat.* The turns the ring shows (`Shown`) and those `mem_d` has a record
of, or a write it has not served yet (`Recorded`), are past, did not fail and are not under way. `OneRecord`: a
turn has one record at most, stored or on its way; without it a
replay would show a turn twice. `Conv` follows the message buffer from the front and says which calls of which
message are still open at each place (`OpenFrom`, `Closed`), and `Size` that the buffer has room for
every message the loop may still push, so that no request is cut short. What a replay of any number of
records shows is proved by induction: the set of numbers of records for which it holds has no least
number missing (`LeastOf`, `Induct`, from the well-foundedness of `<`).

*KeyReader.* Each key that the code knows has a `Course`, the states the tables lead through, one for each of its
bytes; twenty lemmas show that the tables do (`Follows`) and that at the end the reader is at rest or a limit reports
the code still due (`Settles`: a lone ESC, a control string that is cut off). From these alone, `Reads` tells what a
rest of bytes will bring, and `NextStill` takes it a byte further. The theorem has the hypothesis that `"f5"` is not
sent, because with it the property is false (section 5). That `StrMax` is more than 2 is the only thing the proof
asks of the limit of
a control string: the code's is 256, and the strings of `Terminal` are shorter than that.
`KeysTyped` holds for F5 and for torn sequences too.

*LineEditor.* A line is looked at in two parts, before the caret and after it (`CutParts`, `JoinParts`); a line is
`Sound` if no part of a character is at its ends or in between, and every key either keeps both
parts or joins sound lines to the first. What a key writes beyond the buffer is followed too: `KeyFits` shows that
of all keys only a completion before the end of the line outgrows it, and `OnlyTheWordChanges` is about every other
completion. The caret's steps rest on where `Max` and `Min` of a set of
positions lie. Loading is a loop in a loop: what `Loaded` returns is proved by induction over the
lines of the file and, within one, over its pieces, a history that keeps its limit and has neither an empty line
nor two equal
neighbours whatever the file was, and that it is
the file itself when no line is longer than `LoadMax`, none is empty and none equals the one before. `Matching` is handled
in the same way. `DraftReturns` of section 5 is false and has no theorem.

What stays with TLC:

- Liveness (`TurnEnds`, `StopReachesSched`, `ScanEnds`, `RoundEnds`, `CallEnds`, `ChatEnds`,
  `PromptEnds`, `PlanningEnds`, `CallReturns`, `IntentResolved`): it rests on
  fairness and `ENABLED`, which are beyond the prover.
- `MeansWhatWasSent` where `"f5"` is sent: violated, section 5. What a torn sequence brings before the next
  quiet moment is left open by the property itself.
- What `TurnAssumption` and the other assumptions say of the constants: TLC evaluates them for those of the runs.

## 5. Disagreements between code and documentation

Standing runs, each with one property that states what a comment or document
says and that TLC finds violated:

| Run | The text | The code |
|---|---|---|
| `update_mutex` | `latest/airymaxrt:790`: the whole flow is mutually excluded | a stale lock is removed without a second look, also one that was just retaken or whose pid is not written yet |
| `repl_cancel` | `cli_chat.c:383-384`: a SIGINT cancels the current turn's wait and does not pollute the next | the flag is cleared only by a chat or a task: the language gateway, `sched.plan` and the commands' calls of the next line give up their answers |

Other disagreements. TLC finds these violated too, when the property is put in
the place of those of the module's configuration (with the change named); they are defined in the modules but are
not standing runs:

| Property (module) | The text | The code |
|---|---|---|
| `CtrlCPropagates` (`TaskTurn`, `FairSpec`) | `cli/core/cli_dag.c:448`: Ctrl+C calls `sched.dag_cancel` | a Ctrl+C during the worker's `sched.dag_status` makes the call fail, and the wait ends at line 479 without a cancel: the DAG runs on |
| `FailureReachesExit` (`TaskTurn`, `MaxTurns = 1`, `PrintMode = TRUE`) | as `FailureReachesStatus` | the same, seen from the pipeline |
| `FlagKeptDuringTask` (`TaskTurn`) | `main.c:57-59`: the flag is reset before each new task, which aborts on it | a line typed during a task starts a chat that clears the flag (`cli_chat.c:385`) |
| `NoSpill` (`TaskTurn`) | `cli_chat.c:383-384`: SIGINT does not pollute the next turn | the language gateway and the fast path run before any reset |
| `BackoffKept` (`SelfHeal`) | `CHANGELOG.md:665`: a backoff between restarts | measured from the start of the scan, so shorter by what the scan took |
| `ViewKept` (`LiveWatch`) | `cli/cmd/cli_live.c:118`: an unreachable gateway does not touch the view | a gateway lost after its own probe reads as a failed service |
| `RestIsDeferred` (`LiveWatch`) | `cli_live.c:41`, `include/cli_live.h:42`: what the budget cuts off is deferred | each round starts at entry 0: hung services starve those behind them |
| `BoundHonored` (`GwCall`) | `include/cli_gw.h:47-48`: total bound timeout x (1 + renewals) | only slices without a byte are charged, and the connect has a timeout of its own |
| `ReasonIsOwn` (`GwCall`) | `include/cli_gw.h:56-57`: the reason of the latest failure, empty without one | a canceled call leaves, and a success does not clear, the reason of an older call |
| `RollbackKept` (`UpdateTx`, `Procs = {p1}`, `MaxOps = 3`, `MaxFaults = 2`) | `README.md:311`: `--rollback` returns to the previous version | the remains of an interrupted update count as a release for `rel_prune`, which then removes the previous one |
| `IntentReplayed` (`UpdateTx`, `Procs = {p1}`, `MaxOps = 1`) | `latest/airymaxrt:790`: the intent is replayed; `804`: the lock of a process that is gone is cleared | `kill -0` (line 800) takes any process that has the pid by now for the owner: recovery returns in silence at every start, updates are refused, the intent stays |
| `CurrentUnaffected` (`UpdateTx`, the same, `MaxFaults = 2`) | `latest/airymaxrt:966`: the removal of an unfinished release leaves the current one alone | whether `.complete` could be written is not looked at (line 1054, `set -e` is off), and the release is linked; a later recovery of the same intent takes it for unfinished and removes it |
| `NeverInPlace` (`UpdateTx`, `Procs = {p1}`, `MaxOps = 1`) | `latest/airymaxrt:789`: a published directory is never rewritten in place | `agentrt-env.sh` is appended to and the launcher copied over through the links, into the release just published (lines 1097-1121) |
| `EnvIsCurrent` (`UpdateTx`, as `RollbackKept`) | `latest/airymaxrt:790`: the intent is replayed | it is cleared before `install.env` is written, and a rollback has none |
| `DropsPairs` (`Chat`) | `cli_chat_history.c:8`: a full ring drops the oldest round, question and answer as a pair | it drops two messages; after a restore of single messages these are an answer and the next question |
| `SessionSurvives` (`Chat`) | `cli_chat_session.c:158-159`: memory holds the complete records, a rebind is a clean resume | the history is cleared first; it is gone when `mem.recent` fails, when Ctrl+C left the flag set, or when a turn was not recorded |
| `EmptyStaysEmpty` (`Chat`) | `airy_cli_cmdline.c:21`: `/clear` empties the context of the conversation | the next rebind restores it from `mem_d`, without `--resume` having been asked for |
| `FailureReachesStatus` (`Repl`) | `main.c:298, 489`, `airy_cli_cmdline.c:163`: no usable result must reach the exit status | `cli_run_task_pipeline` returns 0 after the report, whatever the result: a task that failed or was canceled under `-p` exits with 0 |
| `EmptyMeansFree` (`Repl`) | `cli_chat_usage.c:207`: 0 is returned when the turn consumed nothing | `chat_hist_flush` clears the counters before the account is made, so without `llm.get_stats` a good chat shows nothing; the counters of a failed one are shown under a later turn; the first account shows nothing because the session begins with it |
| `NoFailureIsSilent` (`Cognition`) | `cli_review.c:19-21`: no failure is silent | an agent that answers an empty string is an error in `status`, but its output is taken and nothing is shown (`include/cli_review.h` speaks of skipping silently) |
| `LineFits` (`LineEditor`) | `tui_complete.c:22-23`: the word is replaced in the input buffer | the buffer grows for the line up to the candidate, and what stands after the caret is moved past its end (lines 26-37) |
| `DraftReturns` (`LineEditor`) | `tui_line_readline.c:260`: at the bottom of the history the draft from before entering it is restored | every Up overwrites the draft (`rd_hist`), so that after two of them Down brings a recalled line |
| `MeansWhatWasSent` (`KeyReader`, with `"f5"` among `Sends`) | the comment on `tui_esc_bracket`: unknown sequences are ignored whole | F5 to F8, F11 and F12 leave a `~` in the line |

Smaller ones, found while reading, that no property states:

- Line editor: Ctrl+C and Ctrl+D on an empty line return 1 with a length of 0 where
  `cli_tui.h:68` says 0, so the session does not end that way; `tui_ime_refresh` says that page and
  highlight are reset, and clamps them; a completion in the middle of a line matches names with all
  of the rest of the line; a line of more than 498 bytes is recalled in pieces after a restart.
  After a flip to a last page that is shorter the highlight may lie beyond it, and Enter takes the letters.
  On Windows the history is neither loaded nor saved.
- Key reading: SGR mouse reports, control strings of more than 256 bytes or with a pause of
  more than 60 ms, and the end of a bracketed paste leave bytes in the line; Ctrl+Space is key 0, which
  ends the session (`tui_line_readline.c:445`).
- Updates: an interrupted `rm -rf` may leave `.complete`, and recovery goes by it alone. `latest/airymaxrt:788`
  calls the switch of `current` atomic. It is where `ln -sfn` renames a new
  link over the old one; where `ln` removes the old one first (macOS) a death between the two leaves none.
- Review: agents that were spawned are never released, and after Ctrl+C some run for nobody.
  An empty line for a Ctrl+C at a question is a skip and not a stop.
- Main loop: `-p ""` reads the standard input; a line of more than 8191 bytes becomes two turns;
  an unknown command under `-p` exits with 0; the language of the previous turn stays when
  `think.lang_process` fails; the session's account includes what other clients spend.

## 6. Not modelled

- The daemons and the kernel: not in this repository.
- `/orch`, `/approve`, `/apikey` and the commands that print what a daemon answers: one call each, for which
  `Repl!Call` stands; the reading of the model configuration (`cli_think.c:237-436`) and of the options at
  the start; the log of the reasoning beside the token counters.
- The full-screen view, the board of DAG nodes, terminal and rendering: output only.
- `migrate_layout`, download and signature check of the updater; `install.sh`,
  which writes the same `releases/` without the lock.
- The parsing of answers (JSON, epochs), scoring of a line, prompts and output:
  data that no property here tells apart.
- Windows branches other than those of the key reading, which have the same control.
- Code generators, build, CI: no program state.

## 7. Plan

Next modules, in this order:

1. `Migrate`: `migrate_layout` with a crash between a rename and its link, composed with `UpdateTx`.
2. `install.sh` as a second writer of `releases/` in `UpdateTx`.
3. `Approval`: `/approve`, whose request may have been settled by another client between list and answer.
4. The composition of `KeyReader` and `LineEditor`: the editor's keys as the reader's output.

Abstract specifications worth stating: a call that returns once (for `GwCall`), a list of exchanges
(for `Chat`); `Releases` with what `install.env` says, once an update keeps the two together.

Theorems: `GwCall` and `Chat` as implementations of the abstract specifications above, once these are written.
