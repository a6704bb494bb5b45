--------------------------------- MODULE Repl ---------------------------------
(* The main loop of airy_cli: a line from the terminal, the standard input  *)
(* or the -p argument (core/main.c), the command table                      *)
(* (core/airy_cli_cmdline.c), the way of a turn through the language        *)
(* gateway and the blueprint tiers (core/airy_cli_pipeline.c), the account  *)
(* shown under each turn (chat/cli_chat_usage.c) and the exit status. What  *)
(* happens inside a chat is Chat, inside a task TaskTurn, inside one call   *)
(* GwCall; keys at the prompt are KeyReader and LineEditor. The daemons and *)
(* the full-screen front end are external.                                  *)
EXTENDS Integers, Sequences, SequencesExt

CONSTANTS Commands,   \* CLI_COMMANDS: the names, as sequences of letters
          Quit, Tui,  \* the two of them that ask something of the loop
          NeedsArgs,  \* those with needs_args
          Typed,      \* bound: what a user types after a slash
          MaxLines,   \* bound: lines of one session
          Earlier,    \* tokens llm_d counted before this session
          MaxCounted  \* bound: other clients spend up to this count of llm_d

ASSUME ReplAssumption ==
  /\ {Quit, Tui} \cup NeedsArgs \subseteq Commands /\ {Quit, Tui} \cap NeedsArgs = {}
  /\ MaxLines \in Nat /\ Earlier \in Nat /\ MaxCounted \in Nat

VARIABLES mode,      \* "prompt": -p with an argument; "stream": -p; "tty"
          consumed,  \* the -p argument was taken
          cancel,    \* g_cli_cancel
          pc,        \* where the loop is
          tui,       \* switch_tui
          failed,    \* a turn failed
          exit,      \* the status of the process, -1 while it runs
          n,         \* lines read
          counted,   \* tokens llm_d counted, for all of its clients
          base,      \* where the session starts to count: {} or {g_llm_base_*}
          own,       \* g_chat_tokens_total
          shown      \* the tokens under the last turn
VARIABLES pressed,   \* history: Ctrl+C came since the line was read
          refused,   \* history: a call was refused, and pressed was not
          spent,     \* history: tokens of this turn
          bad,       \* history: the turns whose chat failed, or whose task was not
                     \* planned or not taken by sched_d
          unmet      \* history: the turns whose task was taken and ended without a
                     \* usable result (failed, canceled, timed out, none)

account == <<counted, base, own, shown, spent>>
input   == <<mode, consumed, n>>
missed  == <<bad, unmet>>
vars    == <<input, cancel, pc, tui, failed, exit, account, pressed, refused, missed>>

Batch == mode # "tty"

TypeOK ==
  /\ mode \in {"prompt", "stream", "tty"} /\ consumed \in BOOLEAN /\ n \in 0..MaxLines
  /\ pc \in {"read", "tui", "call", "lang", "route", "class", "chat", "task", "account", "gone"}
  /\ cancel \in BOOLEAN /\ tui \in BOOLEAN /\ failed \in BOOLEAN /\ exit \in -1..1
  /\ counted \in Nat /\ own \in Nat /\ shown \in Nat /\ spent \in Nat /\ base \subseteq Nat
  /\ pressed \in BOOLEAN /\ refused \in BOOLEAN /\ bad \cup unmet \subseteq 1..MaxLines
  /\ tui => pc = "read" /\ ~Batch

Init ==
  /\ mode \in {"prompt", "stream", "tty"} /\ consumed = FALSE /\ cancel = FALSE
  /\ pc = "read" /\ tui = FALSE /\ failed = FALSE /\ exit = -1 /\ n = 0
  /\ counted = Earlier /\ base = {} /\ own = 0 /\ shown = 0 /\ spent = 0
  /\ pressed = FALSE /\ refused = FALSE /\ bad = {} /\ unmet = {}

Goto(from, to) == pc = from /\ pc' = to

-----------------------------------------------------------------------------
(* A line and the command it means *)

\* What a token after the slash stands for: the command of this name, else
\* the only one it begins
Hits(token)  == {c \in Commands : IsPrefix(token, c)}
Meant(token) == IF token \in Commands THEN {token}
                ELSE {c \in Hits(token) : Hits(token) = {c}}

\* The prompt of a terminal only changes over to the other front end
HasView == ~Batch

Leave ==
  /\ pc' = "gone" /\ exit' = IF Batch /\ failed THEN 1 ELSE 0
  /\ UNCHANGED <<cancel, tui, failed, account, refused, missed>>

\* A line is taken: later Ctrl+Cs are meant for it
Take == n < MaxLines /\ n' = n + 1 /\ pressed' = FALSE /\ UNCHANGED mode

\* (mutant: the argument is given again and again)
Again       == FALSE
Once        == TRUE
Argument    == mode = "prompt" /\ ~consumed /\ consumed' = Once /\ Take
StreamOrKey == mode # "prompt" /\ UNCHANGED consumed /\ Take

Reading == pc = "read" /\ ~tui

\* The input ends: the argument is used up, the stream is at its end or its
\* read was interrupted, the user typed Ctrl+D
EndOfInput ==
  /\ Reading /\ (mode = "prompt" => consumed)
  /\ Leave /\ UNCHANGED <<input, pressed>>

\* quit and exit are words of the terminal only
Bye == Reading /\ ~Batch /\ StreamOrKey /\ Leave

\* What the loop answers by itself: a blank line of the stream or terminal,
\* '?', an unknown or ambiguous command, one whose argument is missing
Refuses(token, args) == Meant(token) = {} \/ (~args /\ Meant(token) \cap NeedsArgs # {})
Stays ==
  /\ Reading
  /\ \/ StreamOrKey
     \/ /\ Argument \/ StreamOrKey
        /\ \E token \in Typed, args \in BOOLEAN : Refuses(token, args)
  /\ UNCHANGED <<cancel, pc, tui, failed, exit, account, refused, missed>>

Command(token, args) ==
  /\ Reading /\ (Argument \/ StreamOrKey)
  /\ ~Refuses(token, args)
  /\ LET c == Meant(token) IN
     \/ Quit \in c /\ Leave
     \/ /\ Tui \in c /\ tui' = HasView
        /\ UNCHANGED <<cancel, pc, failed, exit, account, refused, missed>>
     \/ /\ c \ {Quit, Tui} # {} /\ pc' = "call"
        /\ UNCHANGED <<cancel, tui, failed, exit, account, refused, missed>>

\* Anything else is a turn, under -p also the words of the terminal
Turn ==
  /\ Reading /\ (Argument \/ StreamOrKey)
  /\ pc' = "lang" /\ spent' = 0
  /\ UNCHANGED <<cancel, tui, failed, exit, counted, base, own, shown, refused, missed>>

\* /tui: the other front end runs, a client of llm_d like this one
SwitchTui ==
  /\ pc = "read" /\ tui /\ tui' = FALSE /\ pc' = "tui"
  /\ UNCHANGED <<input, cancel, failed, exit, account, pressed, refused, missed>>
TuiEnds ==
  /\ Goto("tui", "read")
  /\ UNCHANGED <<input, cancel, tui, failed, exit, account, pressed, refused, missed>>

-----------------------------------------------------------------------------
(* Calls of a line: with the cancel flag set the answer is not waited for *)

Served == ~cancel /\ UNCHANGED refused
Lost   == refused' = (refused \/ (cancel /\ ~pressed))

Spend(k) == counted' = counted + k /\ spent' = spent + k

\* A command's call of the gateway, with or without an answer
Call ==
  /\ Goto("call", "read") /\ (Served \/ Lost)
  /\ UNCHANGED <<input, cancel, tui, failed, exit, account, pressed, missed>>

\* think.lang_process; without an answer the last turn's language stays
Language ==
  /\ Goto("lang", "route") /\ (Served \/ Lost)
  /\ UNCHANGED <<input, cancel, tui, failed, exit, account, pressed, missed>>

\* sched.plan: the first two tiers answer the line and end the turn; with
\* --json nothing is shown under it
Blueprint ==
  /\ (Goto("route", "account") \/ Goto("route", "read")) /\ Served /\ \E k \in 0..1 : Spend(k)
  /\ UNCHANGED <<input, cancel, tui, failed, exit, base, own, shown, pressed, missed>>
Miss ==
  /\ Goto("route", "class") /\ (Served \/ Lost)
  /\ UNCHANGED <<input, cancel, tui, failed, exit, account, pressed, missed>>

\* The words decide, or the model is asked; both sets clear the flag first
Classify ==
  /\ pc = "class" /\ pc' \in {"chat", "task"} /\ \E k \in 0..1 : Spend(k)
  /\ own' = IF pc' = "chat" THEN 0 ELSE own
  /\ cancel' = FALSE
  /\ UNCHANGED <<input, tui, failed, exit, base, shown, pressed, refused, missed>>

\* What cli_turn returns is kept for the exit status (mutant: only that of
\* the last turn is)
Overwritten(ok) == ~ok
Noted(ok)       == failed \/ ~ok
Returns(ok) == failed' = Noted(ok)
Misses == bad' = bad \cup {n} /\ UNCHANGED unmet

\* One round of the model
ChatRound ==
  /\ pc = "chat" /\ spent < 2 /\ Spend(1) /\ own' = own + 1
  /\ UNCHANGED <<input, cancel, pc, tui, failed, exit, base, shown, pressed, refused, missed>>

\* The flush of a chat that has an answer clears the counters
ChatEnds(ok) ==
  /\ Goto("chat", "account") /\ Returns(ok)
  /\ IF ok THEN own' = 0 /\ UNCHANGED missed ELSE Misses /\ UNCHANGED own
  /\ UNCHANGED <<input, cancel, tui, exit, counted, base, shown, spent, pressed, refused>>

\* No plan, or sched_d did not take it: nothing is shown
TaskFails ==
  /\ Goto("task", "read") /\ Returns(FALSE) /\ Misses /\ \E k \in 0..1 : Spend(k)
  /\ UNCHANGED <<input, cancel, tui, exit, base, own, shown, pressed, refused>>

\* An accepted task: cli_run_task_pipeline returns 0 after the report, whatever
\* has been reported; chats typed meanwhile clear the flag and the counters
TaskEnds(usable) ==
  /\ Goto("task", "account") /\ Returns(TRUE) /\ \E k \in 0..1 : Spend(k)
  /\ unmet' = (IF usable THEN unmet ELSE unmet \cup {n}) /\ UNCHANGED bad
  /\ \/ UNCHANGED <<own, cancel>>
     \/ own' = 0 /\ cancel' = FALSE
  /\ UNCHANGED <<input, tui, exit, base, shown, pressed, refused>>

\* llm.get_stats: the first answer is where the session starts
\* (mutant: it starts with the life of llm_d)
Lifetime == {0}
First    == {counted}

Account ==
  /\ Goto("account", "read")
  /\ \/ Served /\ base' = (IF base = {} THEN First ELSE base)
               /\ shown' = counted - Min(base')
     \/ Lost /\ shown' = own /\ UNCHANGED base
  /\ UNCHANGED <<input, cancel, tui, failed, exit, counted, own, spent, pressed, missed>>

-----------------------------------------------------------------------------
\* Ctrl+C, while no line is waited for: at the prompt of a terminal it is a
\* key, and in the read of a stream it ends the input (EndOfInput)
Sigint ==
  /\ pc \notin {"read", "gone"}
  /\ cancel' = TRUE /\ pressed' = TRUE
  /\ UNCHANGED <<input, pc, tui, failed, exit, account, refused, missed>>

\* Other clients of llm_d, the front end among them
OthersSpend ==
  /\ counted < MaxCounted /\ counted' = counted + 1
  /\ UNCHANGED <<input, cancel, pc, tui, failed, exit, base, own, shown, spent, pressed, refused, missed>>

LoopStep ==
  \/ EndOfInput \/ Bye \/ Stays \/ Turn \/ SwitchTui \/ TuiEnds \/ Call \/ Language
  \/ Blueprint \/ Miss \/ Classify \/ ChatRound \/ TaskFails \/ Account
  \/ \E token \in Typed, args \in BOOLEAN : Command(token, args)
  \/ \E ok \in BOOLEAN : ChatEnds(ok) \/ TaskEnds(ok)

Next == LoopStep \/ Sigint \/ OthersSpend
Spec == Init /\ [][Next]_vars
\* Calls, chats and tasks end (GwCall, Chat, TaskTurn), and so does the loop's
\* own work between them
FairSpec == Spec /\ WF_vars(LoopStep)

-----------------------------------------------------------------------------
\* Under -p the exit status tells whether a chat failed, or a task was not
\* planned or not taken, however many turns came after it and whether the input
\* ended or /quit did; a terminal's session always ends with 0. Of a task that
\* was taken it tells nothing (FailureReachesStatus).
StatusTellsFailure == exit # -1 => exit = IF Batch /\ bad # {} THEN 1 ELSE 0

\* Documented by main.c:298 (cli_turn returns 1 when this turn got no usable
\* result, which decides the exit status of -p), main.c:489 (a failed turn must
\* reach the exit status) and airy_cli_cmdline.c:163, the help text: under -p no
\* turn without a usable result goes with an exit status of 0.
FailureReachesStatus == exit # -1 /\ Batch /\ bad \cup unmet # {} => exit = 1

\* What is shown under a turn was counted after this process started: neither
\* earlier sessions of llm_d nor anything twice, whichever of the two sources
\* answered and whoever else uses llm_d meanwhile.
ShownIsOfThisSession == shown <= counted - Earlier

\* airy_cli -p with an argument runs it once and leaves, whatever it is: a turn
\* of any kind, a command, also one that is unknown or asks for the front end.
PromptEnds == mode = "prompt" ~> pc = "gone"

\* Documented by cli_chat.c:383-384 (SIGINT cancels the wait of the current
\* turn only and does not contaminate the next one): no call made for a line
\* is given up unless Ctrl+C came since that line was read.
CancelSparesNext == ~refused

\* Documented by cli_chat_usage.c:207 (0 is returned when this turn consumed
\* nothing): nothing is shown only under a turn that spent nothing.
EmptyMeansFree == [][Account /\ shown' = 0 => spent = 0]_vars
=============================================================================
