-------------------------------- MODULE Chat --------------------------------
(* The conversation of airy_cli: the ring of past messages                  *)
(* (chat/cli_chat_history.c), a chat turn with its tool loop                *)
(* (chat/cli_chat.c, cli_chat_tools.c, cli_chat_finalize.c), the record of  *)
(* a turn in mem_d (chat/cli_chat_memory.c) and the session rebuilt from    *)
(* these records (chat/cli_chat_session.c). The model, the tools, mem_d and *)
(* its other clients are external; that a call ends is shown by GwCall.     *)
EXTENDS Naturals, Sequences, FiniteSets, SequencesExt

CONSTANTS Capacity,     \* cli_history_capacity(): messages, two per round
          ToolRounds,   \* CLI_CHAT_TOOL_MAX_ROUNDS
          MaxCalls,     \* bound: tool calls in one answer of the model
          MaxTurns,     \* bound: turns, those of other clients included
          MaxMessages   \* bound: messages a request's buffer has memory for

ASSUME ChatAssumption ==
  /\ Capacity \in {2 * n : n \in 1..30} /\ ToolRounds \in Nat /\ MaxCalls \in Nat \ {0}
  /\ MaxTurns \in Nat /\ MaxMessages \in Nat
  /\ MaxMessages >= Capacity + 4 + ToolRounds * (1 + MaxCalls)

VARIABLES history,   \* g_history_*: what was said, oldest first
          records,   \* mem_d's records, oldest first
          unserved,  \* records mem_d was sent and has not stored yet
          clock,     \* the number of the last turn of any client
          cancel,    \* g_cli_cancel
          pc,        \* where the chat is
          buffer,    \* cli_chat_msgbuf_t: the messages of the next request
          rounds, summary, \* of chat_loop: tool rounds, and force_summary
          todo       \* tool calls of this round that are not executed yet
VARIABLE  failed     \* history: the turns that failed or were canceled

loopVars == <<buffer, rounds, summary, todo>>
memVars  == <<records, unserved>>
vars == <<history, memVars, clock, cancel, pc, loopVars, failed>>

Said == [role : {"user", "assistant"}, turn : 1..MaxTurns]

\* What a record of each form gives back: a whole turn, one that was cut
\* within its question, a single message, or nothing (blank, or other roles)
Roles == [turn |-> <<"user", "assistant">>, question |-> <<"user">>,
          user |-> <<"user">>, assistant |-> <<"assistant">>, other |-> <<>>]
Record == [form : DOMAIN Roles, turn : 1..MaxTurns]

\* A message of a request: the calls an assistant asks for, or the call that
\* a tool's message answers
Message == [role : {"system", "user", "assistant", "tool"}, calls : 0..MaxCalls]
Msg(role)  == [role |-> role, calls |-> 0]
Asks(n)    == [role |-> "assistant", calls |-> n]
Answers(k) == [role |-> "tool", calls |-> k]

TypeOK ==
  /\ history \in Seq(Said) /\ Len(history) <= Capacity
  /\ records \in Seq(Record) /\ unserved \subseteq Record
  /\ clock \in 0..MaxTurns /\ cancel \in BOOLEAN
  /\ pc \in {"idle", "inject", "llm", "tools", "record", "finalize"}
  /\ buffer \in Seq(Message) /\ Len(buffer) <= MaxMessages
  /\ rounds \in 0..ToolRounds /\ summary \in BOOLEAN /\ todo \subseteq 1..MaxCalls
  /\ failed \subseteq 1..MaxTurns

Init ==
  /\ history = <<>> /\ records = <<>> /\ unserved = {} /\ clock = 0 /\ cancel = FALSE
  /\ pc = "idle" /\ buffer = <<>> /\ rounds = 0 /\ summary = FALSE /\ todo = {} /\ failed = {}

-----------------------------------------------------------------------------
(* The ring *)

\* (mutant: off by one)
FullLate(h) == Len(h) > Capacity
Full(h)     == Len(h) >= Capacity

\* cli_history_add drops the two oldest messages of a full ring
Add(h, m) == Append(IF Full(h) THEN SubSeq(h, 3, Len(h)) ELSE h, m)

\* What a record gives back, added to the ring one after the other
MessagesOf(r) == [i \in DOMAIN Roles[r.form] |-> [role |-> Roles[r.form][i], turn |-> r.turn]]
AddRecord(h, r) ==
  LET m == MessagesOf(r) IN
  IF Len(m) = 0 THEN h ELSE IF Len(m) = 1 THEN Add(h, m[1]) ELSE Add(Add(h, m[1]), m[2])

\* The loop of cli_session_restore over the records it was given, oldest first
Replayed(h, rs) ==
  LET filled[k \in 0..Len(rs)] == IF k = 0 THEN h ELSE AddRecord(filled[k - 1], rs[k])
  IN  filled[Len(rs)]

Recent(n)     == SubSeq(records, IF Len(records) > n THEN Len(records) - n + 1 ELSE 1, Len(records))

\* cli_session_records_want (mutant: a record is taken for one message)
WantAll == Capacity
Want    == Capacity \div 2

\* cli_session_restore adds to a history whatever mem.recent returns; without
\* an answer, which a pending Ctrl+C excludes, the history stays as it is
Restored(h) == {h} \cup IF cancel THEN {} ELSE {Replayed(h, Recent(Want))}

\* cli_history_clear (mutant: the old messages stay)
Uncleared(h) == h
Cleared(h)   == <<>>

Idle == pc = "idle" /\ UNCHANGED <<memVars, clock, pc, loopVars, failed>>

\* /clear
Clear == Idle /\ history' = Cleared(history) /\ UNCHANGED cancel

\* The liveness watch found the backend restarted
Rebind == Idle /\ history' \in Restored(Cleared(history)) /\ UNCHANGED cancel

-----------------------------------------------------------------------------
(* A chat turn *)

Push(b, m) == IF Len(b) < MaxMessages THEN Append(b, m) ELSE b
Chat(from, to) == pc = from /\ pc' = to

Sigint == cancel' = TRUE /\ UNCHANGED <<history, memVars, clock, pc, loopVars, failed>>

Enter ==
  /\ Chat("idle", "inject") /\ clock < MaxTurns
  /\ clock' = clock + 1 /\ cancel' = FALSE
  /\ UNCHANGED <<history, memVars, loopVars, failed>>

\* What mem_d has to tell about the line: nothing, or one message more
Memories == {<<>>} \cup IF cancel THEN {} ELSE {<<Msg("system")>>}

\* buf_build: the prompt, the memories, what was said and the line of this turn
Inject ==
  /\ Chat("inject", "llm")
  /\ \E memories \in Memories :
       buffer' = <<Msg("system")>> \o memories
                   \o [i \in DOMAIN history |-> Msg(history[i].role)] \o <<Msg("user")>>
  /\ rounds' = 0 /\ summary' = FALSE
  /\ UNCHANGED <<history, memVars, clock, cancel, todo, failed>>

\* What a failed turn leaves in the ring (mutant: its question)
Question(h) == Add(h, [role |-> "user", turn |-> clock])
Dropped(h)  == h

\* llm.complete fails, is canceled, or its answer cannot be used
LlmFails ==
  /\ Chat("llm", "idle")
  /\ buffer' = <<>> /\ failed' = failed \cup {clock} /\ history' = Dropped(history)
  /\ UNCHANGED <<memVars, clock, cancel, rounds, summary, todo>>

\* (mutant: one round too many)
RoundOver == rounds <= ToolRounds
RoundLeft == rounds < ToolRounds

\* The model asks for tools, and there is a round left for them
LlmAsks ==
  /\ Chat("llm", "tools") /\ ~cancel /\ ~summary /\ RoundLeft
  /\ \E n \in 1..MaxCalls : todo' = 1..n /\ buffer' = Push(buffer, Asks(n))
  /\ UNCHANGED <<history, memVars, clock, cancel, rounds, summary, failed>>

\* Or there is none: it is asked, without tools, to sum up
LlmSumsUp ==
  /\ Chat("llm", "llm") /\ ~cancel /\ ~summary /\ ~RoundLeft
  /\ summary' = TRUE /\ buffer' = Push(buffer, Msg("user"))
  /\ UNCHANGED <<history, memVars, clock, cancel, rounds, todo, failed>>

\* A text, or the summary whatever it holds
LlmAnswers ==
  /\ Chat("llm", "record") /\ ~cancel
  /\ UNCHANGED <<history, memVars, clock, cancel, loopVars, failed>>

\* One call of tool.execute: done, failed or canceled, it is answered
\* (mutant: what is left after Ctrl+C is not)
NotIfCanceled(k) == IF cancel THEN buffer ELSE Push(buffer, Answers(k))
Answered(k)      == Push(buffer, Answers(k))

\* (mutant: the rounds are not counted)
NotCounted(n) == n
Counted(n)    == n + 1

Tool ==
  /\ pc = "tools"
  /\ buffer' = Answered(Min(todo)) /\ todo' = todo \ {Min(todo)}
  /\ IF todo' = {} THEN pc' = "llm" /\ rounds' = Counted(rounds) ELSE UNCHANGED <<pc, rounds>>
  /\ UNCHANGED <<history, memVars, clock, cancel, summary, failed>>

\* cli_chat_mem_record: greetings and short answers are not kept, a long turn
\* is cut. The write may be lost, and may be stored after its caller left.
RecordTurn ==
  /\ Chat("record", "finalize")
  /\ \E form \in {"turn", "question"} : LET r == [form |-> form, turn |-> clock] IN
       \/ UNCHANGED memVars
       \/ records' = Append(records, r) /\ UNCHANGED unserved
       \/ unserved' = unserved \cup {r} /\ UNCHANGED records
  /\ UNCHANGED <<history, clock, cancel, loopVars, failed>>

\* chat_hist_flush, after the answer was shown
Finalize ==
  /\ Chat("finalize", "idle")
  /\ history' = Add(Add(history, [role |-> "user", turn |-> clock]),
                    [role |-> "assistant", turn |-> clock])
  /\ buffer' = <<>>
  /\ UNCHANGED <<memVars, clock, cancel, rounds, summary, todo, failed>>

-----------------------------------------------------------------------------
(* The process and its surroundings *)

\* The process ends or is killed; the next one may be told to resume
Restart ==
  /\ pc' = "idle" /\ cancel' = FALSE
  /\ history' \in {<<>>, Replayed(<<>>, Recent(Want))}
  /\ buffer' = <<>> /\ rounds' = 0 /\ summary' = FALSE /\ todo' = {}
  /\ UNCHANGED <<memVars, clock, failed>>

ServeLate == \E r \in unserved :
  /\ records' = Append(records, r) /\ unserved' = unserved \ {r}
  /\ UNCHANGED <<history, clock, cancel, pc, loopVars, failed>>

\* The other front end and the daemons write to mem_d as well. The chat knows
\* its turn by the clock, so they write between turns.
OthersWrite ==
  /\ pc = "idle" /\ clock < MaxTurns /\ clock' = clock + 1
  /\ \E form \in DOMAIN Roles : records' = Append(records, [form |-> form, turn |-> clock'])
  /\ UNCHANGED <<history, unserved, cancel, pc, loopVars, failed>>

Step == \/ Inject \/ LlmFails \/ LlmAsks \/ LlmSumsUp \/ LlmAnswers
        \/ Tool \/ RecordTurn \/ Finalize
Next == Clear \/ Rebind \/ Sigint \/ Enter \/ Step \/ Restart \/ ServeLate \/ OthersWrite

Spec == Init /\ [][Next]_vars
\* The chat runs on the main thread, and each of its calls ends (GwCall)
FairSpec == Spec /\ WF_vars(Step)

-----------------------------------------------------------------------------
\* Every request the model is sent answers each tool call of an assistant's
\* message, in order and at once, and nothing else is a tool's message: the
\* endpoints refuse any other. Also after Ctrl+C in the middle of a round.
RequestIsWellFormed == pc = "llm" =>
  \A i \in DOMAIN buffer :
    /\ \A k \in 1..buffer[i].calls : buffer[i].role = "assistant" =>
         i + k <= Len(buffer) /\ buffer[i + k] = Answers(k)
    /\ buffer[i].role = "tool" =>
         i > buffer[i].calls /\ \E n \in buffer[i].calls..MaxCalls :
                                  buffer[i - buffer[i].calls] = Asks(n)

\* A turn runs at most ToolRounds rounds of tools, and none after the model
\* was asked to sum up.
ToolRoundsBounded ==
  /\ Cardinality({i \in DOMAIN buffer : buffer[i].role = "assistant" /\ buffer[i].calls > 0})
       <= ToolRounds
  /\ pc = "tools" => ~summary

\* No message is in the history twice, however often the session was rebuilt
\* from the records of the turns it already showed.
NothingTwice == \A i, j \in DOMAIN history : history[i] = history[j] => i = j

\* A turn that failed or was canceled leaves no message in the history and no
\* record in mem_d, also when a later restart rebuilds the one from the other.
FailedLeavesNoTrace ==
  /\ \A m \in Range(history) : m.turn \notin failed
  /\ \A r \in unserved \cup Range(records) : r.turn \notin failed

\* All that some records say, in their order
Spoken(rs) == FlattenSeq([i \in DOMAIN rs |-> MessagesOf(rs[i])])

\* A rebuilt session is empty or every message of the newest records in their
\* order: the ring never evicts while it is filled (cli_chat_session.c:29-30).
RebuiltIsWhole == [][
  Rebind \/ Restart => history' \in {<<>>, Spoken(Recent(Capacity \div 2))}]_vars

\* Every chat ends, however many tools the model asks for.
ChatEnds == pc # "idle" ~> pc = "idle"

\* Documented by cli_chat_history.c:8 (a full ring drops the oldest round,
\* question and answer as a pair): no question is dropped while the answer to
\* it stays.
DropsPairs == [][
  Finalize => \A i, j \in DOMAIN history :
    history[i].role = "user" /\ history[j] = [role |-> "assistant", turn |-> history[i].turn]
      => (history[j] \in Range(history') => history[i] \in Range(history'))]_vars

\* Documented by cli_chat_session.c:158-159 (memory still holds the complete
\* records): a session rebuilt in a running process shows the turns it had.
SessionSurvives == [][
  Rebind => {m.turn : m \in Range(history)}
              \subseteq {m.turn : m \in Range(history')}]_vars

\* Documented by airy_cli_cmdline.c:21 (/clear empties the context of the
\* conversation): what was cleared does not come back by itself.
EmptyStaysEmpty == [][Rebind /\ history = <<>> => history' = <<>>]_vars
=============================================================================
