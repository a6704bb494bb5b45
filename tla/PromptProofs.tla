----------------------------- MODULE PromptProofs -----------------------------
(* What the prompt promises. The main loop (Repl), for every table of        *)
(* commands, every length of a session and every use of llm_d by others: the *)
(* exit status tells of a failed turn, and the account under a turn is of    *)
(* this session. The keys that it reads (KeyReader), for every choice of     *)
(* what the terminal sends and any number of keys: what is reported is what  *)
(* was sent. Each key has a course through the sequences (Course); that the  *)
(* tables take the reader along it is proved key by key, and the invariant   *)
(* says that the bytes still to come are the rest of such a course.          *)
EXTENDS Repl, KeyReader, SequenceTheorems, WellFoundedInduction, TLAPS

-----------------------------------------------------------------------------
(* The main loop *)


\* The types of the flags, and those of the numbers
Flags ==
  /\ consumed \in BOOLEAN /\ cancel \in BOOLEAN /\ tui \in BOOLEAN /\ failed \in BOOLEAN
  /\ pressed \in BOOLEAN /\ refused \in BOOLEAN /\ (tui => pc = "read" /\ ~Batch)
Numbers ==
  /\ mode \in {"prompt", "stream", "tty"} /\ n \in 0..MaxLines
  /\ pc \in {"read", "tui", "call", "lang", "route", "class", "chat", "task", "account", "gone"}
  /\ exit \in -1..1 /\ bad \subseteq 1..MaxLines /\ unmet \subseteq 1..MaxLines
  /\ counted \in Nat /\ own \in Nat /\ shown \in Nat /\ spent \in Nat /\ base \subseteq Nat
  /\ pc \notin {"read", "tui", "gone"} => n > 0

\* The flag remembers the turns that returned a failure, and the status is the flag's
StatusIsFlag ==
  /\ failed <=> bad # {}
  /\ exit # -1 => pc = "gone" /\ exit = IF Batch /\ bad # {} THEN 1 ELSE 0

\* The session starts to count at one point after the process did, and the
\* counters of a chat hold no more than was counted since
CountedHere ==
  /\ counted >= Earlier /\ own <= counted - Earlier /\ shown <= counted - Earlier
  /\ base = {} \/ \E b \in Earlier..counted : base = {b}

IInv == Flags /\ Numbers /\ StatusIsFlag /\ CountedHere

-----------------------------------------------------------------------------
\* What was counted since stays at least as much when the count grows.
LEMMA SinceGrows ==
  ASSUME NEW e \in Nat, NEW c \in Nat, NEW d \in Nat, NEW x \in Nat, e <= c, c <= d, x <= c - e
  PROVE  e <= d /\ x <= d - e
  OBVIOUS

\* The only point of a set of one is its least.
LEMMA MinOfOne == ASSUME NEW b \in Nat PROVE Min({b}) = b
<1>1. \A x \in {b} : (\A y \in {b} : x <= y) <=> x = b
  OBVIOUS
<1> QED BY <1>1 DEF Min

\* What the account under a turn does to its starting point and to what is shown.
LEMMA AccountFacts ==
  ASSUME Numbers, CountedHere, Account
  PROVE  /\ base' = {} \/ \E b \in Earlier..counted : base' = {b}
         /\ shown' \in Nat /\ shown' <= counted - Earlier
<1> USE ReplAssumption DEF Numbers, CountedHere
<1>1. CASE Served /\ base' = (IF base = {} THEN First ELSE base) /\ shown' = counted - Min(base')
  <2>1. PICK b \in Earlier..counted : base' = {b}
    BY <1>1 DEF First
  <2>2. b \in Nat /\ counted - b \in Nat /\ counted - b <= counted - Earlier
    OBVIOUS
  <2>3. shown' = counted - b
    BY <1>1, <2>1, <2>2, MinOfOne
  <2> QED BY <2>1, <2>2, <2>3
<1>2. CASE Lost /\ shown' = own /\ UNCHANGED base
  BY <1>2
<1> QED BY <1>1, <1>2 DEF Account

\* The flags stay flags.
LEMMA FlagsStep == Flags /\ Numbers /\ [Next]_vars => Flags'
<1> SUFFICES ASSUME Flags, Numbers, [Next]_vars PROVE Flags'
  OBVIOUS
<1> USE DEF Flags, vars, missed, account, input, Batch, Goto, Take, Argument, StreamOrKey, Once, Reading,
    Served, Lost
<1>1. CASE EndOfInput
  BY <1>1 DEF EndOfInput, Leave
<1>2. CASE Bye
  BY <1>2 DEF Bye, Leave
<1>3. CASE Stays
  BY <1>3 DEF Stays
<1>4. CASE Turn
  BY <1>4 DEF Turn
<1>5. CASE SwitchTui
  BY <1>5 DEF SwitchTui
<1>6. CASE TuiEnds
  BY <1>6 DEF TuiEnds
<1>7. CASE Call
  BY <1>7 DEF Call
<1>8. CASE Language
  BY <1>8 DEF Language
<1>9. CASE Blueprint
  BY <1>9 DEF Blueprint
<1>10. CASE Miss
  BY <1>10 DEF Miss
<1>11. CASE Classify
  BY <1>11 DEF Classify
<1>12. CASE ChatRound
  BY <1>12 DEF ChatRound
<1>13. CASE TaskFails
  BY <1>13 DEF TaskFails, Returns, Misses, Noted
<1>14. ASSUME NEW ok \in BOOLEAN, TaskEnds(ok) PROVE Flags'
  BY <1>14 DEF TaskEnds, Returns, Noted
<1>15. CASE Account
  BY <1>15 DEF Account
<1>16. ASSUME NEW token \in Typed, NEW args \in BOOLEAN, Command(token, args) PROVE Flags'
  <2>1. UNCHANGED <<cancel, failed, refused>> /\ pressed' = FALSE /\ pc = "read" /\ ~tui
    BY <1>16 DEF Command, Leave
  <2>2. consumed' \in BOOLEAN /\ mode' = mode
    BY <1>16 DEF Command
  <2>3. tui' = FALSE \/ (tui' = ~Batch /\ pc' = pc)
    BY <1>16 DEF Command, Leave, HasView
  <2> QED BY <2>1, <2>2, <2>3
<1>17. ASSUME NEW ok \in BOOLEAN, ChatEnds(ok) PROVE Flags'
  BY <1>17 DEF ChatEnds, Returns, Misses, Noted
<1>18. CASE Sigint
  BY <1>18 DEF Sigint
<1>19. CASE OthersSpend
  BY <1>19 DEF OthersSpend
<1>20. CASE UNCHANGED vars
  BY <1>20
<1> QED BY <1>1, <1>2, <1>3, <1>4, <1>5, <1>6, <1>7, <1>8, <1>9, <1>10, <1>11, <1>12, <1>13, <1>14, <1>15, <1>16, <1>17, <1>18, <1>19, <1>20
        DEF Next, LoopStep

\* The numbers stay in their ranges.
LEMMA NumbersStep == Numbers /\ CountedHere /\ [Next]_vars => Numbers'
<1> SUFFICES ASSUME Numbers, CountedHere, [Next]_vars PROVE Numbers'
  OBVIOUS
<1> USE ReplAssumption DEF Numbers, vars, missed, account, input, Goto, Take, Argument, StreamOrKey, Spend
<1>1. CASE EndOfInput
  BY <1>1 DEF EndOfInput, Leave
<1>2. CASE Bye
  BY <1>2 DEF Bye, Leave
<1>3. CASE Stays
  BY <1>3 DEF Stays
<1>4. CASE Turn
  BY <1>4 DEF Turn
<1>5. CASE SwitchTui
  BY <1>5 DEF SwitchTui
<1>6. CASE TuiEnds
  BY <1>6 DEF TuiEnds
<1>7. CASE Call
  BY <1>7 DEF Call
<1>8. CASE Language
  BY <1>8 DEF Language
<1>9. CASE Blueprint
  BY <1>9 DEF Blueprint
<1>10. CASE Miss
  BY <1>10 DEF Miss
<1>11. CASE Classify
  BY <1>11 DEF Classify
<1>12. CASE ChatRound
  BY <1>12 DEF ChatRound
<1>13. CASE TaskFails
  <2>1. bad' = bad \cup {n}
    BY <1>13 DEF TaskFails, Misses
  <2>2. bad' \subseteq 1..MaxLines
    BY <1>13, <2>1 DEF TaskFails
  <2> QED BY <1>13, <2>2 DEF TaskFails, Misses
<1>14. ASSUME NEW ok \in BOOLEAN, TaskEnds(ok) PROVE Numbers'
  BY <1>14 DEF TaskEnds, Returns, Noted
<1>15. CASE Account
  <2>1. shown' \in Nat
    BY <1>15, AccountFacts
  <2>2. base' \subseteq Nat
    BY <1>15 DEF Account, First
  <2> QED BY <1>15, <2>1, <2>2 DEF Account
<1>16. ASSUME NEW token \in Typed, NEW args \in BOOLEAN, Command(token, args) PROVE Numbers'
  <2>1. n' \in 1..MaxLines /\ mode' = mode
    BY <1>16 DEF Command
  <2>2. UNCHANGED <<counted, base, own, shown, spent, bad, unmet>>
    BY <1>16 DEF Command, Leave
  <2>3. exit' \in -1..1 /\ pc' \in {"read", "call", "gone"}
    BY <1>16 DEF Command, Leave, Reading
  <2> QED BY <2>1, <2>2, <2>3
<1>17. ASSUME NEW ok \in BOOLEAN, ChatEnds(ok) PROVE Numbers'
  <2>1. bad' \subseteq bad \cup {n}
    BY <1>17 DEF ChatEnds, Misses
  <2>2. bad' \subseteq 1..MaxLines
    BY <1>17, <2>1 DEF ChatEnds
  <2>3. own' \in Nat
    BY <1>17 DEF ChatEnds
  <2>4. UNCHANGED <<mode, n, exit, counted, base, shown, spent>> /\ pc = "chat" /\ pc' = "account"
    BY <1>17 DEF ChatEnds
  <2>5. unmet' = unmet
    BY <1>17 DEF ChatEnds, Misses
  <2> QED BY <2>2, <2>3, <2>4, <2>5
<1>18. CASE Sigint
  BY <1>18 DEF Sigint
<1>19. CASE OthersSpend
  BY <1>19 DEF OthersSpend
<1>20. CASE UNCHANGED vars
  BY <1>20
<1> QED BY <1>1, <1>2, <1>3, <1>4, <1>5, <1>6, <1>7, <1>8, <1>9, <1>10, <1>11, <1>12, <1>13, <1>14, <1>15, <1>16, <1>17, <1>18, <1>19, <1>20
        DEF Next, LoopStep

\* The flag is set where a turn is noted, and read where the loop is left.
LEMMA StatusStep == Flags /\ StatusIsFlag /\ [Next]_vars => StatusIsFlag'
<1> SUFFICES ASSUME Flags, StatusIsFlag, [Next]_vars PROVE StatusIsFlag'
  OBVIOUS
<1> USE DEF Flags, StatusIsFlag, vars, missed, account, input, Batch, Goto, Take, Argument, StreamOrKey, Reading
<1>1. CASE EndOfInput
  BY <1>1 DEF EndOfInput, Leave
<1>2. CASE Bye
  BY <1>2 DEF Bye, Leave
<1>3. CASE Stays \/ Turn \/ SwitchTui \/ TuiEnds
  BY <1>3 DEF Stays, Turn, SwitchTui, TuiEnds
<1>4. CASE Call \/ Language \/ Miss \/ Blueprint \/ Classify \/ ChatRound \/ Account
  BY <1>4 DEF Call, Language, Miss, Blueprint, Classify, ChatRound, Account
<1>5. CASE TaskFails
  BY <1>5 DEF TaskFails, Returns, Misses, Noted
<1>6. ASSUME NEW ok \in BOOLEAN, TaskEnds(ok) PROVE StatusIsFlag'
  BY <1>6 DEF TaskEnds, Returns, Noted
<1>7. ASSUME NEW token \in Typed, NEW args \in BOOLEAN, Command(token, args) PROVE StatusIsFlag'
  BY <1>7 DEF Command, Leave
<1>8. ASSUME NEW ok \in BOOLEAN, ChatEnds(ok) PROVE StatusIsFlag'
  BY <1>8 DEF ChatEnds, Returns, Misses, Noted
<1>9. CASE Sigint \/ OthersSpend \/ UNCHANGED vars
  BY <1>9 DEF Sigint, OthersSpend
<1> QED BY <1>1, <1>2, <1>3, <1>4, <1>5, <1>6, <1>7, <1>8, <1>9 DEF Next, LoopStep

\* Nothing is counted back, and the point of the session stays.
LEMMA CountedStep == Numbers /\ CountedHere /\ [Next]_vars => CountedHere'
<1> SUFFICES ASSUME Numbers, CountedHere, [Next]_vars PROVE CountedHere'
  OBVIOUS
<1>1. CASE Account
  <2>1. UNCHANGED <<counted, own>>
    BY <1>1 DEF Account
  <2> QED BY <1>1, <2>1, AccountFacts DEF CountedHere
<1>2. CASE ~Account
  <2> DEFINE Grows == /\ UNCHANGED <<base, shown>>
                      /\ \/ UNCHANGED counted /\ (own' = own \/ own' = 0)
                         \/ \E k \in 0..1 : counted' = counted + k /\ (own' = own \/ own' = 0)
                         \/ counted' = counted + 1 /\ own' = own + 1
                         \/ counted' = counted + 1 /\ own' = own
  <2>1. Grows
    <3> USE DEF vars, missed, account, Spend, Leave
    <3>1. CASE EndOfInput
      BY <3>1 DEF EndOfInput
    <3>2. CASE Bye
      BY <3>2 DEF Bye
    <3>3. CASE Stays
      BY <3>3 DEF Stays
    <3>4. CASE Turn
      BY <3>4 DEF Turn
    <3>5. CASE SwitchTui
      BY <3>5 DEF SwitchTui
    <3>6. CASE TuiEnds
      BY <3>6 DEF TuiEnds
    <3>7. CASE Call
      BY <3>7 DEF Call
    <3>8. CASE Language
      BY <3>8 DEF Language
    <3>9. CASE Blueprint
      BY <3>9 DEF Blueprint
    <3>10. CASE Miss
      BY <3>10 DEF Miss
    <3>11. CASE Classify
      BY <3>11 DEF Classify
    <3>12. CASE ChatRound
      BY <3>12 DEF ChatRound
    <3>13. CASE TaskFails
      BY <3>13 DEF TaskFails
    <3>14. ASSUME NEW ok \in BOOLEAN, TaskEnds(ok) PROVE Grows
      BY <3>14 DEF TaskEnds
    <3>15. ASSUME NEW token \in Typed, NEW args \in BOOLEAN, Command(token, args)
          PROVE  Grows
      BY <3>15 DEF Command
    <3>16. ASSUME NEW ok \in BOOLEAN, ChatEnds(ok)
          PROVE  Grows
      BY <3>16 DEF ChatEnds
    <3>17. CASE Sigint
      BY <3>17 DEF Sigint
    <3>18. CASE OthersSpend
      BY <3>18 DEF OthersSpend
    <3>19. CASE UNCHANGED vars
      BY <3>19
    <3> QED BY <1>2, <3>1, <3>2, <3>3, <3>4, <3>5, <3>6, <3>7, <3>8, <3>9, <3>10, <3>11, <3>12, <3>13, <3>14, <3>15, <3>16, <3>17, <3>18, <3>19
            DEF Next, LoopStep
  <2>2. /\ base' = base /\ shown' = shown /\ counted' \in Nat /\ counted <= counted'
        /\ \/ own' = own \/ own' = 0
           \/ own' = own + 1 /\ counted' = counted + 1
    BY <2>1 DEF Numbers
  <2> HIDE DEF Grows
  <2>3. base' = {} \/ \E b \in Earlier..counted' : base' = {b}
    <3>1. \A b \in Earlier..counted : b \in Earlier..counted'
      BY <2>2, ReplAssumption DEF Numbers
    <3> QED BY <2>2, <3>1 DEF CountedHere
  <2>4. /\ counted \in Nat /\ own \in Nat /\ shown \in Nat /\ Earlier \in Nat
        /\ Earlier <= counted /\ own <= counted - Earlier /\ shown <= counted - Earlier
    BY ReplAssumption DEF Numbers, CountedHere
  <2>5. Earlier <= counted' /\ shown' <= counted' - Earlier
    <3>1. Earlier <= counted /\ counted <= counted' /\ counted' \in Nat
      BY <2>2, <2>4
    <3>2. Earlier <= counted' /\ shown <= counted' - Earlier
      BY <2>4, <3>1, SinceGrows
    <3> QED BY <2>2, <3>2
  <2>6. own' <= counted' - Earlier
    <3>1. CASE own' = own
      <4>1. Earlier <= counted /\ counted <= counted' /\ counted' \in Nat
        BY <2>2, <2>4
      <4>2. own <= counted' - Earlier
        BY <2>4, <4>1, SinceGrows
      <4> QED BY <3>1, <4>2
    <3>2. CASE own' = 0
      <4>1. Earlier <= counted /\ counted <= counted' /\ counted' \in Nat /\ 0 <= counted - Earlier
        BY <2>2, <2>4
      <4>2. 0 <= counted' - Earlier
        BY <2>4, <4>1, SinceGrows
      <4> QED BY <3>2, <4>2
    <3>3. CASE own' = own + 1 /\ counted' = counted + 1
      BY <2>4, <3>3
    <3> QED BY <2>2, <3>1, <3>2, <3>3
  <2> QED BY <2>3, <2>5, <2>6 DEF CountedHere
<1> QED BY <1>1, <1>2

LEMMA InitIInv == Init => IInv
<1> SUFFICES ASSUME Init PROVE IInv
  OBVIOUS
<1>1. Flags
  BY DEF Init, Flags
<1>2. Numbers
  BY ReplAssumption DEF Init, Numbers
<1>3. StatusIsFlag
  BY DEF Init, StatusIsFlag
<1>4. CountedHere
  BY ReplAssumption DEF Init, CountedHere
<1> QED BY <1>1, <1>2, <1>3, <1>4 DEF IInv

-----------------------------------------------------------------------------
\* The flag, the status and the account agree with the turns in every
\* behaviour of the loop.
THEOREM Inductive == Spec => []IInv
<1>1. IInv /\ [Next]_vars => IInv'
  BY FlagsStep, NumbersStep, StatusStep, CountedStep DEF IInv
<1> QED BY InitIInv, <1>1, PTL DEF Spec

\* Every variable of the loop keeps its type.
THEOREM TypeCorrect == Spec => []TypeOK
<1>1. IInv => TypeOK
  BY DEF IInv, Flags, Numbers, TypeOK
<1> QED BY Inductive, <1>1, PTL

\* However many turns and commands there were, the status of a batch tells
\* whether a chat failed or a task was not planned or not taken (main.c).
THEOREM StatusIsTrue == Spec => []StatusTellsFailure
<1>1. IInv => StatusTellsFailure
  BY DEF IInv, StatusIsFlag, StatusTellsFailure
<1> QED BY Inductive, <1>1, PTL

\* Whoever else uses llm_d, and however often its statistics cannot be had,
\* nothing from before the session is shown (cli_chat_usage.c).
THEOREM AccountIsOfSession == Spec => []ShownIsOfThisSession
<1>1. IInv => ShownIsOfThisSession
  BY DEF IInv, CountedHere, ShownIsOfThisSession
<1> QED BY Inductive, <1>1, PTL

-----------------------------------------------------------------------------
(* Key reading: the course of each key through the sequences *)

\* What xterm sends, but for the keys the code does not know (F5 and others)
Known      == DOMAIN Terminal \ {"f5"}
BytesOf(e) == Terminal[e].bytes
KeysOf(e)  == Terminal[e].keys

\* Where the reader stands before the first byte, after it, and so on
Course ==
  [char   |-> <<"ground", "ground">>,
   wide   |-> <<"ground", "ground", "ground">>,
   nul    |-> <<"ground", "out">>,
   esc    |-> <<"ground", "esc">>,
   altB   |-> <<"ground", "esc", "ground">>,
   up     |-> <<"ground", "esc", "csi", "ground">>,
   home   |-> <<"ground", "esc", "csi", "ground">>,
   upApp  |-> <<"ground", "esc", "ss3", "ground">>,
   del    |-> <<"ground", "esc", "csi", "three", "ground">>,
   pgup   |-> <<"ground", "esc", "csi", "five", "ground">>,
   pgdn   |-> <<"ground", "esc", "csi", "six", "ground">>,
   ctrlD  |-> <<"ground", "esc", "csi", "one", "mod", "ctrl", "ground">>,
   altC   |-> <<"ground", "esc", "csi", "one", "mod", "alt", "ground">>,
   shiftC |-> <<"ground", "esc", "csi", "one", "mod", "other", "ground">>,
   f9     |-> <<"ground", "esc", "csi", "two", "two0", "ground">>,
   f10    |-> <<"ground", "esc", "csi", "two", "two1", "ground">>,
   paste  |-> <<"ground", "esc", "csi", "two", "two0", "two00", "ground">>,
   colour |-> <<"ground", "esc", "str", "str", "ground">>,
   status |-> <<"ground", "esc", "str", "str", "strEsc", "ground">>,
   cut    |-> <<"ground", "esc", "str", "str", "str">>]

At(e, j) == Course[e][j + 1]

\* How many of a key's codes are reported after j bytes
Reported(e, j) == IF j = 0 \/ At(e, j) \notin {"ground", "out"} THEN 0
                  ELSE IF e = "wide" THEN j ELSE 1
KeyAt(e, j) == IF Reported(e, j) = Reported(e, j - 1) THEN "none"
               ELSE KeysOf(e)[Reported(e, j)]

\* The reader at s takes the byte b to t, and reports key
Leads(s, b, t, key) ==
  \/ s = "ground" /\ b = "ESC" /\ t = "esc" /\ key = "none"
  \/ s = "ground" /\ b = "NUL" /\ t = "out" /\ key = "EOF"
  \/ s = "ground" /\ b \notin {"ESC", "NUL"} /\ t = "ground" /\ key = b /\ key # "none"
  \/ s \in InSeq /\ Reached(s, b) = t /\ t \in InSeq \cup {"str"} /\ key = "none"
  \/ s \in InSeq /\ Reached(s, b) = key /\ key \notin States /\ key # "none" /\ t = "ground"
  \/ s = "str" /\ b = "ESC" /\ t = "strEsc" /\ key = "none"
  \/ s = "str" /\ b = "BEL" /\ t = "ground" /\ key = "UNKNOWN"
  \/ s = "str" /\ b \notin {"ESC", "BEL"} /\ t = "str" /\ key = "none"
  \/ s = "strEsc" /\ b = "bslash" /\ t = "ground" /\ key = "UNKNOWN"
Follows(e, j) ==
  /\ Leads(At(e, j - 1), BytesOf(e)[j], At(e, j), KeyAt(e, j))
  /\ Reported(e, j) \in {Reported(e, j - 1), Reported(e, j - 1) + 1}
  /\ Reported(e, j) \in 0..Len(KeysOf(e))
  /\ Reported(e, j) # Reported(e, j - 1) => KeyAt(e, j) # "none"
  /\ At(e, j - 1) = "str" => j <= 4
  /\ At(e, j) \in InStr => j >= 2

\* At the end of a key the reader is at rest, or a limit brings the last code
Settles(e, j) ==
  LET s == At(e, j)
  IN \/ s \in {"ground", "out"} /\ Reported(e, j) = Len(KeysOf(e))
     \/ s = "esc" /\ Reported(e, j) = 0 /\ Len(KeysOf(e)) = 1 /\ KeysOf(e)[1] = "ESC"
     \/ s = "str" /\ Reported(e, j) = 0 /\ Len(KeysOf(e)) = 1 /\ KeysOf(e)[1] = "UNKNOWN"

\* L is the number of its bytes
Runs(e, L) ==
  /\ L \in Nat \ {0} /\ Len(BytesOf(e)) = L
  /\ BytesOf(e) \in Seq(KeyBytes) /\ KeysOf(e) \in Seq(Codes)
  /\ At(e, 0) = "ground" /\ Reported(e, 0) = 0
  /\ \A j \in 1..L : Follows(e, j)
  /\ Settles(e, L)

\* tui_esc_alt and the dispatch after ESC
LEMMA EscapeIs ==
  /\ Escape("[") = "csi" /\ Escape("O") = "ss3" /\ Escape("]") = "str" /\ Escape("b") = "ALT_B"
  /\ \A b : Reached("esc", b) = Escape(b)
BY Zenon DEF Escape, Reached

\* tui_esc_simple and tui_esc_bracket
LEMMA BracketIs ==
  /\ Bracket("A") = "UP" /\ Bracket("H") = "HOME" /\ Bracket("1") = "one" /\ Bracket("2") = "two"
  /\ Bracket("3") = "three" /\ Bracket("5") = "five" /\ Bracket("6") = "six"
  /\ \A b : Reached("csi", b) = Bracket(b)
BY Zenon DEF Bracket, Arrows, Reached

\* tui_esc_ss3
LEMMA ArrowsIs == Reached("ss3", "A") = "UP"
BY Zenon DEF Reached, Arrows

\* tui_esc_mod and its table
LEMMA ModifiedIs ==
  /\ Reached("one", "semi") = "mod"
  /\ Reached("mod", "5") = "ctrl" /\ Reached("mod", "3") = "alt" /\ Reached("mod", "2") = "other"
  /\ Reached("ctrl", "D") = "CTRL_LEFT" /\ Reached("alt", "C") = "ALT_RIGHT"
  /\ Reached("other", "C") = "UNKNOWN"
BY Zenon DEF Reached, Modifier, Sideways

\* tui_esc_two
LEMMA TwoIs ==
  /\ Reached("two", "0") = "two0" /\ Reached("two", "1") = "two1"
  /\ Reached("two0", "~") = "F9" /\ Reached("two0", "0") = "two00"
  /\ Reached("two1", "~") = "F10" /\ Reached("two00", "~") = "PASTE_START"
BY Zenon DEF Reached, Two, TwoZero, Tilde

\* tui_esc_three, tui_esc_five and tui_esc_six
LEMMA TildesAre ==
  /\ Reached("three", "~") = "DEL" /\ Reached("five", "~") = "PGUP" /\ Reached("six", "~") = "PGDN"
BY Zenon DEF Reached, Tilde

-----------------------------------------------------------------------------
(* Key reading: each key's bytes, codes and states, its course, byte by byte *)

LEMMA CharCourse == Runs("char", 1)
<1>1. BytesOf("char") = <<"a">> /\ KeysOf("char") = <<"a">>
  BY DEF BytesOf, KeysOf, Terminal
<1>2. Len(BytesOf("char")) = 1 /\ Len(KeysOf("char")) = 1
  BY <1>1
<1>3. BytesOf("char")[1] = "a" /\ KeysOf("char")[1] = "a"
  BY <1>1
<1>4. Course["char"] = <<"ground", "ground">>
  BY DEF Course
<1>5. At("char", 0) = "ground" /\ At("char", 1) = "ground"
  BY <1>4 DEF At
<1>6. Reported("char", 0) = 0 /\ Reported("char", 1) = 1
  BY <1>5 DEF Reported
<1>7. KeyAt("char", 1) = "a"
  BY <1>3, <1>6 DEF KeyAt
<1>8. Follows("char", 1)
  BY <1>2, <1>3, <1>5, <1>6, <1>7 DEF Follows, Leads, InSeq, InStr, States
<1>9. \A j \in 1..1 : Follows("char", j)
  BY <1>8
<1>10. Settles("char", 1)
  BY <1>2, <1>3, <1>5, <1>6 DEF Settles
<1>11. <<"a">> \in Seq(KeyBytes) /\ <<"a">> \in Seq(Codes)
  BY DEF KeyBytes, Codes
<1>12. BytesOf("char") \in Seq(KeyBytes) /\ KeysOf("char") \in Seq(Codes)
  BY <1>1, <1>11
<1>13. QED BY <1>2, <1>5, <1>6, <1>9, <1>10, <1>12 DEF Runs

LEMMA WideCourse == Runs("wide", 2)
<1>1. BytesOf("wide") = <<"L", "C">> /\ KeysOf("wide") = <<"L", "C">>
  BY DEF BytesOf, KeysOf, Terminal
<1>2. Len(BytesOf("wide")) = 2 /\ Len(KeysOf("wide")) = 2
  BY <1>1
<1>3. /\ BytesOf("wide")[1] = "L" /\ BytesOf("wide")[2] = "C" /\ KeysOf("wide")[1] = "L"
      /\ KeysOf("wide")[2] = "C"
  BY <1>1
<1>4. Course["wide"] = <<"ground", "ground", "ground">>
  BY DEF Course
<1>5. At("wide", 0) = "ground" /\ At("wide", 1) = "ground" /\ At("wide", 2) = "ground"
  BY <1>4 DEF At
<1>6. Reported("wide", 0) = 0 /\ Reported("wide", 1) = 1 /\ Reported("wide", 2) = 2
  BY <1>5 DEF Reported
<1>7. KeyAt("wide", 1) = "L" /\ KeyAt("wide", 2) = "C"
  BY <1>3, <1>6 DEF KeyAt
<1>8. Follows("wide", 1)
  BY <1>2, <1>3, <1>5, <1>6, <1>7 DEF Follows, Leads, InSeq, InStr, States
<1>9. Follows("wide", 2)
  BY <1>2, <1>3, <1>5, <1>6, <1>7 DEF Follows, Leads, InSeq, InStr, States
<1>10. \A j \in 1..2 : Follows("wide", j)
  BY <1>8, <1>9
<1>11. Settles("wide", 2)
  BY <1>2, <1>3, <1>5, <1>6 DEF Settles
<1>12. <<"L", "C">> \in Seq(KeyBytes) /\ <<"L", "C">> \in Seq(Codes)
  BY DEF KeyBytes, Codes
<1>13. BytesOf("wide") \in Seq(KeyBytes) /\ KeysOf("wide") \in Seq(Codes)
  BY <1>1, <1>12
<1>14. QED BY <1>2, <1>5, <1>6, <1>10, <1>11, <1>13 DEF Runs

LEMMA NulCourse == Runs("nul", 1)
<1>1. BytesOf("nul") = <<"NUL">> /\ KeysOf("nul") = <<"EOF">>
  BY DEF BytesOf, KeysOf, Terminal
<1>2. Len(BytesOf("nul")) = 1 /\ Len(KeysOf("nul")) = 1
  BY <1>1
<1>3. BytesOf("nul")[1] = "NUL" /\ KeysOf("nul")[1] = "EOF"
  BY <1>1
<1>4. Course["nul"] = <<"ground", "out">>
  BY DEF Course
<1>5. At("nul", 0) = "ground" /\ At("nul", 1) = "out"
  BY <1>4 DEF At
<1>6. Reported("nul", 0) = 0 /\ Reported("nul", 1) = 1
  BY <1>5 DEF Reported
<1>7. KeyAt("nul", 1) = "EOF"
  BY <1>3, <1>6 DEF KeyAt
<1>8. Follows("nul", 1)
  BY <1>2, <1>3, <1>5, <1>6, <1>7 DEF Follows, Leads, InSeq, InStr, States
<1>9. \A j \in 1..1 : Follows("nul", j)
  BY <1>8
<1>10. Settles("nul", 1)
  BY <1>2, <1>3, <1>5, <1>6 DEF Settles
<1>11. <<"NUL">> \in Seq(KeyBytes) /\ <<"EOF">> \in Seq(Codes)
  BY DEF KeyBytes, Codes
<1>12. BytesOf("nul") \in Seq(KeyBytes) /\ KeysOf("nul") \in Seq(Codes)
  BY <1>1, <1>11
<1>13. QED BY <1>2, <1>5, <1>6, <1>9, <1>10, <1>12 DEF Runs

LEMMA EscCourse == Runs("esc", 1)
<1>1. BytesOf("esc") = <<"ESC">> /\ KeysOf("esc") = <<"ESC">>
  BY DEF BytesOf, KeysOf, Terminal
<1>2. Len(BytesOf("esc")) = 1 /\ Len(KeysOf("esc")) = 1
  BY <1>1
<1>3. BytesOf("esc")[1] = "ESC" /\ KeysOf("esc")[1] = "ESC"
  BY <1>1
<1>4. Course["esc"] = <<"ground", "esc">>
  BY DEF Course
<1>5. At("esc", 0) = "ground" /\ At("esc", 1) = "esc"
  BY <1>4 DEF At
<1>6. Reported("esc", 0) = 0 /\ Reported("esc", 1) = 0
  BY <1>5 DEF Reported
<1>7. KeyAt("esc", 1) = "none"
  BY <1>3, <1>6 DEF KeyAt
<1>8. Follows("esc", 1)
  BY <1>2, <1>3, <1>5, <1>6, <1>7 DEF Follows, Leads, InSeq, InStr, States
<1>9. \A j \in 1..1 : Follows("esc", j)
  BY <1>8
<1>10. Settles("esc", 1)
  BY <1>2, <1>3, <1>5, <1>6 DEF Settles
<1>11. <<"ESC">> \in Seq(KeyBytes) /\ <<"ESC">> \in Seq(Codes)
  BY DEF KeyBytes, Codes
<1>12. BytesOf("esc") \in Seq(KeyBytes) /\ KeysOf("esc") \in Seq(Codes)
  BY <1>1, <1>11
<1>13. QED BY <1>2, <1>5, <1>6, <1>9, <1>10, <1>12 DEF Runs

LEMMA AltBCourse == Runs("altB", 2)
<1>1. BytesOf("altB") = <<"ESC", "b">> /\ KeysOf("altB") = <<"ALT_B">>
  BY DEF BytesOf, KeysOf, Terminal
<1>2. Len(BytesOf("altB")) = 2 /\ Len(KeysOf("altB")) = 1
  BY <1>1
<1>3. BytesOf("altB")[1] = "ESC" /\ BytesOf("altB")[2] = "b" /\ KeysOf("altB")[1] = "ALT_B"
  BY <1>1
<1>4. Course["altB"] = <<"ground", "esc", "ground">>
  BY DEF Course
<1>5. At("altB", 0) = "ground" /\ At("altB", 1) = "esc" /\ At("altB", 2) = "ground"
  BY <1>4 DEF At
<1>6. Reported("altB", 0) = 0 /\ Reported("altB", 1) = 0 /\ Reported("altB", 2) = 1
  BY <1>5 DEF Reported
<1>7. KeyAt("altB", 1) = "none" /\ KeyAt("altB", 2) = "ALT_B"
  BY <1>3, <1>6 DEF KeyAt
<1>8. Follows("altB", 1)
  BY <1>2, <1>3, <1>5, <1>6, <1>7 DEF Follows, Leads, InSeq, InStr, States
<1>9. Follows("altB", 2)
  BY <1>2, <1>3, <1>5, <1>6, <1>7, EscapeIs DEF Follows, Leads, InSeq, InStr, States
<1>10. \A j \in 1..2 : Follows("altB", j)
  BY <1>8, <1>9
<1>11. Settles("altB", 2)
  BY <1>2, <1>3, <1>5, <1>6 DEF Settles
<1>12. <<"ESC", "b">> \in Seq(KeyBytes) /\ <<"ALT_B">> \in Seq(Codes)
  BY DEF KeyBytes, Codes
<1>13. BytesOf("altB") \in Seq(KeyBytes) /\ KeysOf("altB") \in Seq(Codes)
  BY <1>1, <1>12
<1>14. QED BY <1>2, <1>5, <1>6, <1>10, <1>11, <1>13 DEF Runs

LEMMA UpCourse == Runs("up", 3)
<1>1. BytesOf("up") = <<"ESC", "[", "A">> /\ KeysOf("up") = <<"UP">>
  BY DEF BytesOf, KeysOf, Terminal, Arrow
<1>2. Len(BytesOf("up")) = 3 /\ Len(KeysOf("up")) = 1
  BY <1>1
<1>3. /\ BytesOf("up")[1] = "ESC" /\ BytesOf("up")[2] = "[" /\ BytesOf("up")[3] = "A"
      /\ KeysOf("up")[1] = "UP"
  BY <1>1
<1>4. Course["up"] = <<"ground", "esc", "csi", "ground">>
  BY DEF Course
<1>5. /\ At("up", 0) = "ground" /\ At("up", 1) = "esc" /\ At("up", 2) = "csi"
      /\ At("up", 3) = "ground"
  BY <1>4 DEF At
<1>6. /\ Reported("up", 0) = 0 /\ Reported("up", 1) = 0 /\ Reported("up", 2) = 0
      /\ Reported("up", 3) = 1
  BY <1>5 DEF Reported
<1>7. /\ KeyAt("up", 1) = "none" /\ KeyAt("up", 2) = "none"
      /\ KeyAt("up", 3) = "UP"
  BY <1>3, <1>6 DEF KeyAt
<1>8. Follows("up", 1)
  BY <1>2, <1>3, <1>5, <1>6, <1>7 DEF Follows, Leads, InSeq, InStr, States
<1>9. Follows("up", 2)
  BY <1>2, <1>3, <1>5, <1>6, <1>7, EscapeIs DEF Follows, Leads, InSeq, InStr, States
<1>10. Follows("up", 3)
  BY <1>2, <1>3, <1>5, <1>6, <1>7, BracketIs DEF Follows, Leads, InSeq, InStr, States
<1>11. \A j \in 1..3 : Follows("up", j)
  BY <1>8, <1>9, <1>10
<1>12. Settles("up", 3)
  BY <1>2, <1>3, <1>5, <1>6 DEF Settles
<1>13. <<"ESC", "[", "A">> \in Seq(KeyBytes) /\ <<"UP">> \in Seq(Codes)
  BY DEF KeyBytes, Codes
<1>14. BytesOf("up") \in Seq(KeyBytes) /\ KeysOf("up") \in Seq(Codes)
  BY <1>1, <1>13
<1>15. QED BY <1>2, <1>5, <1>6, <1>11, <1>12, <1>14 DEF Runs

LEMMA HomeCourse == Runs("home", 3)
<1>1. BytesOf("home") = <<"ESC", "[", "H">> /\ KeysOf("home") = <<"HOME">>
  BY DEF BytesOf, KeysOf, Terminal, Arrow
<1>2. Len(BytesOf("home")) = 3 /\ Len(KeysOf("home")) = 1
  BY <1>1
<1>3. /\ BytesOf("home")[1] = "ESC" /\ BytesOf("home")[2] = "[" /\ BytesOf("home")[3] = "H"
      /\ KeysOf("home")[1] = "HOME"
  BY <1>1
<1>4. Course["home"] = <<"ground", "esc", "csi", "ground">>
  BY DEF Course
<1>5. /\ At("home", 0) = "ground" /\ At("home", 1) = "esc" /\ At("home", 2) = "csi"
      /\ At("home", 3) = "ground"
  BY <1>4 DEF At
<1>6. /\ Reported("home", 0) = 0 /\ Reported("home", 1) = 0 /\ Reported("home", 2) = 0
      /\ Reported("home", 3) = 1
  BY <1>5 DEF Reported
<1>7. /\ KeyAt("home", 1) = "none" /\ KeyAt("home", 2) = "none"
      /\ KeyAt("home", 3) = "HOME"
  BY <1>3, <1>6 DEF KeyAt
<1>8. Follows("home", 1)
  BY <1>2, <1>3, <1>5, <1>6, <1>7 DEF Follows, Leads, InSeq, InStr, States
<1>9. Follows("home", 2)
  BY <1>2, <1>3, <1>5, <1>6, <1>7, EscapeIs DEF Follows, Leads, InSeq, InStr, States
<1>10. Follows("home", 3)
  BY <1>2, <1>3, <1>5, <1>6, <1>7, BracketIs DEF Follows, Leads, InSeq, InStr, States
<1>11. \A j \in 1..3 : Follows("home", j)
  BY <1>8, <1>9, <1>10
<1>12. Settles("home", 3)
  BY <1>2, <1>3, <1>5, <1>6 DEF Settles
<1>13. <<"ESC", "[", "H">> \in Seq(KeyBytes) /\ <<"HOME">> \in Seq(Codes)
  BY DEF KeyBytes, Codes
<1>14. BytesOf("home") \in Seq(KeyBytes) /\ KeysOf("home") \in Seq(Codes)
  BY <1>1, <1>13
<1>15. QED BY <1>2, <1>5, <1>6, <1>11, <1>12, <1>14 DEF Runs

LEMMA UpAppCourse == Runs("upApp", 3)
<1>1. BytesOf("upApp") = <<"ESC", "O", "A">> /\ KeysOf("upApp") = <<"UP">>
  BY DEF BytesOf, KeysOf, Terminal
<1>2. Len(BytesOf("upApp")) = 3 /\ Len(KeysOf("upApp")) = 1
  BY <1>1
<1>3. /\ BytesOf("upApp")[1] = "ESC" /\ BytesOf("upApp")[2] = "O" /\ BytesOf("upApp")[3] = "A"
      /\ KeysOf("upApp")[1] = "UP"
  BY <1>1
<1>4. Course["upApp"] = <<"ground", "esc", "ss3", "ground">>
  BY DEF Course
<1>5. /\ At("upApp", 0) = "ground" /\ At("upApp", 1) = "esc" /\ At("upApp", 2) = "ss3"
      /\ At("upApp", 3) = "ground"
  BY <1>4 DEF At
<1>6. /\ Reported("upApp", 0) = 0 /\ Reported("upApp", 1) = 0 /\ Reported("upApp", 2) = 0
      /\ Reported("upApp", 3) = 1
  BY <1>5 DEF Reported
<1>7. /\ KeyAt("upApp", 1) = "none" /\ KeyAt("upApp", 2) = "none"
      /\ KeyAt("upApp", 3) = "UP"
  BY <1>3, <1>6 DEF KeyAt
<1>8. Follows("upApp", 1)
  BY <1>2, <1>3, <1>5, <1>6, <1>7 DEF Follows, Leads, InSeq, InStr, States
<1>9. Follows("upApp", 2)
  BY <1>2, <1>3, <1>5, <1>6, <1>7, EscapeIs DEF Follows, Leads, InSeq, InStr, States
<1>10. Follows("upApp", 3)
  BY <1>2, <1>3, <1>5, <1>6, <1>7, ArrowsIs DEF Follows, Leads, InSeq, InStr, States
<1>11. \A j \in 1..3 : Follows("upApp", j)
  BY <1>8, <1>9, <1>10
<1>12. Settles("upApp", 3)
  BY <1>2, <1>3, <1>5, <1>6 DEF Settles
<1>13. <<"ESC", "O", "A">> \in Seq(KeyBytes) /\ <<"UP">> \in Seq(Codes)
  BY DEF KeyBytes, Codes
<1>14. BytesOf("upApp") \in Seq(KeyBytes) /\ KeysOf("upApp") \in Seq(Codes)
  BY <1>1, <1>13
<1>15. QED BY <1>2, <1>5, <1>6, <1>11, <1>12, <1>14 DEF Runs

LEMMA DelCourse == Runs("del", 4)
<1>1. BytesOf("del") = <<"ESC", "[", "3", "~">> /\ KeysOf("del") = <<"DEL">>
  BY DEF BytesOf, KeysOf, Terminal
<1>2. Len(BytesOf("del")) = 4 /\ Len(KeysOf("del")) = 1
  BY <1>1
<1>3. /\ BytesOf("del")[1] = "ESC" /\ BytesOf("del")[2] = "[" /\ BytesOf("del")[3] = "3"
      /\ BytesOf("del")[4] = "~" /\ KeysOf("del")[1] = "DEL"
  BY <1>1
<1>4. Course["del"] = <<"ground", "esc", "csi", "three", "ground">>
  BY DEF Course
<1>5. /\ At("del", 0) = "ground" /\ At("del", 1) = "esc" /\ At("del", 2) = "csi"
      /\ At("del", 3) = "three" /\ At("del", 4) = "ground"
  BY <1>4 DEF At
<1>6. /\ Reported("del", 0) = 0 /\ Reported("del", 1) = 0 /\ Reported("del", 2) = 0
      /\ Reported("del", 3) = 0 /\ Reported("del", 4) = 1
  BY <1>5 DEF Reported
<1>7. /\ KeyAt("del", 1) = "none" /\ KeyAt("del", 2) = "none"
      /\ KeyAt("del", 3) = "none" /\ KeyAt("del", 4) = "DEL"
  BY <1>3, <1>6 DEF KeyAt
<1>8. Follows("del", 1)
  BY <1>2, <1>3, <1>5, <1>6, <1>7 DEF Follows, Leads, InSeq, InStr, States
<1>9. Follows("del", 2)
  BY <1>2, <1>3, <1>5, <1>6, <1>7, EscapeIs DEF Follows, Leads, InSeq, InStr, States
<1>10. Follows("del", 3)
  BY <1>2, <1>3, <1>5, <1>6, <1>7, BracketIs DEF Follows, Leads, InSeq, InStr, States
<1>11. Follows("del", 4)
  BY <1>2, <1>3, <1>5, <1>6, <1>7, TildesAre DEF Follows, Leads, InSeq, InStr, States
<1>12. \A j \in 1..4 : Follows("del", j)
  BY <1>8, <1>9, <1>10, <1>11
<1>13. Settles("del", 4)
  BY <1>2, <1>3, <1>5, <1>6 DEF Settles
<1>14. <<"ESC", "[", "3", "~">> \in Seq(KeyBytes) /\ <<"DEL">> \in Seq(Codes)
  BY DEF KeyBytes, Codes
<1>15. BytesOf("del") \in Seq(KeyBytes) /\ KeysOf("del") \in Seq(Codes)
  BY <1>1, <1>14
<1>16. QED BY <1>2, <1>5, <1>6, <1>12, <1>13, <1>15 DEF Runs

LEMMA PgupCourse == Runs("pgup", 4)
<1>1. BytesOf("pgup") = <<"ESC", "[", "5", "~">> /\ KeysOf("pgup") = <<"PGUP">>
  BY DEF BytesOf, KeysOf, Terminal
<1>2. Len(BytesOf("pgup")) = 4 /\ Len(KeysOf("pgup")) = 1
  BY <1>1
<1>3. /\ BytesOf("pgup")[1] = "ESC" /\ BytesOf("pgup")[2] = "[" /\ BytesOf("pgup")[3] = "5"
      /\ BytesOf("pgup")[4] = "~" /\ KeysOf("pgup")[1] = "PGUP"
  BY <1>1
<1>4. Course["pgup"] = <<"ground", "esc", "csi", "five", "ground">>
  BY DEF Course
<1>5. /\ At("pgup", 0) = "ground" /\ At("pgup", 1) = "esc" /\ At("pgup", 2) = "csi"
      /\ At("pgup", 3) = "five" /\ At("pgup", 4) = "ground"
  BY <1>4 DEF At
<1>6. /\ Reported("pgup", 0) = 0 /\ Reported("pgup", 1) = 0 /\ Reported("pgup", 2) = 0
      /\ Reported("pgup", 3) = 0 /\ Reported("pgup", 4) = 1
  BY <1>5 DEF Reported
<1>7. /\ KeyAt("pgup", 1) = "none" /\ KeyAt("pgup", 2) = "none"
      /\ KeyAt("pgup", 3) = "none" /\ KeyAt("pgup", 4) = "PGUP"
  BY <1>3, <1>6 DEF KeyAt
<1>8. Follows("pgup", 1)
  BY <1>2, <1>3, <1>5, <1>6, <1>7 DEF Follows, Leads, InSeq, InStr, States
<1>9. Follows("pgup", 2)
  BY <1>2, <1>3, <1>5, <1>6, <1>7, EscapeIs DEF Follows, Leads, InSeq, InStr, States
<1>10. Follows("pgup", 3)
  BY <1>2, <1>3, <1>5, <1>6, <1>7, BracketIs DEF Follows, Leads, InSeq, InStr, States
<1>11. Follows("pgup", 4)
  BY <1>2, <1>3, <1>5, <1>6, <1>7, TildesAre DEF Follows, Leads, InSeq, InStr, States
<1>12. \A j \in 1..4 : Follows("pgup", j)
  BY <1>8, <1>9, <1>10, <1>11
<1>13. Settles("pgup", 4)
  BY <1>2, <1>3, <1>5, <1>6 DEF Settles
<1>14. <<"ESC", "[", "5", "~">> \in Seq(KeyBytes) /\ <<"PGUP">> \in Seq(Codes)
  BY DEF KeyBytes, Codes
<1>15. BytesOf("pgup") \in Seq(KeyBytes) /\ KeysOf("pgup") \in Seq(Codes)
  BY <1>1, <1>14
<1>16. QED BY <1>2, <1>5, <1>6, <1>12, <1>13, <1>15 DEF Runs

LEMMA PgdnCourse == Runs("pgdn", 4)
<1>1. BytesOf("pgdn") = <<"ESC", "[", "6", "~">> /\ KeysOf("pgdn") = <<"PGDN">>
  BY DEF BytesOf, KeysOf, Terminal
<1>2. Len(BytesOf("pgdn")) = 4 /\ Len(KeysOf("pgdn")) = 1
  BY <1>1
<1>3. /\ BytesOf("pgdn")[1] = "ESC" /\ BytesOf("pgdn")[2] = "[" /\ BytesOf("pgdn")[3] = "6"
      /\ BytesOf("pgdn")[4] = "~" /\ KeysOf("pgdn")[1] = "PGDN"
  BY <1>1
<1>4. Course["pgdn"] = <<"ground", "esc", "csi", "six", "ground">>
  BY DEF Course
<1>5. /\ At("pgdn", 0) = "ground" /\ At("pgdn", 1) = "esc" /\ At("pgdn", 2) = "csi"
      /\ At("pgdn", 3) = "six" /\ At("pgdn", 4) = "ground"
  BY <1>4 DEF At
<1>6. /\ Reported("pgdn", 0) = 0 /\ Reported("pgdn", 1) = 0 /\ Reported("pgdn", 2) = 0
      /\ Reported("pgdn", 3) = 0 /\ Reported("pgdn", 4) = 1
  BY <1>5 DEF Reported
<1>7. /\ KeyAt("pgdn", 1) = "none" /\ KeyAt("pgdn", 2) = "none"
      /\ KeyAt("pgdn", 3) = "none" /\ KeyAt("pgdn", 4) = "PGDN"
  BY <1>3, <1>6 DEF KeyAt
<1>8. Follows("pgdn", 1)
  BY <1>2, <1>3, <1>5, <1>6, <1>7 DEF Follows, Leads, InSeq, InStr, States
<1>9. Follows("pgdn", 2)
  BY <1>2, <1>3, <1>5, <1>6, <1>7, EscapeIs DEF Follows, Leads, InSeq, InStr, States
<1>10. Follows("pgdn", 3)
  BY <1>2, <1>3, <1>5, <1>6, <1>7, BracketIs DEF Follows, Leads, InSeq, InStr, States
<1>11. Follows("pgdn", 4)
  BY <1>2, <1>3, <1>5, <1>6, <1>7, TildesAre DEF Follows, Leads, InSeq, InStr, States
<1>12. \A j \in 1..4 : Follows("pgdn", j)
  BY <1>8, <1>9, <1>10, <1>11
<1>13. Settles("pgdn", 4)
  BY <1>2, <1>3, <1>5, <1>6 DEF Settles
<1>14. <<"ESC", "[", "6", "~">> \in Seq(KeyBytes) /\ <<"PGDN">> \in Seq(Codes)
  BY DEF KeyBytes, Codes
<1>15. BytesOf("pgdn") \in Seq(KeyBytes) /\ KeysOf("pgdn") \in Seq(Codes)
  BY <1>1, <1>14
<1>16. QED BY <1>2, <1>5, <1>6, <1>12, <1>13, <1>15 DEF Runs

LEMMA CtrlDCourse == Runs("ctrlD", 6)
<1>1. BytesOf("ctrlD") = <<"ESC", "[", "1", "semi", "5", "D">> /\ KeysOf("ctrlD") = <<"CTRL_LEFT">>
  BY DEF BytesOf, KeysOf, Terminal, Modified
<1>2. Len(BytesOf("ctrlD")) = 6 /\ Len(KeysOf("ctrlD")) = 1
  BY <1>1
<1>3. /\ BytesOf("ctrlD")[1] = "ESC" /\ BytesOf("ctrlD")[2] = "[" /\ BytesOf("ctrlD")[3] = "1"
      /\ BytesOf("ctrlD")[4] = "semi" /\ BytesOf("ctrlD")[5] = "5" /\ BytesOf("ctrlD")[6] = "D"
      /\ KeysOf("ctrlD")[1] = "CTRL_LEFT"
  BY <1>1
<1>4. Course["ctrlD"] = <<"ground", "esc", "csi", "one", "mod", "ctrl", "ground">>
  BY DEF Course
<1>5. /\ At("ctrlD", 0) = "ground" /\ At("ctrlD", 1) = "esc" /\ At("ctrlD", 2) = "csi"
      /\ At("ctrlD", 3) = "one" /\ At("ctrlD", 4) = "mod" /\ At("ctrlD", 5) = "ctrl"
      /\ At("ctrlD", 6) = "ground"
  BY <1>4 DEF At
<1>6. /\ Reported("ctrlD", 0) = 0 /\ Reported("ctrlD", 1) = 0 /\ Reported("ctrlD", 2) = 0
      /\ Reported("ctrlD", 3) = 0 /\ Reported("ctrlD", 4) = 0 /\ Reported("ctrlD", 5) = 0
      /\ Reported("ctrlD", 6) = 1
  BY <1>5 DEF Reported
<1>7. /\ KeyAt("ctrlD", 1) = "none" /\ KeyAt("ctrlD", 2) = "none"
      /\ KeyAt("ctrlD", 3) = "none" /\ KeyAt("ctrlD", 4) = "none"
      /\ KeyAt("ctrlD", 5) = "none" /\ KeyAt("ctrlD", 6) = "CTRL_LEFT"
  BY <1>3, <1>6 DEF KeyAt
<1>8. Follows("ctrlD", 1)
  BY <1>2, <1>3, <1>5, <1>6, <1>7 DEF Follows, Leads, InSeq, InStr, States
<1>9. Follows("ctrlD", 2)
  BY <1>2, <1>3, <1>5, <1>6, <1>7, EscapeIs DEF Follows, Leads, InSeq, InStr, States
<1>10. Follows("ctrlD", 3)
  BY <1>2, <1>3, <1>5, <1>6, <1>7, BracketIs DEF Follows, Leads, InSeq, InStr, States
<1>11. Follows("ctrlD", 4)
  BY <1>2, <1>3, <1>5, <1>6, <1>7, ModifiedIs DEF Follows, Leads, InSeq, InStr, States
<1>12. Follows("ctrlD", 5)
  BY <1>2, <1>3, <1>5, <1>6, <1>7, ModifiedIs DEF Follows, Leads, InSeq, InStr, States
<1>13. Follows("ctrlD", 6)
  BY <1>2, <1>3, <1>5, <1>6, <1>7, ModifiedIs DEF Follows, Leads, InSeq, InStr, States
<1>14. \A j \in 1..6 : Follows("ctrlD", j)
  BY <1>8, <1>9, <1>10, <1>11, <1>12, <1>13
<1>15. Settles("ctrlD", 6)
  BY <1>2, <1>3, <1>5, <1>6 DEF Settles
<1>16. <<"ESC", "[", "1", "semi", "5", "D">> \in Seq(KeyBytes) /\ <<"CTRL_LEFT">> \in Seq(Codes)
  BY DEF KeyBytes, Codes
<1>17. BytesOf("ctrlD") \in Seq(KeyBytes) /\ KeysOf("ctrlD") \in Seq(Codes)
  BY <1>1, <1>16
<1>18. QED BY <1>2, <1>5, <1>6, <1>14, <1>15, <1>17 DEF Runs

LEMMA AltCCourse == Runs("altC", 6)
<1>1. BytesOf("altC") = <<"ESC", "[", "1", "semi", "3", "C">> /\ KeysOf("altC") = <<"ALT_RIGHT">>
  BY DEF BytesOf, KeysOf, Terminal, Modified
<1>2. Len(BytesOf("altC")) = 6 /\ Len(KeysOf("altC")) = 1
  BY <1>1
<1>3. /\ BytesOf("altC")[1] = "ESC" /\ BytesOf("altC")[2] = "[" /\ BytesOf("altC")[3] = "1"
      /\ BytesOf("altC")[4] = "semi" /\ BytesOf("altC")[5] = "3" /\ BytesOf("altC")[6] = "C"
      /\ KeysOf("altC")[1] = "ALT_RIGHT"
  BY <1>1
<1>4. Course["altC"] = <<"ground", "esc", "csi", "one", "mod", "alt", "ground">>
  BY DEF Course
<1>5. /\ At("altC", 0) = "ground" /\ At("altC", 1) = "esc" /\ At("altC", 2) = "csi"
      /\ At("altC", 3) = "one" /\ At("altC", 4) = "mod" /\ At("altC", 5) = "alt"
      /\ At("altC", 6) = "ground"
  BY <1>4 DEF At
<1>6. /\ Reported("altC", 0) = 0 /\ Reported("altC", 1) = 0 /\ Reported("altC", 2) = 0
      /\ Reported("altC", 3) = 0 /\ Reported("altC", 4) = 0 /\ Reported("altC", 5) = 0
      /\ Reported("altC", 6) = 1
  BY <1>5 DEF Reported
<1>7. /\ KeyAt("altC", 1) = "none" /\ KeyAt("altC", 2) = "none"
      /\ KeyAt("altC", 3) = "none" /\ KeyAt("altC", 4) = "none"
      /\ KeyAt("altC", 5) = "none" /\ KeyAt("altC", 6) = "ALT_RIGHT"
  BY <1>3, <1>6 DEF KeyAt
<1>8. Follows("altC", 1)
  BY <1>2, <1>3, <1>5, <1>6, <1>7 DEF Follows, Leads, InSeq, InStr, States
<1>9. Follows("altC", 2)
  BY <1>2, <1>3, <1>5, <1>6, <1>7, EscapeIs DEF Follows, Leads, InSeq, InStr, States
<1>10. Follows("altC", 3)
  BY <1>2, <1>3, <1>5, <1>6, <1>7, BracketIs DEF Follows, Leads, InSeq, InStr, States
<1>11. Follows("altC", 4)
  BY <1>2, <1>3, <1>5, <1>6, <1>7, ModifiedIs DEF Follows, Leads, InSeq, InStr, States
<1>12. Follows("altC", 5)
  BY <1>2, <1>3, <1>5, <1>6, <1>7, ModifiedIs DEF Follows, Leads, InSeq, InStr, States
<1>13. Follows("altC", 6)
  BY <1>2, <1>3, <1>5, <1>6, <1>7, ModifiedIs DEF Follows, Leads, InSeq, InStr, States
<1>14. \A j \in 1..6 : Follows("altC", j)
  BY <1>8, <1>9, <1>10, <1>11, <1>12, <1>13
<1>15. Settles("altC", 6)
  BY <1>2, <1>3, <1>5, <1>6 DEF Settles
<1>16. <<"ESC", "[", "1", "semi", "3", "C">> \in Seq(KeyBytes) /\ <<"ALT_RIGHT">> \in Seq(Codes)
  BY DEF KeyBytes, Codes
<1>17. BytesOf("altC") \in Seq(KeyBytes) /\ KeysOf("altC") \in Seq(Codes)
  BY <1>1, <1>16
<1>18. QED BY <1>2, <1>5, <1>6, <1>14, <1>15, <1>17 DEF Runs

LEMMA ShiftCCourse == Runs("shiftC", 6)
<1>1. BytesOf("shiftC") = <<"ESC", "[", "1", "semi", "2", "C">> /\ KeysOf("shiftC") = <<"UNKNOWN">>
  BY DEF BytesOf, KeysOf, Terminal, Modified
<1>2. Len(BytesOf("shiftC")) = 6 /\ Len(KeysOf("shiftC")) = 1
  BY <1>1
<1>3. /\ BytesOf("shiftC")[1] = "ESC" /\ BytesOf("shiftC")[2] = "[" /\ BytesOf("shiftC")[3] = "1"
      /\ BytesOf("shiftC")[4] = "semi" /\ BytesOf("shiftC")[5] = "2" /\ BytesOf("shiftC")[6] = "C"
      /\ KeysOf("shiftC")[1] = "UNKNOWN"
  BY <1>1
<1>4. Course["shiftC"] = <<"ground", "esc", "csi", "one", "mod", "other", "ground">>
  BY DEF Course
<1>5. /\ At("shiftC", 0) = "ground" /\ At("shiftC", 1) = "esc" /\ At("shiftC", 2) = "csi"
      /\ At("shiftC", 3) = "one" /\ At("shiftC", 4) = "mod" /\ At("shiftC", 5) = "other"
      /\ At("shiftC", 6) = "ground"
  BY <1>4 DEF At
<1>6. /\ Reported("shiftC", 0) = 0 /\ Reported("shiftC", 1) = 0 /\ Reported("shiftC", 2) = 0
      /\ Reported("shiftC", 3) = 0 /\ Reported("shiftC", 4) = 0 /\ Reported("shiftC", 5) = 0
      /\ Reported("shiftC", 6) = 1
  BY <1>5 DEF Reported
<1>7. /\ KeyAt("shiftC", 1) = "none" /\ KeyAt("shiftC", 2) = "none"
      /\ KeyAt("shiftC", 3) = "none" /\ KeyAt("shiftC", 4) = "none"
      /\ KeyAt("shiftC", 5) = "none" /\ KeyAt("shiftC", 6) = "UNKNOWN"
  BY <1>3, <1>6 DEF KeyAt
<1>8. Follows("shiftC", 1)
  BY <1>2, <1>3, <1>5, <1>6, <1>7 DEF Follows, Leads, InSeq, InStr, States
<1>9. Follows("shiftC", 2)
  BY <1>2, <1>3, <1>5, <1>6, <1>7, EscapeIs DEF Follows, Leads, InSeq, InStr, States
<1>10. Follows("shiftC", 3)
  BY <1>2, <1>3, <1>5, <1>6, <1>7, BracketIs DEF Follows, Leads, InSeq, InStr, States
<1>11. Follows("shiftC", 4)
  BY <1>2, <1>3, <1>5, <1>6, <1>7, ModifiedIs DEF Follows, Leads, InSeq, InStr, States
<1>12. Follows("shiftC", 5)
  BY <1>2, <1>3, <1>5, <1>6, <1>7, ModifiedIs DEF Follows, Leads, InSeq, InStr, States
<1>13. Follows("shiftC", 6)
  BY <1>2, <1>3, <1>5, <1>6, <1>7, ModifiedIs DEF Follows, Leads, InSeq, InStr, States
<1>14. \A j \in 1..6 : Follows("shiftC", j)
  BY <1>8, <1>9, <1>10, <1>11, <1>12, <1>13
<1>15. Settles("shiftC", 6)
  BY <1>2, <1>3, <1>5, <1>6 DEF Settles
<1>16. <<"ESC", "[", "1", "semi", "2", "C">> \in Seq(KeyBytes) /\ <<"UNKNOWN">> \in Seq(Codes)
  BY DEF KeyBytes, Codes
<1>17. BytesOf("shiftC") \in Seq(KeyBytes) /\ KeysOf("shiftC") \in Seq(Codes)
  BY <1>1, <1>16
<1>18. QED BY <1>2, <1>5, <1>6, <1>14, <1>15, <1>17 DEF Runs

LEMMA F9Course == Runs("f9", 5)
<1>1. BytesOf("f9") = <<"ESC", "[", "2", "0", "~">> /\ KeysOf("f9") = <<"F9">>
  BY DEF BytesOf, KeysOf, Terminal
<1>2. Len(BytesOf("f9")) = 5 /\ Len(KeysOf("f9")) = 1
  BY <1>1
<1>3. /\ BytesOf("f9")[1] = "ESC" /\ BytesOf("f9")[2] = "[" /\ BytesOf("f9")[3] = "2"
      /\ BytesOf("f9")[4] = "0" /\ BytesOf("f9")[5] = "~" /\ KeysOf("f9")[1] = "F9"
  BY <1>1
<1>4. Course["f9"] = <<"ground", "esc", "csi", "two", "two0", "ground">>
  BY DEF Course
<1>5. /\ At("f9", 0) = "ground" /\ At("f9", 1) = "esc" /\ At("f9", 2) = "csi"
      /\ At("f9", 3) = "two" /\ At("f9", 4) = "two0" /\ At("f9", 5) = "ground"
  BY <1>4 DEF At
<1>6. /\ Reported("f9", 0) = 0 /\ Reported("f9", 1) = 0 /\ Reported("f9", 2) = 0
      /\ Reported("f9", 3) = 0 /\ Reported("f9", 4) = 0 /\ Reported("f9", 5) = 1
  BY <1>5 DEF Reported
<1>7. /\ KeyAt("f9", 1) = "none" /\ KeyAt("f9", 2) = "none"
      /\ KeyAt("f9", 3) = "none" /\ KeyAt("f9", 4) = "none"
      /\ KeyAt("f9", 5) = "F9"
  BY <1>3, <1>6 DEF KeyAt
<1>8. Follows("f9", 1)
  BY <1>2, <1>3, <1>5, <1>6, <1>7 DEF Follows, Leads, InSeq, InStr, States
<1>9. Follows("f9", 2)
  BY <1>2, <1>3, <1>5, <1>6, <1>7, EscapeIs DEF Follows, Leads, InSeq, InStr, States
<1>10. Follows("f9", 3)
  BY <1>2, <1>3, <1>5, <1>6, <1>7, BracketIs DEF Follows, Leads, InSeq, InStr, States
<1>11. Follows("f9", 4)
  BY <1>2, <1>3, <1>5, <1>6, <1>7, TwoIs DEF Follows, Leads, InSeq, InStr, States
<1>12. Follows("f9", 5)
  BY <1>2, <1>3, <1>5, <1>6, <1>7, TwoIs DEF Follows, Leads, InSeq, InStr, States
<1>13. \A j \in 1..5 : Follows("f9", j)
  BY <1>8, <1>9, <1>10, <1>11, <1>12
<1>14. Settles("f9", 5)
  BY <1>2, <1>3, <1>5, <1>6 DEF Settles
<1>15. <<"ESC", "[", "2", "0", "~">> \in Seq(KeyBytes) /\ <<"F9">> \in Seq(Codes)
  BY DEF KeyBytes, Codes
<1>16. BytesOf("f9") \in Seq(KeyBytes) /\ KeysOf("f9") \in Seq(Codes)
  BY <1>1, <1>15
<1>17. QED BY <1>2, <1>5, <1>6, <1>13, <1>14, <1>16 DEF Runs

LEMMA F10Course == Runs("f10", 5)
<1>1. BytesOf("f10") = <<"ESC", "[", "2", "1", "~">> /\ KeysOf("f10") = <<"F10">>
  BY DEF BytesOf, KeysOf, Terminal
<1>2. Len(BytesOf("f10")) = 5 /\ Len(KeysOf("f10")) = 1
  BY <1>1
<1>3. /\ BytesOf("f10")[1] = "ESC" /\ BytesOf("f10")[2] = "[" /\ BytesOf("f10")[3] = "2"
      /\ BytesOf("f10")[4] = "1" /\ BytesOf("f10")[5] = "~" /\ KeysOf("f10")[1] = "F10"
  BY <1>1
<1>4. Course["f10"] = <<"ground", "esc", "csi", "two", "two1", "ground">>
  BY DEF Course
<1>5. /\ At("f10", 0) = "ground" /\ At("f10", 1) = "esc" /\ At("f10", 2) = "csi"
      /\ At("f10", 3) = "two" /\ At("f10", 4) = "two1" /\ At("f10", 5) = "ground"
  BY <1>4 DEF At
<1>6. /\ Reported("f10", 0) = 0 /\ Reported("f10", 1) = 0 /\ Reported("f10", 2) = 0
      /\ Reported("f10", 3) = 0 /\ Reported("f10", 4) = 0 /\ Reported("f10", 5) = 1
  BY <1>5 DEF Reported
<1>7. /\ KeyAt("f10", 1) = "none" /\ KeyAt("f10", 2) = "none"
      /\ KeyAt("f10", 3) = "none" /\ KeyAt("f10", 4) = "none"
      /\ KeyAt("f10", 5) = "F10"
  BY <1>3, <1>6 DEF KeyAt
<1>8. Follows("f10", 1)
  BY <1>2, <1>3, <1>5, <1>6, <1>7 DEF Follows, Leads, InSeq, InStr, States
<1>9. Follows("f10", 2)
  BY <1>2, <1>3, <1>5, <1>6, <1>7, EscapeIs DEF Follows, Leads, InSeq, InStr, States
<1>10. Follows("f10", 3)
  BY <1>2, <1>3, <1>5, <1>6, <1>7, BracketIs DEF Follows, Leads, InSeq, InStr, States
<1>11. Follows("f10", 4)
  BY <1>2, <1>3, <1>5, <1>6, <1>7, TwoIs DEF Follows, Leads, InSeq, InStr, States
<1>12. Follows("f10", 5)
  BY <1>2, <1>3, <1>5, <1>6, <1>7, TwoIs DEF Follows, Leads, InSeq, InStr, States
<1>13. \A j \in 1..5 : Follows("f10", j)
  BY <1>8, <1>9, <1>10, <1>11, <1>12
<1>14. Settles("f10", 5)
  BY <1>2, <1>3, <1>5, <1>6 DEF Settles
<1>15. <<"ESC", "[", "2", "1", "~">> \in Seq(KeyBytes) /\ <<"F10">> \in Seq(Codes)
  BY DEF KeyBytes, Codes
<1>16. BytesOf("f10") \in Seq(KeyBytes) /\ KeysOf("f10") \in Seq(Codes)
  BY <1>1, <1>15
<1>17. QED BY <1>2, <1>5, <1>6, <1>13, <1>14, <1>16 DEF Runs

LEMMA PasteCourse == Runs("paste", 6)
<1>1. BytesOf("paste") = <<"ESC", "[", "2", "0", "0", "~">> /\ KeysOf("paste") = <<"PASTE_START">>
  BY DEF BytesOf, KeysOf, Terminal
<1>2. Len(BytesOf("paste")) = 6 /\ Len(KeysOf("paste")) = 1
  BY <1>1
<1>3. /\ BytesOf("paste")[1] = "ESC" /\ BytesOf("paste")[2] = "[" /\ BytesOf("paste")[3] = "2"
      /\ BytesOf("paste")[4] = "0" /\ BytesOf("paste")[5] = "0" /\ BytesOf("paste")[6] = "~"
      /\ KeysOf("paste")[1] = "PASTE_START"
  BY <1>1
<1>4. Course["paste"] = <<"ground", "esc", "csi", "two", "two0", "two00", "ground">>
  BY DEF Course
<1>5. /\ At("paste", 0) = "ground" /\ At("paste", 1) = "esc" /\ At("paste", 2) = "csi"
      /\ At("paste", 3) = "two" /\ At("paste", 4) = "two0" /\ At("paste", 5) = "two00"
      /\ At("paste", 6) = "ground"
  BY <1>4 DEF At
<1>6. /\ Reported("paste", 0) = 0 /\ Reported("paste", 1) = 0 /\ Reported("paste", 2) = 0
      /\ Reported("paste", 3) = 0 /\ Reported("paste", 4) = 0 /\ Reported("paste", 5) = 0
      /\ Reported("paste", 6) = 1
  BY <1>5 DEF Reported
<1>7. /\ KeyAt("paste", 1) = "none" /\ KeyAt("paste", 2) = "none"
      /\ KeyAt("paste", 3) = "none" /\ KeyAt("paste", 4) = "none"
      /\ KeyAt("paste", 5) = "none" /\ KeyAt("paste", 6) = "PASTE_START"
  BY <1>3, <1>6 DEF KeyAt
<1>8. Follows("paste", 1)
  BY <1>2, <1>3, <1>5, <1>6, <1>7 DEF Follows, Leads, InSeq, InStr, States
<1>9. Follows("paste", 2)
  BY <1>2, <1>3, <1>5, <1>6, <1>7, EscapeIs DEF Follows, Leads, InSeq, InStr, States
<1>10. Follows("paste", 3)
  BY <1>2, <1>3, <1>5, <1>6, <1>7, BracketIs DEF Follows, Leads, InSeq, InStr, States
<1>11. Follows("paste", 4)
  BY <1>2, <1>3, <1>5, <1>6, <1>7, TwoIs DEF Follows, Leads, InSeq, InStr, States
<1>12. Follows("paste", 5)
  BY <1>2, <1>3, <1>5, <1>6, <1>7, TwoIs DEF Follows, Leads, InSeq, InStr, States
<1>13. Follows("paste", 6)
  BY <1>2, <1>3, <1>5, <1>6, <1>7, TwoIs DEF Follows, Leads, InSeq, InStr, States
<1>14. \A j \in 1..6 : Follows("paste", j)
  BY <1>8, <1>9, <1>10, <1>11, <1>12, <1>13
<1>15. Settles("paste", 6)
  BY <1>2, <1>3, <1>5, <1>6 DEF Settles
<1>16. <<"ESC", "[", "2", "0", "0", "~">> \in Seq(KeyBytes) /\ <<"PASTE_START">> \in Seq(Codes)
  BY DEF KeyBytes, Codes
<1>17. BytesOf("paste") \in Seq(KeyBytes) /\ KeysOf("paste") \in Seq(Codes)
  BY <1>1, <1>16
<1>18. QED BY <1>2, <1>5, <1>6, <1>14, <1>15, <1>17 DEF Runs

LEMMA ColourCourse == Runs("colour", 4)
<1>1. BytesOf("colour") = <<"ESC", "]", "a", "BEL">> /\ KeysOf("colour") = <<"UNKNOWN">>
  BY DEF BytesOf, KeysOf, Terminal
<1>2. Len(BytesOf("colour")) = 4 /\ Len(KeysOf("colour")) = 1
  BY <1>1
<1>3. /\ BytesOf("colour")[1] = "ESC" /\ BytesOf("colour")[2] = "]" /\ BytesOf("colour")[3] = "a"
      /\ BytesOf("colour")[4] = "BEL" /\ KeysOf("colour")[1] = "UNKNOWN"
  BY <1>1
<1>4. Course["colour"] = <<"ground", "esc", "str", "str", "ground">>
  BY DEF Course
<1>5. /\ At("colour", 0) = "ground" /\ At("colour", 1) = "esc" /\ At("colour", 2) = "str"
      /\ At("colour", 3) = "str" /\ At("colour", 4) = "ground"
  BY <1>4 DEF At
<1>6. /\ Reported("colour", 0) = 0 /\ Reported("colour", 1) = 0 /\ Reported("colour", 2) = 0
      /\ Reported("colour", 3) = 0 /\ Reported("colour", 4) = 1
  BY <1>5 DEF Reported
<1>7. /\ KeyAt("colour", 1) = "none" /\ KeyAt("colour", 2) = "none"
      /\ KeyAt("colour", 3) = "none" /\ KeyAt("colour", 4) = "UNKNOWN"
  BY <1>3, <1>6 DEF KeyAt
<1>8. Follows("colour", 1)
  BY <1>2, <1>3, <1>5, <1>6, <1>7 DEF Follows, Leads, InSeq, InStr, States
<1>9. Follows("colour", 2)
  BY <1>2, <1>3, <1>5, <1>6, <1>7, EscapeIs DEF Follows, Leads, InSeq, InStr, States
<1>10. Follows("colour", 3)
  BY <1>2, <1>3, <1>5, <1>6, <1>7 DEF Follows, Leads, InSeq, InStr, States
<1>11. Follows("colour", 4)
  BY <1>2, <1>3, <1>5, <1>6, <1>7 DEF Follows, Leads, InSeq, InStr, States
<1>12. \A j \in 1..4 : Follows("colour", j)
  BY <1>8, <1>9, <1>10, <1>11
<1>13. Settles("colour", 4)
  BY <1>2, <1>3, <1>5, <1>6 DEF Settles
<1>14. <<"ESC", "]", "a", "BEL">> \in Seq(KeyBytes) /\ <<"UNKNOWN">> \in Seq(Codes)
  BY DEF KeyBytes, Codes
<1>15. BytesOf("colour") \in Seq(KeyBytes) /\ KeysOf("colour") \in Seq(Codes)
  BY <1>1, <1>14
<1>16. QED BY <1>2, <1>5, <1>6, <1>12, <1>13, <1>15 DEF Runs

LEMMA StatusCourse == Runs("status", 5)
<1>1. BytesOf("status") = <<"ESC", "]", "a", "ESC", "bslash">> /\ KeysOf("status") = <<"UNKNOWN">>
  BY DEF BytesOf, KeysOf, Terminal
<1>2. Len(BytesOf("status")) = 5 /\ Len(KeysOf("status")) = 1
  BY <1>1
<1>3. /\ BytesOf("status")[1] = "ESC" /\ BytesOf("status")[2] = "]" /\ BytesOf("status")[3] = "a"
      /\ BytesOf("status")[4] = "ESC" /\ BytesOf("status")[5] = "bslash" /\ KeysOf("status")[1] = "UNKNOWN"
  BY <1>1
<1>4. Course["status"] = <<"ground", "esc", "str", "str", "strEsc", "ground">>
  BY DEF Course
<1>5. /\ At("status", 0) = "ground" /\ At("status", 1) = "esc" /\ At("status", 2) = "str"
      /\ At("status", 3) = "str" /\ At("status", 4) = "strEsc" /\ At("status", 5) = "ground"
  BY <1>4 DEF At
<1>6. /\ Reported("status", 0) = 0 /\ Reported("status", 1) = 0 /\ Reported("status", 2) = 0
      /\ Reported("status", 3) = 0 /\ Reported("status", 4) = 0 /\ Reported("status", 5) = 1
  BY <1>5 DEF Reported
<1>7. /\ KeyAt("status", 1) = "none" /\ KeyAt("status", 2) = "none"
      /\ KeyAt("status", 3) = "none" /\ KeyAt("status", 4) = "none"
      /\ KeyAt("status", 5) = "UNKNOWN"
  BY <1>3, <1>6 DEF KeyAt
<1>8. Follows("status", 1)
  BY <1>2, <1>3, <1>5, <1>6, <1>7 DEF Follows, Leads, InSeq, InStr, States
<1>9. Follows("status", 2)
  BY <1>2, <1>3, <1>5, <1>6, <1>7, EscapeIs DEF Follows, Leads, InSeq, InStr, States
<1>10. Follows("status", 3)
  BY <1>2, <1>3, <1>5, <1>6, <1>7 DEF Follows, Leads, InSeq, InStr, States
<1>11. Follows("status", 4)
  BY <1>2, <1>3, <1>5, <1>6, <1>7 DEF Follows, Leads, InSeq, InStr, States
<1>12. Follows("status", 5)
  BY <1>2, <1>3, <1>5, <1>6, <1>7 DEF Follows, Leads, InSeq, InStr, States
<1>13. \A j \in 1..5 : Follows("status", j)
  BY <1>8, <1>9, <1>10, <1>11, <1>12
<1>14. Settles("status", 5)
  BY <1>2, <1>3, <1>5, <1>6 DEF Settles
<1>15. <<"ESC", "]", "a", "ESC", "bslash">> \in Seq(KeyBytes) /\ <<"UNKNOWN">> \in Seq(Codes)
  BY DEF KeyBytes, Codes
<1>16. BytesOf("status") \in Seq(KeyBytes) /\ KeysOf("status") \in Seq(Codes)
  BY <1>1, <1>15
<1>17. QED BY <1>2, <1>5, <1>6, <1>13, <1>14, <1>16 DEF Runs

LEMMA CutCourse == Runs("cut", 4)
<1>1. BytesOf("cut") = <<"ESC", "]", "a", "a">> /\ KeysOf("cut") = <<"UNKNOWN">>
  BY DEF BytesOf, KeysOf, Terminal
<1>2. Len(BytesOf("cut")) = 4 /\ Len(KeysOf("cut")) = 1
  BY <1>1
<1>3. /\ BytesOf("cut")[1] = "ESC" /\ BytesOf("cut")[2] = "]" /\ BytesOf("cut")[3] = "a"
      /\ BytesOf("cut")[4] = "a" /\ KeysOf("cut")[1] = "UNKNOWN"
  BY <1>1
<1>4. Course["cut"] = <<"ground", "esc", "str", "str", "str">>
  BY DEF Course
<1>5. /\ At("cut", 0) = "ground" /\ At("cut", 1) = "esc" /\ At("cut", 2) = "str"
      /\ At("cut", 3) = "str" /\ At("cut", 4) = "str"
  BY <1>4 DEF At
<1>6. /\ Reported("cut", 0) = 0 /\ Reported("cut", 1) = 0 /\ Reported("cut", 2) = 0
      /\ Reported("cut", 3) = 0 /\ Reported("cut", 4) = 0
  BY <1>5 DEF Reported
<1>7. /\ KeyAt("cut", 1) = "none" /\ KeyAt("cut", 2) = "none"
      /\ KeyAt("cut", 3) = "none" /\ KeyAt("cut", 4) = "none"
  BY <1>3, <1>6 DEF KeyAt
<1>8. Follows("cut", 1)
  BY <1>2, <1>3, <1>5, <1>6, <1>7 DEF Follows, Leads, InSeq, InStr, States
<1>9. Follows("cut", 2)
  BY <1>2, <1>3, <1>5, <1>6, <1>7, EscapeIs DEF Follows, Leads, InSeq, InStr, States
<1>10. Follows("cut", 3)
  BY <1>2, <1>3, <1>5, <1>6, <1>7 DEF Follows, Leads, InSeq, InStr, States
<1>11. Follows("cut", 4)
  BY <1>2, <1>3, <1>5, <1>6, <1>7 DEF Follows, Leads, InSeq, InStr, States
<1>12. \A j \in 1..4 : Follows("cut", j)
  BY <1>8, <1>9, <1>10, <1>11
<1>13. Settles("cut", 4)
  BY <1>2, <1>3, <1>5, <1>6 DEF Settles
<1>14. <<"ESC", "]", "a", "a">> \in Seq(KeyBytes) /\ <<"UNKNOWN">> \in Seq(Codes)
  BY DEF KeyBytes, Codes
<1>15. BytesOf("cut") \in Seq(KeyBytes) /\ KeysOf("cut") \in Seq(Codes)
  BY <1>1, <1>14
<1>16. QED BY <1>2, <1>5, <1>6, <1>12, <1>13, <1>15 DEF Runs

-----------------------------------------------------------------------------
(* Key reading: what is still to come *)

\* Every key runs its course.
LEMMA EveryCourse == ASSUME NEW e \in Known PROVE \E L : Runs(e, L)
<1>1. e \in {"char", "wide", "nul", "esc", "altB", "up", "home", "upApp", "del", "pgup", "pgdn",
             "ctrlD", "altC", "shiftC", "f9", "f10", "paste", "colour", "status", "cut"}
  BY DEF Known, Terminal
<1>2. \/ Runs(e, 1) \/ Runs(e, 2) \/ Runs(e, 3) \/ Runs(e, 4) \/ Runs(e, 5) \/ Runs(e, 6)
  BY <1>1, CharCourse, WideCourse, NulCourse, EscCourse, AltBCourse, UpCourse, HomeCourse,
     UpAppCourse, DelCourse, PgupCourse, PgdnCourse, CtrlDCourse, AltCCourse, ShiftCCourse,
     F9Course, F10Course, PasteCourse, ColourCourse, StatusCourse, CutCourse
<1>3. QED BY <1>2

\* The bytes bs are the rest of a key, begun or not, of which s is the state and
\* k the count of skipped bytes; the codes ks are still to be reported
Still(e, j, s, k, bs, ks) ==
  /\ s = At(e, j) /\ bs = SubSeq(BytesOf(e), j + 1, Len(BytesOf(e)))
  /\ ks = SubSeq(KeysOf(e), Reported(e, j) + 1, Len(KeysOf(e)))
  /\ IF s \in InStr THEN k + 2 <= j ELSE k = 0
Reads(s, k, bs, ks) ==
  \/ s = "ground" /\ k = 0 /\ bs = <<>> /\ ks = <<>>
  \/ \E e \in Known : \E j \in 0..Len(BytesOf(e)) : Still(e, j, s, k, bs, ks)

\* A sequence from one of its places on
LEMMA FromPlace ==
  ASSUME NEW S, NEW q \in Seq(S), NEW m \in 1..Len(q)
  PROVE  LET r == SubSeq(q, m, Len(q))
             t == SubSeq(q, m + 1, Len(q))
         IN /\ r # <<>> /\ Head(r) = q[m] /\ Tail(r) = t
            /\ r \in Seq(S) /\ t \in Seq(S) /\ q[m] \in S /\ r = <<q[m]>> \o t
<1> DEFINE r == SubSeq(q, m, Len(q))
           t == SubSeq(q, m + 1, Len(q))
<1>1. Len(q) \in Nat /\ m \in Nat /\ 1 <= m /\ m <= Len(q) /\ q[m] \in S
  OBVIOUS
<1>2. Len(q) \in m..Len(q) /\ m + 1 \in Int
  BY <1>1
<1>3. Head(r) = q[m] /\ Tail(r) = t /\ r = <<q[m]>> \o t
  BY <1>2, HeadTailOfSubSeq, SubSeqRecursiveFirst
<1>4. r \in Seq(S) /\ Len(r) = Len(q) - m + 1 /\ t \in Seq(S)
  BY <1>1, <1>2, SubSeqProperties
<1> HIDE DEF r, t
<1>5. r # <<>>
  BY <1>1, <1>4
<1>6. QED BY <1>1, <1>3, <1>4, <1>5 DEF r, t

\* A key that is sent is all still to come.
LEMMA SentIsStill == ASSUME NEW e \in Known PROVE Reads("ground", 0, BytesOf(e), KeysOf(e))
<1>1. PICK L : Runs(e, L)
  BY EveryCourse
<1>2. /\ Len(BytesOf(e)) \in Nat /\ At(e, 0) = "ground" /\ Reported(e, 0) = 0
      /\ BytesOf(e) \in Seq(KeyBytes) /\ KeysOf(e) \in Seq(Codes)
  BY <1>1 DEF Runs
<1>3. SubSeq(BytesOf(e), 1, Len(BytesOf(e))) = BytesOf(e) /\ SubSeq(KeysOf(e), 1, Len(KeysOf(e))) = KeysOf(e)
  BY <1>2, SubSeqFull
<1>4. Still(e, 0, "ground", 0, BytesOf(e), KeysOf(e))
  BY <1>2, <1>3 DEF Still, InStr
<1>5. QED BY <1>2, <1>4 DEF Reads

\* When no byte is still to come, the reader is at rest and all codes are
\* reported, or a limit reports the last of them.
LEMMA NothingStill ==
  ASSUME NEW s, NEW k, NEW ks, Reads(s, k, <<>>, ks)
  PROVE  \/ s \in {"ground", "out"} /\ ks = <<>>
         \/ s = "esc" /\ ks = <<"ESC">>
         \/ s = "str" /\ ks = <<"UNKNOWN">>
<1>1. CASE s = "ground" /\ ks = <<>>
  BY <1>1
<1>2. CASE \E e \in Known : \E j \in 0..Len(BytesOf(e)) : Still(e, j, s, k, <<>>, ks)
  <2>0. PICK e \in Known : \E j \in 0..Len(BytesOf(e)) : Still(e, j, s, k, <<>>, ks)
    BY <1>2
  <2>1. PICK j \in 0..Len(BytesOf(e)) : Still(e, j, s, k, <<>>, ks)
    BY <2>0
  <2>2. PICK L : Runs(e, L)
    BY EveryCourse
  <2>3. L \in Nat /\ Len(BytesOf(e)) = L /\ BytesOf(e) \in Seq(KeyBytes) /\ KeysOf(e) \in Seq(Codes)
    BY <2>2 DEF Runs
  <2>4. j = L
    <3>1. SUFFICES ASSUME j # L PROVE FALSE
      OBVIOUS
    <3>2. j + 1 \in 1..Len(BytesOf(e))
      BY <2>3, <3>1
    <3>3. SubSeq(BytesOf(e), j + 1, Len(BytesOf(e))) # <<>>
      BY <2>3, <3>2, FromPlace
    <3>4. QED BY <2>1, <3>3 DEF Still
  <2>5. s = At(e, L) /\ ks = SubSeq(KeysOf(e), Reported(e, L) + 1, Len(KeysOf(e)))
    BY <2>1, <2>4 DEF Still
  <2>6. Settles(e, L)
    BY <2>2 DEF Runs
  <2>7. CASE s \in {"ground", "out"} /\ Reported(e, L) = Len(KeysOf(e))
    BY <2>3, <2>5, <2>7, SubSeqEmpty
  <2>8. ASSUME Reported(e, L) = 0, Len(KeysOf(e)) = 1 PROVE ks = <<KeysOf(e)[1]>>
    <3>1. ks = SubSeq(KeysOf(e), 1, Len(KeysOf(e)))
      BY <2>5, <2>8
    <3>2. ks = KeysOf(e)
      BY <2>3, <3>1, SubSeqFull
    <3>3. QED BY <2>3, <2>8, <3>2
  <2>9. QED BY <2>5, <2>6, <2>7, <2>8 DEF Settles
<1>3. QED BY <1>1, <1>2 DEF Reads

\* The bytes skipped when the reader has gone from s to t
Passed(s, t, k) == IF t \notin InStr THEN 0 ELSE IF s = "str" /\ t = "str" THEN k + 1 ELSE k

\* The next byte takes the reader on along the course of its key.
LEMMA NextStill ==
  ASSUME NEW s, NEW k \in Nat, NEW bs, NEW ks, Reads(s, k, bs, ks), bs # <<>>
  PROVE  \E t, key, rest :
           /\ Leads(s, Head(bs), t, key) /\ (s = "str" => k + 1 < StrMax)
           /\ rest \in Seq(Codes) /\ (key = "none" \/ key \in Codes)
           /\ ks = (IF key = "none" THEN rest ELSE <<key>> \o rest)
           /\ Reads(t, Passed(s, t, k), Tail(bs), rest)
<1>1. PICK e \in Known : \E j \in 0..Len(BytesOf(e)) : Still(e, j, s, k, bs, ks)
  BY DEF Reads
<1>2. PICK j \in 0..Len(BytesOf(e)) : Still(e, j, s, k, bs, ks)
  BY <1>1
<1>3. PICK L : Runs(e, L)
  BY EveryCourse
<1>4. /\ L \in Nat /\ Len(BytesOf(e)) = L /\ BytesOf(e) \in Seq(KeyBytes) /\ KeysOf(e) \in Seq(Codes)
      /\ Len(KeysOf(e)) \in Nat /\ j \in 0..L
  BY <1>2, <1>3 DEF Runs
<1>5. j < L
  <2>1. SUFFICES ASSUME j = L PROVE FALSE
    BY <1>4
  <2>2. bs = SubSeq(BytesOf(e), L + 1, L)
    BY <1>2, <1>4, <2>1 DEF Still
  <2>3. QED BY <1>4, <2>2, SubSeqEmpty
<1>6. j + 1 \in 1..L /\ (j + 1) - 1 = j /\ j + 1 \in 0..L /\ j \in Nat
  BY <1>4, <1>5
<1> DEFINE r == Reported(e, j)
           r1 == Reported(e, j + 1)
           t == At(e, j + 1)
           key == KeyAt(e, j + 1)
           rest == SubSeq(KeysOf(e), r1 + 1, Len(KeysOf(e)))
<1>7. Follows(e, j + 1)
  BY <1>3, <1>6 DEF Runs
<1>8. /\ Leads(At(e, j), BytesOf(e)[j + 1], t, key)
      /\ r1 \in {r, r + 1} /\ r1 \in 0..Len(KeysOf(e)) /\ (r1 # r => key # "none")
      /\ (At(e, j) = "str" => j + 1 <= 4) /\ (t \in InStr => j + 1 >= 2)
  BY <1>6, <1>7 DEF Follows
<1>9. /\ s = At(e, j) /\ bs = SubSeq(BytesOf(e), j + 1, L) /\ ks = SubSeq(KeysOf(e), r + 1, Len(KeysOf(e)))
      /\ IF s \in InStr THEN k + 2 <= j ELSE k = 0
  BY <1>2, <1>4 DEF Still
<1>10. Head(bs) = BytesOf(e)[j + 1] /\ Tail(bs) = SubSeq(BytesOf(e), (j + 1) + 1, L)
  BY <1>4, <1>6, <1>9, FromPlace
<1>11. key = IF r1 = r THEN "none" ELSE KeysOf(e)[r1]
  BY <1>6 DEF KeyAt
<1>12. /\ ks = (IF key = "none" THEN rest ELSE <<key>> \o rest) /\ rest \in Seq(Codes)
       /\ key = "none" \/ key \in Codes
  <2>1. CASE r1 = r
    <3>1. key = "none" /\ rest = ks
      BY <1>9, <1>11, <2>1
    <3>2. rest \in Seq(Codes)
      <4>1. r1 + 1 \in Int /\ Len(KeysOf(e)) \in Int /\ \A i \in r1 + 1..Len(KeysOf(e)) : KeysOf(e)[i] \in Codes
        BY <1>4, <1>8
      <4> HIDE DEF r1
      <4>2. QED BY <4>1, SubSeqProperties
    <3>3. QED BY <3>1, <3>2
  <2>2. CASE r1 # r
    <3>1. r1 = r + 1 /\ key = KeysOf(e)[r1] /\ key # "none"
      BY <1>8, <1>11, <2>2
    <3>2. r1 \in 1..Len(KeysOf(e))
      <4>1. r \in Nat
        BY <1>6 DEF Reported
      <4>2. r1 # 0
        BY <3>1, <4>1
      <4>3. QED BY <1>4, <1>8, <4>2
    <3>3. ks = SubSeq(KeysOf(e), r1, Len(KeysOf(e)))
      BY <1>9, <3>1
    <3> HIDE DEF r1, key
    <3>4. /\ SubSeq(KeysOf(e), r1, Len(KeysOf(e))) = <<KeysOf(e)[r1]>> \o SubSeq(KeysOf(e), r1 + 1, Len(KeysOf(e)))
          /\ SubSeq(KeysOf(e), r1 + 1, Len(KeysOf(e))) \in Seq(Codes)
      BY <1>4, <3>2, FromPlace
    <3>5. key \in Codes
      BY <1>4, <3>1, <3>2
    <3>6. QED BY <3>1, <3>3, <3>4, <3>5
  <2>3. QED BY <2>1, <2>2
<1>13. s = "str" => k + 1 < StrMax
  BY <1>4, <1>6, <1>8, <1>9, KeyReaderAssumption DEF InStr
<1>14. IF t \in InStr THEN Passed(s, t, k) + 2 <= j + 1 ELSE Passed(s, t, k) = 0
  <2>1. CASE t \notin InStr
    BY <2>1 DEF Passed
  <2>2. CASE t \in InStr
    <3>1. Passed(s, t, k) \in {k, k + 1} /\ (Passed(s, t, k) = k + 1 => s = "str" \/ k = k + 1)
      BY <2>2 DEF Passed
    <3>2. CASE s \in InStr
      BY <1>6, <1>9, <2>2, <3>1, <3>2
    <3>3. CASE s \notin InStr
      BY <1>6, <1>8, <1>9, <2>2, <3>1, <3>3 DEF InStr
    <3>4. QED BY <3>2, <3>3
  <2>3. QED BY <2>1, <2>2
<1>15. Still(e, j + 1, t, Passed(s, t, k), Tail(bs), rest)
  BY <1>4, <1>10, <1>14 DEF Still
<1>16. Reads(t, Passed(s, t, k), Tail(bs), rest)
  BY <1>4, <1>6, <1>15 DEF Reads
<1> HIDE DEF t, key, rest
<1>17. QED BY <1>8, <1>9, <1>10, <1>12, <1>13, <1>16

-----------------------------------------------------------------------------
(* Key reading: the invariant *)

\* The bytes bs are under way: on Windows the first record brings all of them,
\* and a record without bytes may follow
Arriving(bs) == IF platform = "posix" THEN wire = [i \in DOMAIN bs |-> <<bs[i]>>]
                ELSE bs = <<>> /\ wire \in {<<>>, << <<>> >>}

\* Where nothing was torn, either the caller has given up; or what was sent
\* last has begun, and its rest brings the codes that are due; or it waits behind the
\* rest of the key before it
GivenUp  == rd = "out" /\ IsPrefix(got, due)
UnderWay == begun /\ \E bs \in Seq(KeyBytes), ks \in Seq(Codes) :
              Arriving(bs) /\ Reads(rd, skipped, cache \o bs, ks) /\ due = got \o ks
Behind   == ~begun /\ \E e \in Sends, ks \in Seq(Codes) :
              /\ wire = Arrivals(BytesOf(e)) /\ Reads(rd, skipped, cache, ks)
              /\ due = (got \o ks) \o KeysOf(e)
KeyPlaces == /\ rd \notin InStr => skipped = 0
             /\ platform = "posix" => \A i \in DOMAIN wire : wire[i] # <<>>
KeyInv == KeyTypeOK /\ KeyPlaces /\ (torn \/ GivenUp \/ UnderWay \/ Behind)

\* The bytes of a key and the codes it stands for are those of KeyTypeOK.
LEMMA SentType == ASSUME NEW e \in DOMAIN Terminal
                  PROVE  BytesOf(e) \in Seq(KeyBytes) /\ BytesOf(e) # <<>> /\ KeysOf(e) \in Seq(Codes)
<1>1. CASE e \in Known
  BY <1>1, EveryCourse DEF Runs
<1>2. CASE e = "f5"
  <2>1. BytesOf("f5") = <<"ESC", "[", "1", "5", "~">> /\ KeysOf("f5") = <<"UNKNOWN">>
    BY DEF BytesOf, KeysOf, Terminal
  <2>2. <<"ESC", "[", "1", "5", "~">> \in Seq(KeyBytes) /\ <<"UNKNOWN">> \in Seq(Codes)
    BY DEF KeyBytes, Codes
  <2>3. <<"ESC", "[", "1", "5", "~">> # <<>>
    OBVIOUS
  <2>4. QED BY <1>2, <2>1, <2>2, <2>3
<1>3. QED BY <1>1, <1>2 DEF Known

\* A table gives a state or a code.
LEMMA ReachedType == \A s, b : Reached(s, b) \in States \cup Codes
<1>1. /\ \A b : Tilde(b, "F9") \in Codes /\ Tilde(b, "F10") \in Codes /\ Tilde(b, "PASTE_START") \in Codes
      /\ \A b : Tilde(b, "PGDN") \in Codes
  BY DEF Tilde, Codes
<1>2. \A b, l, r : Sideways(b, l, r) \in {l, r, "UNKNOWN"}
  BY Zenon DEF Sideways
<1>3. \A b : Arrows(b) = "UP" \/ Arrows(b) = "DOWN" \/ Arrows(b) = Sideways(b, "LEFT", "RIGHT")
  BY Zenon DEF Arrows
<1>4. \A b : Arrows(b) \in Codes
  BY <1>2, <1>3 DEF Codes
<1>5. \A b : Escape(b) \in {"csi", "ss3", "str", "ALT_B", "ALT_F", "UNKNOWN"}
  BY Zenon DEF Escape
<1>6. \A b : Bracket(b) \in {"HOME", "END", "one", "two", "three", "five", "six"} \/ Bracket(b) = Arrows(b)
  BY Zenon DEF Bracket
<1>7. \A b : Modifier(b) \in {"ctrl", "alt", "other"} /\ Two(b) \in {"two0", "two1", "UNKNOWN"}
  BY Zenon DEF Modifier, Two
<1>8. \A b : TwoZero(b) = "two00" \/ TwoZero(b) = Tilde(b, "F9")
  BY DEF TwoZero
<1>9. TAKE s, b
<1>10. \/ Reached(s, b) \in {Escape(b), Bracket(b), Arrows(b), Modifier(b), Two(b), TwoZero(b)}
       \/ Reached(s, b) \in {"mod", "UNKNOWN", "DEL", "PGUP", Tilde(b, "F10"), Tilde(b, "PASTE_START"), Tilde(b, "PGDN")}
       \/ Reached(s, b) \in {Sideways(b, "CTRL_LEFT", "CTRL_RIGHT"), Sideways(b, "ALT_LEFT", "ALT_RIGHT")}
  BY Zenon DEF Reached
<1>11. Sideways(b, "CTRL_LEFT", "CTRL_RIGHT") \in Codes /\ Sideways(b, "ALT_LEFT", "ALT_RIGHT") \in Codes
  BY <1>2 DEF Codes
<1>12. {Escape(b), Bracket(b), Modifier(b), Two(b), TwoZero(b)} \subseteq States \cup Codes
  BY <1>1, <1>4, <1>5, <1>6, <1>7, <1>8 DEF Codes, States, InSeq, InStr
<1>13. {"mod", "UNKNOWN", "DEL", "PGUP"} \subseteq States \cup Codes
  BY DEF Codes, States, InSeq
<1>14. QED BY <1>1, <1>4, <1>10, <1>11, <1>12, <1>13

\* The four steps that take a byte
Taking == FirstByte \/ InSequence \/ InString \/ AfterStrEsc

\* A byte that comes first
LEMMA FirstIs ==
  ASSUME FirstByte
  PROVE  /\ Head(cache) = "ESC" => rd' = "esc" /\ got' = got
         /\ Head(cache) = "NUL" => rd' = "out" /\ got' = Append(got, "EOF")
         /\ Head(cache) \notin {"ESC", "NUL"} => rd' = "ground" /\ got' = Append(got, Head(cache))
         /\ rd = "ground" /\ skipped' = skipped
<1>1. \/ Head(cache) = "ESC" /\ rd' = "esc" /\ got' = got
      \/ Head(cache) = "NUL" /\ rd' = "out" /\ got' = Append(got, "EOF")
      \/ Head(cache) # "ESC" /\ Head(cache) # "NUL" /\ rd' = "ground" /\ got' = Append(got, Head(cache))
  BY Zenon DEF FirstByte, Report
<1>2. rd = "ground" /\ skipped' = skipped
  BY DEF FirstByte
<1>3. QED BY <1>1, <1>2

\* A byte of a control string
LEMMA StringIs ==
  ASSUME InString
  PROVE  /\ Head(cache) = "ESC" => rd' = "strEsc" /\ got' = got /\ skipped' = skipped
         /\ Head(cache) # "ESC" /\ StrEnds(Head(cache)) => rd' = "ground" /\ got' = Append(got, "UNKNOWN") /\ skipped' = 0
         /\ Head(cache) # "ESC" /\ ~StrEnds(Head(cache)) => rd' = "str" /\ got' = got /\ skipped' = skipped + 1
         /\ rd = "str"
  BY DEF InString, Report

\* What every one of them keeps, and what it takes
LEMMA TakingIs ==
  ASSUME KeyTypeOK, Taking
  PROVE  /\ cache # <<>> /\ Head(cache) \in KeyBytes /\ cache' = Tail(cache) /\ cache' \in Seq(KeyBytes)
         /\ platform' = platform /\ wire' = wire /\ blocked' = blocked /\ open' = open /\ due' = due
         /\ torn' = torn /\ begun' = begun /\ sends' = sends /\ gaps' = gaps
         /\ rd \in {"ground"} \cup InSeq \cup InStr
<1>1. /\ cache # <<>> /\ cache' = Tail(cache)
      /\ platform' = platform /\ wire' = wire /\ blocked' = blocked /\ open' = open /\ due' = due
      /\ torn' = torn /\ begun' = begun /\ sends' = sends /\ gaps' = gaps
  BY DEF Taking, FirstByte, InSequence, InString, AfterStrEsc, Taken, Rest
<1>2. cache \in Seq(KeyBytes)
  BY DEF KeyTypeOK
<1>3. rd \in {"ground"} \cup InSeq \cup InStr
  BY DEF Taking, FirstByte, InSequence, InString, AfterStrEsc, InStr
<1>4. QED BY <1>1, <1>2, <1>3

\* The reader's state, the codes and the count stay what KeyTypeOK says.
LEMMA TakingTyped ==
  ASSUME KeyTypeOK, KeyPlaces, Taking
  PROVE  /\ rd' \in States /\ skipped' \in 0..StrMax - 1 /\ got' \in Seq(Codes)
         /\ rd' \notin InStr => skipped' = 0
<1>1. /\ rd \in States /\ skipped \in 0..StrMax - 1 /\ got \in Seq(Codes) /\ Head(cache) \in KeyBytes
      /\ StrMax \in Nat /\ StrMax > 2
  BY TakingIs, KeyReaderAssumption DEF KeyTypeOK
<1>2. KeyBytes \subseteq Codes /\ "UNKNOWN" \in Codes /\ "EOF" \in Codes
  BY DEF Codes
<1>3. \A c \in Codes : Append(got, c) \in Seq(Codes)
  BY <1>1
<1>4. rd \notin InStr => skipped = 0
  BY DEF KeyPlaces
<1>5. CASE FirstByte
  <2>1. rd = "ground" /\ skipped' = 0 /\ rd' \in {"esc", "out", "ground"}
    BY <1>4, <1>5, FirstIs DEF InStr
  <2>2. got' = got \/ got' = Append(got, "EOF") \/ got' = Append(got, Head(cache))
    BY <1>5, FirstIs
  <2>3. QED BY <1>1, <1>2, <1>3, <2>1, <2>2 DEF States, InSeq
<1>6. CASE InSequence
  <2>1. rd \in InSeq /\ skipped' = skipped
    BY <1>6 DEF InSequence
  <2>2. skipped' = 0
    BY <1>4, <2>1 DEF InSeq, InStr
  <2> DEFINE to == Reached(rd, Head(cache))
  <2>3. IF to \in States THEN rd' = to /\ got' = got ELSE rd' = "ground" /\ got' = Append(got, to)
    BY <1>6 DEF InSequence, Report
  <2>4. to \in States \cup Codes
    BY ReachedType
  <2> HIDE DEF to
  <2>5. rd' \in States /\ got' \in Seq(Codes)
    <3>1. CASE to \in States
      BY <1>1, <2>3, <3>1
    <3>2. CASE to \notin States
      <4>1. to \in Codes /\ rd' = "ground" /\ got' = Append(got, to)
        BY <2>3, <2>4, <3>2
      <4>2. QED BY <1>3, <4>1 DEF States
    <3>3. QED BY <3>1, <3>2
  <2>6. QED BY <1>1, <2>2, <2>5
<1>7. CASE InString
  <2>1. CASE Head(cache) = "ESC"
    <3>1. rd' = "strEsc" /\ got' = got /\ skipped' = skipped
      BY <1>7, <2>1, StringIs
    <3>2. QED BY <1>1, <3>1 DEF States, InStr
  <2>2. CASE Head(cache) # "ESC" /\ StrEnds(Head(cache))
    <3>1. rd' = "ground" /\ got' = Append(got, "UNKNOWN") /\ skipped' = 0
      BY <1>7, <2>2, StringIs
    <3>2. QED BY <1>1, <1>2, <1>3, <3>1 DEF States, InStr
  <2>3. CASE Head(cache) # "ESC" /\ ~StrEnds(Head(cache))
    <3>1. rd' = "str" /\ got' = got /\ skipped' = skipped + 1
      BY <1>7, <2>3, StringIs
    <3>2. skipped + 1 < StrMax
      BY <1>1, <2>3 DEF StrEnds
    <3>3. QED BY <1>1, <3>1, <3>2 DEF States, InStr
  <2>4. QED BY <2>1, <2>2, <2>3
<1>8. CASE AfterStrEsc
  <2>1. IF Head(cache) = "bslash" \/ skipped + 1 >= StrMax
        THEN rd' = "ground" /\ got' = Append(got, "UNKNOWN") /\ skipped' = 0
        ELSE rd' = "str" /\ skipped' = skipped + 1 /\ got' = got
    BY <1>8 DEF AfterStrEsc, Report
  <2>2. CASE Head(cache) = "bslash" \/ skipped + 1 >= StrMax
    <3>1. rd' = "ground" /\ got' = Append(got, "UNKNOWN") /\ skipped' = 0
      BY <2>1, <2>2
    <3>2. QED BY <1>1, <1>2, <1>3, <3>1 DEF States, InStr
  <2>3. CASE ~(Head(cache) = "bslash" \/ skipped + 1 >= StrMax)
    <3>1. rd' = "str" /\ skipped' = skipped + 1 /\ got' = got /\ skipped + 1 < StrMax
      BY <1>1, <2>1, <2>3
    <3>2. QED BY <1>1, <3>1 DEF States, InStr
  <2>4. QED BY <2>2, <2>3
<1>9. QED BY <1>5, <1>6, <1>7, <1>8 DEF Taking

\* Where a byte leads, a step that takes it goes.
LEMMA TakingLeads ==
  ASSUME KeyTypeOK, KeyPlaces, Taking, NEW t, NEW key, Leads(rd, Head(cache), t, key),
         rd = "str" => skipped + 1 < StrMax
  PROVE  /\ rd' = t /\ got' = (IF key = "none" THEN got ELSE Append(got, key))
         /\ skipped' = Passed(rd, t, skipped)
<1>1. CASE FirstByte
  <2>1. rd = "ground" /\ skipped' = 0
    BY <1>1, FirstIs DEF KeyPlaces, InStr
  <2>2. t \in {"esc", "out", "ground"}
    BY <2>1 DEF Leads, InSeq
  <2>3. Passed(rd, t, skipped) = 0
    BY <2>2 DEF Passed, InStr
  <2>4. rd' = t /\ got' = (IF key = "none" THEN got ELSE Append(got, key))
    BY <1>1, <2>1, FirstIs DEF Leads, InSeq
  <2>5. QED BY <2>1, <2>3, <2>4
<1>2. CASE InSequence
  <2> DEFINE to == Reached(rd, Head(cache))
  <2>1. /\ rd \in InSeq /\ skipped' = skipped
        /\ IF to \in States THEN rd' = to /\ got' = got ELSE rd' = "ground" /\ got' = Append(got, to)
    BY <1>2 DEF InSequence, Report
  <2>2. skipped = 0
    BY <2>1 DEF KeyPlaces, InSeq, InStr
  <2> HIDE DEF to
  <2>3. \/ to = t /\ t \in InSeq \cup {"str"} /\ key = "none"
        \/ to = key /\ key \notin States /\ key # "none" /\ t = "ground"
    BY <2>1 DEF Leads, to, InSeq
  <2>4. CASE to = t /\ t \in InSeq \cup {"str"} /\ key = "none"
    <3>1. t \in States /\ rd # "str"
      BY <2>1, <2>4 DEF States, InStr, InSeq
    <3>2. Passed(rd, t, skipped) = 0
      BY <2>2, <3>1 DEF Passed
    <3>3. QED BY <2>1, <2>2, <2>4, <3>1, <3>2
  <2>5. CASE to = key /\ key \notin States /\ key # "none" /\ t = "ground"
    <3>1. Passed(rd, t, skipped) = 0
      BY <2>5 DEF Passed, InStr
    <3>2. QED BY <2>1, <2>2, <2>5, <3>1
  <2>6. QED BY <2>3, <2>4, <2>5
<1>3. CASE InString
  <2>1. rd = "str"
    BY <1>3, StringIs
  <2>2. \/ Head(cache) = "ESC" /\ t = "strEsc" /\ key = "none"
        \/ Head(cache) = "BEL" /\ t = "ground" /\ key = "UNKNOWN"
        \/ Head(cache) \notin {"ESC", "BEL"} /\ t = "str" /\ key = "none"
    BY <2>1 DEF Leads, InSeq
  <2>3. CASE Head(cache) = "ESC" /\ t = "strEsc" /\ key = "none"
    <3>1. Passed(rd, t, skipped) = skipped
      BY <2>3 DEF Passed, InStr
    <3>2. QED BY <1>3, <2>3, <3>1, StringIs
  <2>4. CASE Head(cache) = "BEL" /\ t = "ground" /\ key = "UNKNOWN"
    <3>1. Passed(rd, t, skipped) = 0 /\ StrEnds(Head(cache))
      BY <2>4 DEF Passed, InStr, StrEnds
    <3>2. QED BY <1>3, <2>4, <3>1, StringIs
  <2>5. CASE Head(cache) \notin {"ESC", "BEL"} /\ t = "str" /\ key = "none"
    <3>1. Passed(rd, t, skipped) = skipped + 1
      BY <2>1, <2>5 DEF Passed, InStr
    <3>2. ~StrEnds(Head(cache))
      BY <2>1, <2>5, KeyReaderAssumption DEF StrEnds, KeyTypeOK
    <3>3. QED BY <1>3, <2>5, <3>1, <3>2, StringIs
  <2>6. QED BY <2>2, <2>3, <2>4, <2>5
<1>4. CASE AfterStrEsc
  <2>1. rd = "strEsc"
    BY <1>4 DEF AfterStrEsc
  <2>2. Head(cache) = "bslash" /\ t = "ground" /\ key = "UNKNOWN"
    BY <2>1 DEF Leads, InSeq
  <2>3. Passed(rd, t, skipped) = 0
    BY <2>2 DEF Passed, InStr
  <2>4. rd' = "ground" /\ got' = Append(got, "UNKNOWN") /\ skipped' = 0
    BY <1>4, <2>2 DEF AfterStrEsc, Report
  <2>5. QED BY <2>2, <2>3, <2>4
<1>5. QED BY <1>1, <1>2, <1>3, <1>4 DEF Taking

\* A code appended is the first of what was still due.
LEMMA AppendJoin ==
  ASSUME NEW a \in Seq(Codes), NEW c \in Codes, NEW b \in Seq(Codes)
  PROVE  a \o (<<c>> \o b) = Append(a, c) \o b
<1> DEFINE h == <<c>>
<1>1. h \in Seq(Codes) /\ a \o h = Append(a, c)
  <2>1. h \in Seq(Codes) /\ Len(h) = 1 /\ h[1] = c
    OBVIOUS
  <2>2. QED BY <2>1
<1>2. (a \o h) \o b = a \o (h \o b)
  BY <1>1, ConcatAssociative
<1>3. QED BY <1>1, <1>2

\* The first byte of what is taken from and what is under way
LEMMA ConcatHead ==
  ASSUME NEW c \in Seq(KeyBytes), NEW b \in Seq(KeyBytes), c # <<>>
  PROVE  c \o b # <<>> /\ Head(c \o b) = Head(c) /\ Tail(c \o b) = Tail(c) \o b
<1> DEFINE h == <<Head(c)>>
           t == Tail(c)
<1>1. h \in Seq(KeyBytes) /\ t \in Seq(KeyBytes) /\ Head(c) \in KeyBytes
  OBVIOUS
<1>2. c = h \o t
  <2>1. Len(c) \in Nat /\ 1 \in 1..Len(c) /\ Len(c) \in 1..Len(c)
    OBVIOUS
  <2>2. SubSeq(c, 1, Len(c)) = <<c[1]>> \o SubSeq(c, 1 + 1, Len(c))
    BY <2>1, SubSeqRecursiveFirst
  <2>3. SubSeq(c, 1, Len(c)) = c /\ t = SubSeq(c, 2, Len(c)) /\ Head(c) = c[1]
    BY SubSeqFull, TailIsSubSeq
  <2>4. QED BY <2>2, <2>3
<1>3. t \o b \in Seq(KeyBytes)
  BY <1>1, ConcatProperties
<1>4. ASSUME NEW r \in Seq(KeyBytes) PROVE h \o r # <<>> /\ Head(h \o r) = Head(c) /\ Tail(h \o r) = r
  BY <1>1, <1>4
<1>5. (h \o t) \o b = h \o (t \o b)
  <2> HIDE DEF h, t
  <2>1. QED BY <1>1, ConcatAssociative
<1> HIDE DEF h, t
<1>6. c \o b = h \o (t \o b)
  BY <1>2, <1>5
<1>7. QED BY <1>3, <1>4, <1>6 DEF t

-----------------------------------------------------------------------------
(* Key reading: each step keeps the invariant *)

\* The rest of a key is read by the same step in the invariant's two cases.
LEMMA TakingReads ==
  ASSUME KeyTypeOK, KeyPlaces, Taking, NEW bs \in Seq(KeyBytes), NEW ks \in Seq(Codes),
         Reads(rd, skipped, cache \o bs, ks)
  PROVE  \E rest \in Seq(Codes) :
           Reads(rd', skipped', cache' \o bs, rest) /\ got \o ks = got' \o rest
<1>1. /\ cache \in Seq(KeyBytes) /\ cache # <<>> /\ cache' = Tail(cache)
      /\ skipped \in Nat /\ got \in Seq(Codes)
  BY TakingIs DEF KeyTypeOK
<1>2. /\ cache \o bs # <<>> /\ Head(cache \o bs) = Head(cache)
      /\ Tail(cache \o bs) = cache' \o bs
  BY <1>1, ConcatHead
<1>3. PICK t, key, rest :
           /\ Leads(rd, Head(cache), t, key) /\ (rd = "str" => skipped + 1 < StrMax)
           /\ rest \in Seq(Codes) /\ (key = "none" \/ key \in Codes)
           /\ ks = (IF key = "none" THEN rest ELSE <<key>> \o rest)
           /\ Reads(t, Passed(rd, t, skipped), cache' \o bs, rest)
  <2> DEFINE all == cache \o bs
  <2>1. all # <<>> /\ Head(all) = Head(cache) /\ Tail(all) = cache' \o bs /\ Reads(rd, skipped, all, ks)
    BY <1>2
  <2> HIDE DEF all
  <2>2. \E t, key, rest :
           /\ Leads(rd, Head(all), t, key) /\ (rd = "str" => skipped + 1 < StrMax)
           /\ rest \in Seq(Codes) /\ (key = "none" \/ key \in Codes)
           /\ ks = (IF key = "none" THEN rest ELSE <<key>> \o rest)
           /\ Reads(t, Passed(rd, t, skipped), Tail(all), rest)
    BY <1>1, <2>1, NextStill
  <2>3. QED BY <2>1, <2>2
<1>4. /\ rd' = t /\ skipped' = Passed(rd, t, skipped)
      /\ got' = (IF key = "none" THEN got ELSE Append(got, key))
  BY <1>3, TakingLeads
<1>5. got \o ks = got' \o rest
  <2>1. CASE key = "none"
    BY <1>3, <1>4, <2>1
  <2>2. CASE key # "none"
    BY <1>1, <1>3, <1>4, <2>2, AppendJoin
  <2>3. QED BY <2>1, <2>2
<1>6. QED BY <1>3, <1>4, <1>5

LEMMA InvTaking == ASSUME KeyInv, Taking PROVE KeyInv'
<1>1. KeyTypeOK /\ KeyPlaces
  BY DEF KeyInv
<1>2. /\ platform' = platform /\ wire' = wire /\ blocked' = blocked /\ open' = open /\ due' = due
      /\ torn' = torn /\ begun' = begun /\ sends' = sends /\ gaps' = gaps
      /\ cache' \in Seq(KeyBytes) /\ rd # "out"
  BY <1>1, TakingIs DEF InSeq, InStr
<1>3. /\ rd' \in States /\ skipped' \in 0..StrMax - 1 /\ got' \in Seq(Codes)
      /\ rd' \notin InStr => skipped' = 0
  BY <1>1, TakingTyped
<1>4. KeyTypeOK' /\ KeyPlaces'
  BY <1>1, <1>2, <1>3 DEF KeyTypeOK, KeyPlaces
<1>5. CASE UnderWay
  <2>1. PICK bs \in Seq(KeyBytes), ks \in Seq(Codes) :
          Arriving(bs) /\ Reads(rd, skipped, cache \o bs, ks) /\ due = got \o ks
    BY <1>5 DEF UnderWay
  <2>2. PICK rest \in Seq(Codes) : Reads(rd', skipped', cache' \o bs, rest) /\ got \o ks = got' \o rest
    BY <1>1, <2>1, TakingReads
  <2>3. Arriving(bs)' /\ begun' /\ due' = got' \o rest
    BY <1>2, <1>5, <2>1, <2>2 DEF Arriving, UnderWay
  <2>4. UnderWay'
    BY <2>2, <2>3 DEF UnderWay
  <2>5. QED BY <1>4, <2>4 DEF KeyInv
<1>6. CASE Behind
  <2>1. PICK e \in Sends, ks \in Seq(Codes) :
          wire = Arrivals(BytesOf(e)) /\ Reads(rd, skipped, cache, ks) /\ due = (got \o ks) \o KeysOf(e)
    BY <1>6 DEF Behind
  <2>2. <<>> \in Seq(KeyBytes) /\ cache \o <<>> = cache /\ cache' \o <<>> = cache'
    BY <1>1, <1>2, ConcatEmptySeq DEF KeyTypeOK
  <2>3. PICK rest \in Seq(Codes) : Reads(rd', skipped', cache' \o <<>>, rest) /\ got \o ks = got' \o rest
    BY <1>1, <2>1, <2>2, TakingReads
  <2>4. wire' = Arrivals(BytesOf(e))' /\ ~begun' /\ due' = (got' \o rest) \o KeysOf(e)
    BY <1>2, <1>6, <2>1, <2>3 DEF Arrivals, Behind, BytesOf, KeysOf
  <2>5. Behind'
    BY <2>2, <2>3, <2>4 DEF Behind
  <2>6. QED BY <1>4, <2>5 DEF KeyInv
<1>7. CASE torn
  BY <1>2, <1>4, <1>7 DEF KeyInv
<1>8. ~GivenUp
  BY <1>2 DEF GivenUp
<1>9. QED BY <1>5, <1>6, <1>7, <1>8 DEF KeyInv

\* What is sent is in pieces that are not empty, but for the last on Windows.
LEMMA ArrivalsAre ==
  ASSUME NEW e \in DOMAIN Terminal
  PROVE  /\ Arrivals(BytesOf(e)) \in Seq(Seq(KeyBytes)) /\ Arrivals(BytesOf(e)) # <<>>
         /\ platform = "posix" => \A i \in DOMAIN Arrivals(BytesOf(e)) : Arrivals(BytesOf(e))[i] # <<>>
<1> DEFINE b == BytesOf(e)
<1>1. b \in Seq(KeyBytes) /\ b # <<>> /\ Len(b) \in Nat /\ Len(b) > 0
  BY SentType
<1> HIDE DEF b
<1>2. CASE platform = "posix"
  <2> DEFINE w == [i \in 1..Len(b) |-> <<b[i]>>]
  <2>1. Arrivals(b) = w
    <3>1. DOMAIN b = 1..Len(b)
      BY <1>1
    <3>2. QED BY <1>2, <3>1 DEF Arrivals
  <2>2. \A i \in 1..Len(b) : <<b[i]>> \in Seq(KeyBytes) /\ <<b[i]>> # <<>>
    BY <1>1
  <2>3. w \in Seq(Seq(KeyBytes)) /\ Len(w) = Len(b) /\ DOMAIN w = 1..Len(b)
    BY <1>1, <2>2
  <2>4. \A i \in DOMAIN w : w[i] # <<>>
    BY <2>2
  <2> HIDE DEF w
  <2>5. w # <<>>
    BY <1>1, <2>3
  <2>6. QED BY <2>1, <2>3, <2>4, <2>5 DEF b
<1>3. CASE platform # "posix"
  <2>1. Arrivals(b) = <<b, <<>> >>
    BY <1>3 DEF Arrivals
  <2>2. <<b, <<>> >> \in Seq(Seq(KeyBytes)) /\ <<b, <<>> >> # <<>>
    BY <1>1
  <2>3. QED BY <1>3, <2>1, <2>2 DEF b
<1>4. QED BY <1>2, <1>3

LEMMA PrefixOfJoin ==
  ASSUME NEW a \in Seq(Codes), NEW b \in Seq(Codes) PROVE IsPrefix(a, a \o b)
<1>1. /\ a \o b \in Seq(Codes) /\ Len(a \o b) = Len(a) + Len(b)
      /\ \A i \in 1..Len(a) : (a \o b)[i] = a[i]
  BY ConcatProperties
<1>2. Len(a) \in Nat /\ Len(b) \in Nat /\ Len(a) <= Len(a \o b)
  BY <1>1
<1>3. SubSeq(a \o b, 1, Len(a)) = SubSeq(a, 1, Len(a))
  <2> DEFINE s == a \o b
  <2>1. \A i \in 1..Len(a) : s[i] \in Codes /\ s[i] = a[i]
    BY <1>1
  <2> HIDE DEF s
  <2>2. /\ SubSeq(s, 1, Len(a)) \in Seq(Codes) /\ Len(SubSeq(s, 1, Len(a))) = Len(a)
        /\ \A i \in 1..Len(a) : SubSeq(s, 1, Len(a))[i] = a[i]
    BY <1>2, <2>1, SubSeqProperties
  <2>3. SubSeq(s, 1, Len(a)) = a
    BY <2>2, SeqEqual
  <2>4. QED BY <2>3, SubSeqFull DEF s
<1>4. QED BY <1>2, <1>3 DEF IsPrefix

\* A prefix of the keys that are due is one of more of them.
LEMMA PrefixGrows ==
  ASSUME NEW a \in Seq(Codes), NEW b \in Seq(Codes), NEW d \in Seq(Codes), IsPrefix(a, b)
  PROVE  IsPrefix(a, b \o d)
<1>1. Len(a) \in Nat /\ Len(b) \in Nat /\ Len(a) <= Len(b) /\ SubSeq(a, 1, Len(a)) = SubSeq(b, 1, Len(a))
  BY DEF IsPrefix
<1>2. /\ b \o d \in Seq(Codes) /\ Len(b \o d) = Len(b) + Len(d) /\ Len(d) \in Nat
      /\ \A i \in 1..Len(b) : (b \o d)[i] = b[i]
  BY ConcatProperties
<1> DEFINE s == b \o d
<1> HIDE DEF s
<1>3. \A i \in 1..Len(a) : s[i] \in Codes /\ s[i] = b[i] /\ b[i] \in Codes
  BY <1>1, <1>2 DEF s
<1>4. /\ SubSeq(s, 1, Len(a)) \in Seq(Codes) /\ Len(SubSeq(s, 1, Len(a))) = Len(a)
      /\ \A i \in 1..Len(a) : SubSeq(s, 1, Len(a))[i] = s[i]
  BY <1>1, <1>3, SubSeqProperties
<1>5. /\ SubSeq(b, 1, Len(a)) \in Seq(Codes) /\ Len(SubSeq(b, 1, Len(a))) = Len(a)
      /\ \A i \in 1..Len(a) : SubSeq(b, 1, Len(a))[i] = b[i]
  BY <1>1, <1>3, SubSeqProperties
<1>6. SubSeq(s, 1, Len(a)) = SubSeq(b, 1, Len(a))
  BY <1>3, <1>4, <1>5, SeqEqual
<1>7. Len(a) <= Len(s)
  BY <1>1, <1>2 DEF s
<1>8. QED BY <1>1, <1>6, <1>7 DEF IsPrefix, s

\* Nothing is sent but what xterm sends and the code knows.
Understood == "f5" \notin Sends

LEMMA TypeSend ==
  ASSUME KeyTypeOK, KeyPlaces, NEW e \in Sends, Send(e)
  PROVE  KeyTypeOK' /\ KeyPlaces'
<1>1. e \in DOMAIN Terminal
  BY KeyReaderAssumption
<1>2. /\ BytesOf(e) = Terminal[e].bytes /\ KeysOf(e) = Terminal[e].keys
      /\ KeysOf(e) \in Seq(Codes)
  BY <1>1, SentType DEF BytesOf, KeysOf
<1>3. /\ wire' = Arrivals(BytesOf(e)) /\ begun' = FALSE /\ sends < MaxSends /\ sends' = sends + 1
      /\ due' = (IF Quiet THEN <<>> ELSE due) \o KeysOf(e) /\ got' = (IF Quiet THEN <<>> ELSE got)
      /\ torn' = (~Quiet /\ torn)
      /\ platform' = platform /\ rd' = rd /\ cache' = cache /\ blocked' = blocked
      /\ skipped' = skipped /\ open' = open /\ gaps' = gaps
  BY <1>2 DEF Send
<1>4. /\ wire' \in Seq(Seq(KeyBytes))
      /\ platform' = "posix" => \A i \in DOMAIN wire' : wire'[i] # <<>>
  BY <1>1, <1>3, ArrivalsAre
<1>5. due' \in Seq(Codes) /\ got' \in Seq(Codes)
  <2>1. due \in Seq(Codes) /\ got \in Seq(Codes) /\ <<>> \in Seq(Codes)
    BY DEF KeyTypeOK
  <2>2. \A d \in Seq(Codes) : d \o KeysOf(e) \in Seq(Codes)
    BY <1>2, ConcatProperties
  <2>3. QED BY <1>3, <2>1, <2>2
<1>6. sends' \in 0..MaxSends
  BY <1>3, KeyReaderAssumption DEF KeyTypeOK
<1>7. torn' \in BOOLEAN
  BY <1>3
<1>8. QED BY <1>3, <1>4, <1>5, <1>6, <1>7 DEF KeyTypeOK, KeyPlaces

LEMMA InvSend == ASSUME Understood, KeyInv, NEW e \in Sends, Send(e) PROVE KeyInv'
<1>1. KeyTypeOK /\ KeyPlaces /\ KeyTypeOK' /\ KeyPlaces'
  BY TypeSend DEF KeyInv
<1>2. e \in Known
  BY KeyReaderAssumption DEF Understood, Known
<1>3. BytesOf(e) = Terminal[e].bytes /\ KeysOf(e) = Terminal[e].keys /\ KeysOf(e) \in Seq(Codes)
  BY <1>2, SentType DEF BytesOf, KeysOf, Known
<1>4. /\ wire = <<>> /\ wire' = Arrivals(BytesOf(e)) /\ begun' = FALSE
      /\ due' = (IF Quiet THEN <<>> ELSE due) \o KeysOf(e) /\ got' = (IF Quiet THEN <<>> ELSE got)
      /\ torn' = (~Quiet /\ torn)
      /\ platform' = platform /\ rd' = rd /\ cache' = cache /\ skipped' = skipped
  BY <1>3 DEF Send
<1>5. wire' = Arrivals(BytesOf(e))'
  BY <1>4 DEF Arrivals, BytesOf
<1>6. ASSUME NEW ks \in Seq(Codes), Reads(rd, skipped, cache, ks), due' = (got' \o ks) \o KeysOf(e)
      PROVE  Behind'
  BY <1>4, <1>5, <1>6 DEF Behind
<1>7. due \in Seq(Codes) /\ got \in Seq(Codes) /\ cache \in Seq(KeyBytes)
  BY <1>1 DEF KeyTypeOK
<1>8. CASE Quiet
  <2>1. rd = "ground" /\ cache = <<>> /\ skipped = 0
    BY <1>1, <1>8 DEF Quiet, KeyPlaces, InStr
  <2>2. Reads(rd, skipped, cache, <<>>)
    BY <2>1 DEF Reads
  <2>3. <<>> \in Seq(Codes) /\ <<>> \o <<>> = <<>>
    OBVIOUS
  <2>4. due' = (got' \o <<>>) \o KeysOf(e)
    BY <1>4, <1>8, <2>3
  <2>5. Behind'
    BY <1>6, <2>2, <2>3, <2>4
  <2>6. QED BY <1>1, <2>5 DEF KeyInv
<1>9. CASE ~Quiet
  <2>1. due' = due \o KeysOf(e) /\ got' = got
    BY <1>4, <1>9
  <2>2. CASE torn
    <3>1. torn'
      BY <1>4, <1>9, <2>2, Zenon
    <3>2. QED BY <1>1, <3>1 DEF KeyInv
  <2>3. CASE GivenUp
    <3>1. IsPrefix(got, due \o KeysOf(e))
      BY <1>3, <1>7, <2>3, PrefixGrows DEF GivenUp
    <3>2. GivenUp'
      BY <1>4, <2>1, <2>3, <3>1 DEF GivenUp
    <3>3. QED BY <1>1, <3>2 DEF KeyInv
  <2>4. CASE UnderWay
    <3>1. PICK bs \in Seq(KeyBytes), ks \in Seq(Codes) :
            Arriving(bs) /\ Reads(rd, skipped, cache \o bs, ks) /\ due = got \o ks
      BY <2>4 DEF UnderWay
    <3>2. bs = <<>>
      BY <1>4, <3>1 DEF Arriving
    <3>3. cache \o bs = cache
      BY <1>7, <3>2, ConcatEmptySeq
    <3>4. Behind'
      BY <1>6, <2>1, <3>1, <3>3
    <3>5. QED BY <1>1, <3>4 DEF KeyInv
  <2>5. ~Behind
    BY <1>4, ArrivalsAre, KeyReaderAssumption DEF Behind
  <2>6. QED BY <2>2, <2>3, <2>4, <2>5 DEF KeyInv
<1>10. QED BY <1>8, <1>9

LEMMA InvHangUp == ASSUME KeyInv, HangUp PROVE KeyInv'
<1>1. /\ KeyTypeOK /\ KeyPlaces /\ open' = FALSE
      /\ platform' = platform /\ rd' = rd /\ wire' = wire /\ cache' = cache /\ blocked' = blocked
      /\ skipped' = skipped /\ due' = due /\ got' = got /\ torn' = torn /\ begun' = begun
      /\ sends' = sends /\ gaps' = gaps
  BY DEF HangUp, KeyInv
<1>2. KeyTypeOK' /\ KeyPlaces'
  BY <1>1 DEF KeyTypeOK, KeyPlaces
<1>3. (GivenUp => GivenUp') /\ (UnderWay => UnderWay') /\ (Behind => Behind') /\ (torn => torn')
  BY <1>1 DEF GivenUp, UnderWay, Behind, Arriving, Arrivals, BytesOf
<1>4. QED BY <1>2, <1>3 DEF KeyInv

LEMMA TypeArrive == ASSUME KeyTypeOK, KeyPlaces, Arrive PROVE KeyTypeOK' /\ KeyPlaces'
<1>1. /\ wire # <<>> /\ cache' = Head(wire) /\ wire' = Tail(wire) /\ begun' = TRUE
      /\ blocked' = (Head(wire) = <<>>) /\ torn' = (torn \/ (rd # "ground" /\ ~begun))
      /\ platform' = platform /\ rd' = rd /\ skipped' = skipped /\ open' = open /\ due' = due
      /\ got' = got /\ sends' = sends /\ gaps' = gaps
  BY DEF Arrive
<1>2. wire \in Seq(Seq(KeyBytes))
  BY DEF KeyTypeOK
<1>3. /\ Head(wire) \in Seq(KeyBytes) /\ Tail(wire) \in Seq(Seq(KeyBytes))
      /\ Len(Tail(wire)) = Len(wire) - 1 /\ \A i \in 1..Len(Tail(wire)) : Tail(wire)[i] = wire[i + 1]
  BY <1>1, <1>2, HeadTailProperties
<1>4. \A i \in DOMAIN Tail(wire) : i + 1 \in DOMAIN wire /\ Tail(wire)[i] = wire[i + 1]
  BY <1>2, <1>3
<1>5. platform' = "posix" => \A i \in DOMAIN wire' : wire'[i] # <<>>
  BY <1>1, <1>4 DEF KeyPlaces
<1>6. blocked' \in BOOLEAN /\ torn' \in BOOLEAN /\ begun' \in BOOLEAN
  BY <1>1
<1>7. QED BY <1>1, <1>3, <1>5, <1>6 DEF KeyTypeOK, KeyPlaces

\* The first of the bytes under way is taken.
LEMMA OneArrives ==
  ASSUME platform = "posix", NEW bs \in Seq(KeyBytes), bs # <<>>, wire = [i \in DOMAIN bs |-> <<bs[i]>>]
  PROVE  /\ Head(wire) = <<Head(bs)>> /\ Tail(wire) = [i \in DOMAIN Tail(bs) |-> <<Tail(bs)[i]>>]
         /\ <<Head(bs)>> \o Tail(bs) = bs /\ Tail(bs) \in Seq(KeyBytes)
<1>1. /\ Len(bs) \in Nat /\ Len(bs) > 0 /\ DOMAIN bs = 1..Len(bs)
      /\ Tail(bs) \in Seq(KeyBytes) /\ Len(Tail(bs)) = Len(bs) - 1
      /\ \A i \in 1..Len(Tail(bs)) : Tail(bs)[i] = bs[i + 1]
  BY HeadTailProperties
<1>2. wire \in Seq(Seq(KeyBytes)) /\ Len(wire) = Len(bs) /\ \A i \in 1..Len(bs) : wire[i] = <<bs[i]>>
  <2>1. \A i \in 1..Len(bs) : <<bs[i]>> \in Seq(KeyBytes)
    OBVIOUS
  <2>2. wire = [i \in 1..Len(bs) |-> <<bs[i]>>]
    BY <1>1
  <2>3. QED BY <1>1, <2>1, <2>2
<1>3. Head(wire) = <<Head(bs)>>
  BY <1>1, <1>2
<1>4. /\ Tail(wire) \in Seq(Seq(KeyBytes)) /\ Len(Tail(wire)) = Len(bs) - 1
      /\ \A i \in 1..Len(Tail(wire)) : Tail(wire)[i] = wire[i + 1]
  BY <1>1, <1>2, HeadTailProperties
<1>5. Tail(wire) = [i \in DOMAIN Tail(bs) |-> <<Tail(bs)[i]>>]
  <2> DEFINE w == [i \in 1..Len(bs) - 1 |-> <<Tail(bs)[i]>>]
  <2>1. DOMAIN Tail(bs) = 1..Len(bs) - 1 /\ Len(bs) - 1 \in Nat
    BY <1>1
  <2>2. \A i \in 1..Len(bs) - 1 : <<Tail(bs)[i]>> \in Seq(KeyBytes)
    BY <1>1
  <2>3. w \in Seq(Seq(KeyBytes)) /\ Len(w) = Len(bs) - 1 /\ \A i \in 1..Len(bs) - 1 : w[i] = <<Tail(bs)[i]>>
    BY <2>1, <2>2
  <2>4. ASSUME NEW i \in 1..Len(bs) - 1 PROVE Tail(wire)[i] = w[i]
    <3>1. i + 1 \in 1..Len(bs) /\ i \in 1..Len(Tail(bs)) /\ i \in 1..Len(Tail(wire))
      BY <1>1, <1>4
    <3>2. Tail(wire)[i] = wire[i + 1] /\ wire[i + 1] = <<bs[i + 1]>> /\ Tail(bs)[i] = bs[i + 1]
      BY <1>1, <1>2, <1>4, <3>1
    <3>3. QED BY <2>3, <3>2
  <2> HIDE DEF w
  <2>5. Tail(wire) = w
    BY <1>4, <2>3, <2>4, SeqEqual
  <2>6. QED BY <2>1, <2>5 DEF w
<1>6. <<Head(bs)>> \o Tail(bs) = bs
  <2>1. 1 \in 1..Len(bs) /\ Len(bs) \in 1..Len(bs)
    BY <1>1
  <2>2. SubSeq(bs, 1, Len(bs)) = <<bs[1]>> \o SubSeq(bs, 1 + 1, Len(bs))
    BY <2>1, SubSeqRecursiveFirst
  <2>3. SubSeq(bs, 1, Len(bs)) = bs /\ Tail(bs) = SubSeq(bs, 2, Len(bs)) /\ Head(bs) = bs[1]
    BY SubSeqFull, TailIsSubSeq
  <2>4. QED BY <2>2, <2>3
<1>7. QED BY <1>1, <1>3, <1>5, <1>6

LEMMA InvArrive == ASSUME Understood, KeyInv, Arrive PROVE KeyInv'
<1>1. KeyTypeOK /\ KeyPlaces /\ KeyTypeOK' /\ KeyPlaces'
  BY TypeArrive DEF KeyInv
<1>2. /\ rd # "out" /\ cache = <<>> /\ wire # <<>> /\ cache' = Head(wire) /\ wire' = Tail(wire)
      /\ begun' = TRUE /\ torn' = (torn \/ (rd # "ground" /\ ~begun))
      /\ platform' = platform /\ rd' = rd /\ skipped' = skipped /\ due' = due /\ got' = got
  BY DEF Arrive
<1>3. cache \in Seq(KeyBytes) /\ due \in Seq(Codes) /\ got \in Seq(Codes)
  BY <1>1 DEF KeyTypeOK
<1>4. ASSUME platform = "posix", NEW bs \in Seq(KeyBytes), wire = [i \in DOMAIN bs |-> <<bs[i]>>]
      PROVE  /\ bs # <<>> /\ Tail(bs) \in Seq(KeyBytes) /\ cache' \o Tail(bs) = bs
             /\ wire' = [i \in DOMAIN Tail(bs) |-> <<Tail(bs)[i]>>]
  <2>1. bs # <<>>
    BY <1>2, <1>4
  <2>2. QED BY <1>2, <1>4, <2>1, OneArrives
<1>5. CASE UnderWay
  <2>1. PICK bs \in Seq(KeyBytes), ks \in Seq(Codes) :
          Arriving(bs) /\ Reads(rd, skipped, cache \o bs, ks) /\ due = got \o ks
    BY <1>5 DEF UnderWay
  <2>2. cache \o bs = bs
    BY <1>2, <1>3, ConcatEmptySeq
  <2>3. CASE platform = "posix"
    <3>1. /\ Tail(bs) \in Seq(KeyBytes) /\ cache' \o Tail(bs) = bs
          /\ wire' = [i \in DOMAIN Tail(bs) |-> <<Tail(bs)[i]>>]
      BY <1>4, <2>1, <2>3 DEF Arriving
    <3>2. Arriving(Tail(bs))'
      BY <1>2, <2>3, <3>1 DEF Arriving
    <3>3. Reads(rd', skipped', cache' \o Tail(bs), ks) /\ due' = got' \o ks /\ begun'
      BY <1>2, <2>1, <2>2, <3>1
    <3>4. UnderWay'
      BY <3>1, <3>2, <3>3 DEF UnderWay
    <3>5. QED BY <1>1, <3>4 DEF KeyInv
  <2>4. CASE platform # "posix"
    <3>1. bs = <<>> /\ wire = << <<>> >>
      BY <1>2, <2>1, <2>4 DEF Arriving
    <3>2. wire' = <<>> /\ cache' = <<>>
      BY <1>2, <3>1
    <3>3. Arriving(bs)'
      BY <1>2, <2>4, <3>1, <3>2 DEF Arriving
    <3>4. Reads(rd', skipped', cache' \o bs, ks) /\ due' = got' \o ks /\ begun'
      BY <1>2, <2>1, <3>2
    <3>5. UnderWay'
      BY <3>3, <3>4 DEF UnderWay
    <3>6. QED BY <1>1, <3>5 DEF KeyInv
  <2>5. QED BY <2>3, <2>4
<1>6. CASE Behind /\ rd = "ground"
  <2>1. PICK e \in Sends, ks \in Seq(Codes) :
          wire = Arrivals(BytesOf(e)) /\ Reads(rd, skipped, cache, ks) /\ due = (got \o ks) \o KeysOf(e)
    BY <1>6 DEF Behind
  <2>2. ks = <<>>
    BY <1>2, <1>6, <2>1, NothingStill
  <2>3. e \in Known /\ BytesOf(e) \in Seq(KeyBytes) /\ KeysOf(e) \in Seq(Codes)
    BY SentType, KeyReaderAssumption DEF Understood, Known
  <2>4. due = got \o KeysOf(e)
    BY <1>3, <2>1, <2>2, ConcatEmptySeq
  <2>5. skipped' = 0 /\ rd' = "ground"
    BY <1>1, <1>2, <1>6 DEF KeyPlaces, InStr
  <2>6. Reads(rd', skipped', BytesOf(e), KeysOf(e))
    BY <2>3, <2>5, SentIsStill
  <2>7. CASE platform = "posix"
    <3> DEFINE bs == BytesOf(e)
    <3>1. /\ Tail(bs) \in Seq(KeyBytes) /\ cache' \o Tail(bs) = bs
          /\ wire' = [i \in DOMAIN Tail(bs) |-> <<Tail(bs)[i]>>]
      BY <1>4, <2>1, <2>3, <2>7 DEF Arrivals
    <3>2. Arriving(Tail(bs))'
      BY <1>2, <2>7, <3>1 DEF Arriving, BytesOf
    <3>3. UnderWay'
      BY <1>2, <2>3, <2>4, <2>6, <3>1, <3>2 DEF UnderWay
    <3>4. QED BY <1>1, <3>3 DEF KeyInv
  <2>8. CASE platform # "posix"
    <3>1. wire = <<BytesOf(e), <<>> >>
      BY <2>1, <2>8 DEF Arrivals
    <3>2. cache' = BytesOf(e) /\ wire' = << <<>> >>
      BY <1>2, <3>1
    <3>3. cache' \o <<>> = BytesOf(e) /\ <<>> \in Seq(KeyBytes)
      BY <2>3, <3>2, ConcatEmptySeq
    <3>4. Arriving(<<>>)'
      BY <1>2, <2>8, <3>2 DEF Arriving
    <3>5. UnderWay'
      BY <1>2, <2>3, <2>4, <2>6, <3>3, <3>4 DEF UnderWay
    <3>6. QED BY <1>1, <3>5 DEF KeyInv
  <2>9. QED BY <2>7, <2>8
<1>7. CASE torn \/ (Behind /\ rd # "ground")
  <2>1. torn'
    BY <1>2, <1>7, Zenon DEF Behind
  <2>2. QED BY <1>1, <2>1 DEF KeyInv
<1>8. ~GivenUp
  BY <1>2 DEF GivenUp
<1>9. QED BY <1>5, <1>6, <1>7, <1>8 DEF KeyInv

\* When a limit passes and nothing is under way, what the limit reports is the
\* code that is due.
LEMMA LimitReports ==
  ASSUME rd \notin {"ground", "out"}, NEW ks, Reads(rd, skipped, <<>>, ks),
         got' = Append(got, IF rd = "esc" THEN "ESC" ELSE "UNKNOWN"), got \in Seq(Codes)
  PROVE  got \o ks = got' /\ (rd \in InStr => ks = <<"UNKNOWN">>)
<1>1. \/ rd = "esc" /\ ks = <<"ESC">>
      \/ rd = "str" /\ ks = <<"UNKNOWN">>
  BY NothingStill
<1>2. "ESC" \in Codes /\ "UNKNOWN" \in Codes
  BY DEF Codes, KeyBytes
<1>3. got \o <<"ESC">> = Append(got, "ESC") /\ got \o <<"UNKNOWN">> = Append(got, "UNKNOWN")
  BY <1>2, AppendIsConcat
<1>4. QED BY <1>1, <1>3 DEF InStr

LEMMA TypeTimeout == ASSUME KeyTypeOK, KeyPlaces, Timeout PROVE KeyTypeOK' /\ KeyPlaces'
<1> DEFINE within == begun /\ \E i \in DOMAIN wire : wire[i] # <<>>
<1>1. /\ within => gaps < MaxGaps
      /\ gaps' = IF within THEN gaps + 1 ELSE gaps
      /\ torn' = (torn \/ within)
      /\ rd' = "ground" /\ got' = Append(got, IF rd = "esc" THEN "ESC" ELSE "UNKNOWN") /\ skipped' = 0
      /\ platform' = platform /\ wire' = wire /\ cache' = cache /\ blocked' = blocked /\ open' = open
      /\ due' = due /\ begun' = begun /\ sends' = sends
  BY DEF Timeout, Report
<1> HIDE DEF within
<1>2. gaps' \in 0..MaxGaps
  BY <1>1, KeyReaderAssumption DEF KeyTypeOK
<1>3. got' \in Seq(Codes)
  <2>1. got \in Seq(Codes) /\ "ESC" \in Codes /\ "UNKNOWN" \in Codes
    BY DEF KeyTypeOK, Codes, KeyBytes
  <2>2. QED BY <1>1, <2>1
<1>4. torn' \in BOOLEAN
  BY <1>1
<1>5. rd' \in States /\ skipped' \in 0..StrMax - 1
  BY <1>1, KeyReaderAssumption DEF States
<1>6. QED BY <1>1, <1>2, <1>3, <1>4, <1>5 DEF KeyTypeOK, KeyPlaces

LEMMA InvTimeout == ASSUME KeyInv, Timeout PROVE KeyInv'
<1> DEFINE within == begun /\ \E i \in DOMAIN wire : wire[i] # <<>>
<1>1. KeyTypeOK /\ KeyPlaces /\ KeyTypeOK' /\ KeyPlaces'
  BY TypeTimeout DEF KeyInv
<1>2. /\ rd \notin {"ground", "out"} /\ cache = <<>> /\ torn' = (torn \/ within)
      /\ rd' = "ground" /\ got' = Append(got, IF rd = "esc" THEN "ESC" ELSE "UNKNOWN") /\ skipped' = 0
      /\ platform' = platform /\ wire' = wire /\ cache' = cache /\ due' = due /\ begun' = begun
  BY DEF Timeout, Report
<1>3. got \in Seq(Codes) /\ got' \in Seq(Codes) /\ <<>> \in Seq(Codes) /\ got' \o <<>> = got'
  BY <1>1, ConcatEmptySeq DEF KeyTypeOK
<1>4. Reads(rd', skipped', <<>>, <<>>)
  BY <1>2 DEF Reads
<1>5. CASE torn \/ within
  <2> HIDE DEF within
  <2>1. torn'
    BY <1>2, <1>5, Zenon
  <2>2. QED BY <1>1, <2>1 DEF KeyInv
<1>6. CASE UnderWay /\ ~within
  <2>1. PICK bs \in Seq(KeyBytes), ks \in Seq(Codes) :
          Arriving(bs) /\ Reads(rd, skipped, cache \o bs, ks) /\ due = got \o ks
    BY <1>6 DEF UnderWay
  <2>2. bs = <<>>
    <3>1. CASE platform = "posix"
      <4>1. wire = [i \in DOMAIN bs |-> <<bs[i]>>] /\ \A i \in DOMAIN wire : wire[i] = <<>>
        BY <1>6, <2>1, <3>1 DEF Arriving, UnderWay
      <4>2. \A i \in DOMAIN bs : <<bs[i]>> = <<>>
        BY <4>1
      <4>3. \A i \in DOMAIN bs : FALSE
        BY <4>2
      <4>4. bs # <<>> => 1 \in DOMAIN bs
        BY <2>1
      <4>5. QED BY <4>3, <4>4
    <3>2. CASE platform # "posix"
      BY <2>1, <3>2 DEF Arriving
    <3>3. QED BY <3>1, <3>2
  <2>3. cache \o bs = <<>>
    BY <1>2, <2>2
  <2>4. due' = got' \o <<>>
    BY <1>2, <1>3, <2>1, <2>3, LimitReports
  <2>5. Arriving(bs)' /\ cache' \o bs = <<>> /\ begun'
    BY <1>2, <1>6, <2>1, <2>3 DEF Arriving, UnderWay
  <2>6. UnderWay'
    BY <1>3, <1>4, <2>1, <2>4, <2>5 DEF UnderWay
  <2>7. QED BY <1>1, <2>6 DEF KeyInv
<1>7. CASE Behind
  <2>1. PICK e \in Sends, ks \in Seq(Codes) :
          wire = Arrivals(BytesOf(e)) /\ Reads(rd, skipped, cache, ks) /\ due = (got \o ks) \o KeysOf(e)
    BY <1>7 DEF Behind
  <2>2. due' = (got' \o <<>>) \o KeysOf(e)
    BY <1>2, <1>3, <2>1, LimitReports
  <2>3. wire' = Arrivals(BytesOf(e))' /\ ~begun' /\ Reads(rd', skipped', cache', <<>>)
    BY <1>2, <1>4, <1>7, <2>1 DEF Arrivals, BytesOf, Behind
  <2>4. Behind'
    BY <1>3, <2>1, <2>2, <2>3 DEF Behind
  <2>5. QED BY <1>1, <2>4 DEF KeyInv
<1>8. ~GivenUp
  BY <1>2 DEF GivenUp
<1>9. QED BY <1>5, <1>6, <1>7, <1>8 DEF KeyInv

LEMMA InvEnded == ASSUME KeyInv, Ended PROVE KeyInv'
<1>1. /\ wire = <<>> /\ cache = <<>> /\ rd # "out" /\ skipped' = 0
      /\ IF rd \in InStr THEN rd' = "ground" /\ got' = Append(got, "UNKNOWN") ELSE rd' = "out" /\ got' = got
      /\ platform' = platform /\ wire' = wire /\ cache' = cache /\ blocked' = blocked /\ open' = open
      /\ due' = due /\ torn' = torn /\ begun' = begun /\ sends' = sends /\ gaps' = gaps
  BY DEF Ended, Report
<1>2. KeyTypeOK /\ KeyPlaces
  BY DEF KeyInv
<1>3. got \in Seq(Codes) /\ got' \in Seq(Codes) /\ rd' \in States
  <2>1. got \in Seq(Codes) /\ "UNKNOWN" \in Codes
    BY <1>2 DEF KeyTypeOK, Codes
  <2>2. QED BY <1>1, <2>1 DEF States
<1>4. skipped' \in 0..StrMax - 1
  BY <1>1, KeyReaderAssumption
<1>5. KeyTypeOK' /\ KeyPlaces'
  BY <1>1, <1>2, <1>3, <1>4 DEF KeyTypeOK, KeyPlaces
<1>6. CASE torn
  BY <1>1, <1>5, <1>6 DEF KeyInv
<1>7. CASE UnderWay
  <2>1. PICK bs \in Seq(KeyBytes), ks \in Seq(Codes) :
          Arriving(bs) /\ Reads(rd, skipped, cache \o bs, ks) /\ due = got \o ks
    BY <1>7 DEF UnderWay
  <2>2. bs = <<>>
    BY <1>1, <2>1 DEF Arriving
  <2>3. cache \o bs = <<>> /\ Reads(rd, skipped, <<>>, ks)
    BY <1>1, <2>1, <2>2
  <2>4. CASE rd \in InStr
    <3>1. /\ rd \notin {"ground", "out"} /\ rd' = "ground"
          /\ got' = Append(got, IF rd = "esc" THEN "ESC" ELSE "UNKNOWN")
      BY <1>1, <2>4 DEF InStr
    <3>2. due = got'
      BY <1>3, <2>1, <2>3, <3>1, LimitReports
    <3>3. /\ Reads(rd', skipped', cache' \o bs, <<>>) /\ due' = got' \o <<>> /\ <<>> \in Seq(Codes)
          /\ Arriving(bs)' /\ begun'
      BY <1>1, <1>3, <1>7, <2>1, <2>3, <3>1, <3>2, ConcatEmptySeq DEF Reads, Arriving, UnderWay
    <3>4. UnderWay'
      BY <2>1, <3>3 DEF UnderWay
    <3>5. QED BY <1>5, <3>4 DEF KeyInv
  <2>5. CASE rd \notin InStr
    <3>1. IsPrefix(got', due')
      BY <1>1, <1>3, <2>1, <2>5, PrefixOfJoin
    <3>2. GivenUp'
      BY <1>1, <2>5, <3>1 DEF GivenUp
    <3>3. QED BY <1>5, <3>2 DEF KeyInv
  <2>6. QED BY <2>4, <2>5
<1>8. ~GivenUp
  BY <1>1 DEF GivenUp
<1>9. ~Behind
  BY <1>1, ArrivalsAre, KeyReaderAssumption DEF Behind
<1>10. QED BY <1>6, <1>7, <1>8, <1>9 DEF KeyInv

LEMMA InvKeyInit == KeyInit => KeyInv
<1>1. SUFFICES ASSUME KeyInit PROVE KeyInv
  OBVIOUS
<1>2. 0 \in 0..StrMax - 1 /\ 0 \in 0..MaxSends /\ 0 \in 0..MaxGaps
  BY KeyReaderAssumption
<1>3. /\ platform \in Platforms /\ rd = "ground" /\ wire = <<>> /\ cache = <<>> /\ skipped = 0
      /\ blocked = FALSE /\ open = TRUE /\ due = <<>> /\ got = <<>> /\ torn = FALSE /\ begun = TRUE
      /\ sends = 0 /\ gaps = 0
  BY <1>1 DEF KeyInit
<1>4. KeyTypeOK
  <2>1. <<>> \in Seq(Seq(KeyBytes)) /\ <<>> \in Seq(KeyBytes) /\ <<>> \in Seq(Codes)
    OBVIOUS
  <2>2. "ground" \in States
    BY DEF States
  <2>3. QED BY <1>2, <1>3, <2>1, <2>2 DEF KeyTypeOK
<1>5. KeyPlaces
  BY <1>3 DEF KeyPlaces
<1>6. Reads(rd, skipped, cache \o <<>>, <<>>) /\ due = got \o <<>> /\ <<>> \in Seq(KeyBytes) /\ <<>> \in Seq(Codes)
  <2>1. <<>> \o <<>> = <<>>
    OBVIOUS
  <2>2. QED BY <1>3, <2>1 DEF Reads
<1>7. Arriving(<<>>)
  <2>1. wire = [i \in DOMAIN <<>> |-> << <<>>[i] >>]
    BY <1>3
  <2>2. QED BY <1>3, <2>1 DEF Arriving
<1>8. UnderWay
  BY <1>3, <1>6, <1>7 DEF UnderWay
<1>9. QED BY <1>4, <1>5, <1>8 DEF KeyInv

LEMMA InvKeyStep == Understood /\ KeyInv /\ [KeyNext]_keyVars => KeyInv'
<1>1. SUFFICES ASSUME Understood, KeyInv, [KeyNext]_keyVars PROVE KeyInv'
  OBVIOUS
<1>2. CASE Reader
  BY <1>1, <1>2, InvArrive, InvTaking, InvTimeout, InvEnded DEF Reader, Taking
<1>3. CASE HangUp
  BY <1>1, <1>3, InvHangUp
<1>4. ASSUME NEW e \in Sends, Send(e) PROVE KeyInv'
  BY <1>1, <1>4, InvSend
<1>5. CASE UNCHANGED keyVars
  BY <1>1, <1>5 DEF keyVars, KeyInv, KeyTypeOK, KeyPlaces, GivenUp, UnderWay, Behind, Arriving, Arrivals, BytesOf
<1>6. QED BY <1>1, <1>2, <1>3, <1>4, <1>5 DEF KeyNext

\* The same of the types alone, whatever is sent
LEMMA TypeKeyStep == KeyTypeOK /\ KeyPlaces /\ [KeyNext]_keyVars => KeyTypeOK' /\ KeyPlaces'
<1>1. SUFFICES ASSUME KeyTypeOK, KeyPlaces, [KeyNext]_keyVars PROVE KeyTypeOK' /\ KeyPlaces'
  OBVIOUS
<1>2. CASE Taking
  BY <1>1, <1>2, TakingIs, TakingTyped DEF KeyTypeOK, KeyPlaces
<1>3. CASE Arrive \/ Timeout
  BY <1>1, <1>3, TypeArrive, TypeTimeout
<1>4. CASE Ended
  <2>1. rd' \in States /\ got' \in Seq(Codes) /\ skipped' \in 0..StrMax - 1 /\ skipped' = 0
    <3>1. got \in Seq(Codes) /\ "UNKNOWN" \in Codes
      BY <1>1 DEF KeyTypeOK, Codes
    <3>2. QED BY <1>4, <3>1, KeyReaderAssumption DEF Ended, Report, States
  <2>2. UNCHANGED <<platform, wire, cache, blocked, open, due, torn, begun, sends, gaps>>
    BY <1>4 DEF Ended
  <2>3. QED BY <1>1, <2>1, <2>2 DEF KeyTypeOK, KeyPlaces
<1>5. CASE HangUp
  BY <1>1, <1>5 DEF HangUp, KeyTypeOK, KeyPlaces
<1>6. ASSUME NEW e \in Sends, Send(e) PROVE KeyTypeOK' /\ KeyPlaces'
  BY <1>1, <1>6, TypeSend
<1>7. CASE UNCHANGED keyVars
  BY <1>1, <1>7 DEF keyVars, KeyTypeOK, KeyPlaces
<1>8. QED BY <1>1, <1>2, <1>3, <1>4, <1>5, <1>6, <1>7 DEF KeyNext, Reader, Taking

\* The reader is always in a state of the tables, the bytes are bytes and the
\* codes codes, and of a control string fewer than 256 bytes are skipped
\* (tui_skip_control_string), whatever the terminal sends and when.
THEOREM KeysTyped == KeySpec => []KeyTypeOK
<1>1. KeyInit => KeyTypeOK /\ KeyPlaces
  BY InvKeyInit DEF KeyInv
<1>2. QED BY <1>1, TypeKeyStep, PTL DEF KeySpec

\* Whatever xterm sends of the keys the code knows, in whatever order and
\* however late its bytes come: where no limit passed within a sequence, the
\* keys reported are those sent, none lost and no byte left over as a
\* character (tui_read_key).
THEOREM KeysMeanWhatWasSent == "f5" \notin Sends => (KeySpec => []MeansWhatWasSent)
<1>1. KeyInv => MeansWhatWasSent
  <2>1. SUFFICES ASSUME KeyInv, ~torn PROVE IsPrefix(got, due) /\ (Quiet => got = due)
    BY DEF MeansWhatWasSent
  <2>2. got \in Seq(Codes) /\ cache \in Seq(KeyBytes)
    BY <2>1 DEF KeyInv, KeyTypeOK
  <2>3. CASE GivenUp
    BY <2>3 DEF GivenUp, Quiet
  <2>4. CASE UnderWay
    <3>1. PICK bs \in Seq(KeyBytes), ks \in Seq(Codes) :
            Arriving(bs) /\ Reads(rd, skipped, cache \o bs, ks) /\ due = got \o ks
      BY <2>4 DEF UnderWay
    <3>2. ASSUME Quiet PROVE got = due
      <4>1. bs = <<>> /\ cache = <<>> /\ rd = "ground"
        BY <3>1, <3>2 DEF Quiet, Arriving
      <4>2. cache \o bs = <<>>
        BY <4>1
      <4>3. ks = <<>>
        BY <3>1, <4>1, <4>2, NothingStill
      <4>4. QED BY <2>2, <3>1, <4>3, ConcatEmptySeq
    <3>3. QED BY <2>2, <3>1, <3>2, PrefixOfJoin
  <2>5. CASE Behind
    <3>1. PICK e \in Sends, ks \in Seq(Codes) :
            wire = Arrivals(BytesOf(e)) /\ Reads(rd, skipped, cache, ks) /\ due = (got \o ks) \o KeysOf(e)
      BY <2>5 DEF Behind
    <3>2. e \in DOMAIN Terminal /\ KeysOf(e) \in Seq(Codes)
      BY SentType, KeyReaderAssumption
    <3>3. ~Quiet
      BY <3>1, <3>2, ArrivalsAre DEF Quiet
    <3>4. due = got \o (ks \o KeysOf(e)) /\ ks \o KeysOf(e) \in Seq(Codes)
      BY <2>2, <3>1, <3>2, ConcatAssociative, ConcatProperties
    <3>5. QED BY <2>2, <3>3, <3>4, PrefixOfJoin
  <2>6. QED BY <2>1, <2>3, <2>4, <2>5 DEF KeyInv
<1>2. SUFFICES ASSUME Understood PROVE KeySpec => []MeansWhatWasSent
  BY DEF Understood
<1>3. KeyInv /\ [KeyNext]_keyVars => KeyInv'
  BY <1>2, InvKeyStep
<1>4. QED BY <1>1, <1>3, InvKeyInit, PTL DEF KeySpec
=============================================================================
