------------------------------- MODULE KeyReader -------------------------------
(* Reading one key from the terminal (tui/tui_keys.c): the bytes, or on     *)
(* Windows the key records turned into bytes, are taken one by one with a   *)
(* time limit, and the sequences after ESC become key codes. The terminal   *)
(* is outside: it sends keys and answers whose bytes may come late.         *)
EXTENDS Naturals, Sequences, SequencesExt

CONSTANTS Platforms,  \* "posix", "windows"
          Sends,      \* what the terminal sends, of DOMAIN Terminal
          StrMax,     \* the bytes of a control string that are skipped: 256, more than Terminal's have
          MaxSends,   \* bound: keys and answers sent
          MaxGaps     \* bound: times that a limit passes within a sequence

\* What an xterm sends, as bytes, and the key codes that stand for it
Arrow(c) == <<"ESC", "[", c>>
Modified(m, c) == <<"ESC", "[", "1", "semi", m, c>>
Terminal ==
  [char   |-> [bytes |-> <<"a">>, keys |-> <<"a">>],
   wide   |-> [bytes |-> <<"L", "C">>, keys |-> <<"L", "C">>],
   nul    |-> [bytes |-> <<"NUL">>, keys |-> <<"EOF">>],
   esc    |-> [bytes |-> <<"ESC">>, keys |-> <<"ESC">>],
   altB   |-> [bytes |-> <<"ESC", "b">>, keys |-> <<"ALT_B">>],
   up     |-> [bytes |-> Arrow("A"), keys |-> <<"UP">>],
   home   |-> [bytes |-> Arrow("H"), keys |-> <<"HOME">>],
   upApp  |-> [bytes |-> <<"ESC", "O", "A">>, keys |-> <<"UP">>],
   del    |-> [bytes |-> <<"ESC", "[", "3", "~">>, keys |-> <<"DEL">>],
   pgup   |-> [bytes |-> <<"ESC", "[", "5", "~">>, keys |-> <<"PGUP">>],
   pgdn   |-> [bytes |-> <<"ESC", "[", "6", "~">>, keys |-> <<"PGDN">>],
   ctrlD  |-> [bytes |-> Modified("5", "D"), keys |-> <<"CTRL_LEFT">>],
   altC   |-> [bytes |-> Modified("3", "C"), keys |-> <<"ALT_RIGHT">>],
   shiftC |-> [bytes |-> Modified("2", "C"), keys |-> <<"UNKNOWN">>],
   f9     |-> [bytes |-> <<"ESC", "[", "2", "0", "~">>, keys |-> <<"F9">>],
   f10    |-> [bytes |-> <<"ESC", "[", "2", "1", "~">>, keys |-> <<"F10">>],
   paste  |-> [bytes |-> <<"ESC", "[", "2", "0", "0", "~">>, keys |-> <<"PASTE_START">>],
   colour |-> [bytes |-> <<"ESC", "]", "a", "BEL">>, keys |-> <<"UNKNOWN">>],
   status |-> [bytes |-> <<"ESC", "]", "a", "ESC", "bslash">>, keys |-> <<"UNKNOWN">>],
   cut    |-> [bytes |-> <<"ESC", "]", "a", "a">>, keys |-> <<"UNKNOWN">>],
   f5     |-> [bytes |-> <<"ESC", "[", "1", "5", "~">>, keys |-> <<"UNKNOWN">>]]

\* What is typed, byte by byte, and what tui_read_key can say it was
KeyBytes == {"a", "b", "A", "C", "D", "H", "L", "O", "0", "1", "2", "3", "5", "6", "[", "]",
          "~", "semi", "bslash", "ESC", "NUL", "BEL"}
Codes == KeyBytes \cup
  {"EOF", "UP", "DOWN", "LEFT", "RIGHT", "HOME", "END", "DEL", "PGUP", "PGDN", "ALT_B", "ALT_F",
   "ALT_LEFT", "ALT_RIGHT", "CTRL_LEFT", "CTRL_RIGHT", "F9", "F10", "PASTE_START", "UNKNOWN"}

ASSUME KeyReaderAssumption ==
  /\ Platforms \subseteq {"posix", "windows"} /\ Sends \subseteq DOMAIN Terminal
  /\ StrMax \in Nat \ 0..2 /\ {MaxSends, MaxGaps} \subseteq Nat

\* The sequences: what a byte leads to, another state or the key it completes.
\* "]" stands for the five bytes that begin a control string
Sideways(b, l, r) == CASE b = "D" -> l [] b = "C" -> r [] OTHER -> "UNKNOWN"
Tilde(b, key)     == IF b = "~" THEN key ELSE "UNKNOWN"
Arrows(b)  == CASE b = "A" -> "UP" [] b = "B" -> "DOWN" [] OTHER -> Sideways(b, "LEFT", "RIGHT")
Escape(b)  == CASE b = "[" -> "csi" [] b = "O" -> "ss3" [] b = "]" -> "str"
                [] b = "b" -> "ALT_B" [] b = "f" -> "ALT_F" [] OTHER -> "UNKNOWN"
Bracket(b) == CASE b = "H" -> "HOME" [] b = "F" -> "END" [] b = "1" -> "one" [] b = "2" -> "two"
                [] b = "3" -> "three" [] b = "5" -> "five" [] b = "6" -> "six" [] OTHER -> Arrows(b)
Modifier(b) == CASE b = "5" -> "ctrl" [] b = "3" -> "alt" [] OTHER -> "other"
Two(b)     == CASE b = "0" -> "two0" [] b = "1" -> "two1" [] OTHER -> "UNKNOWN"
\* (mutant: without ESC [ 2 0 0 ~)
NoPaste(b) == Tilde(b, "F9")
TwoZero(b) == IF b = "0" THEN "two00" ELSE Tilde(b, "F9")
Reached(s, b) ==
  CASE s = "esc"   -> Escape(b)
    [] s = "csi"   -> Bracket(b)
    [] s = "ss3"   -> Arrows(b)
    [] s = "one"   -> IF b = "semi" THEN "mod" ELSE "UNKNOWN"
    [] s = "mod"   -> Modifier(b)
    [] s = "ctrl"  -> Sideways(b, "CTRL_LEFT", "CTRL_RIGHT")
    [] s = "alt"   -> Sideways(b, "ALT_LEFT", "ALT_RIGHT")
    [] s = "two"   -> Two(b)
    [] s = "two0"  -> TwoZero(b)
    [] s = "two1"  -> Tilde(b, "F10")
    [] s = "two00" -> Tilde(b, "PASTE_START")
    [] s = "three" -> IF b = "~" THEN "DEL" ELSE Sideways(b, "ALT_LEFT", "ALT_RIGHT")
    [] s = "five"  -> IF b = "~" THEN "PGUP" ELSE Sideways(b, "CTRL_LEFT", "CTRL_RIGHT")
    [] s = "six"   -> Tilde(b, "PGDN")
    [] OTHER       -> "UNKNOWN"
InSeq  == {"esc", "csi", "ss3", "one", "mod", "ctrl", "alt", "other",
           "two", "two0", "two1", "two00", "three", "five", "six"}
InStr  == {"str", "strEsc"}
States == InSeq \cup InStr \cup {"ground", "out"}

VARIABLES platform, rd,  \* where tui_read_key stands; "out": the caller has given up
          wire,     \* what is under way from the terminal, in pieces that arrive at once
          cache,    \* bytes that can be taken (g_win_key_buf)
          blocked,  \* Windows: waits in ReadConsoleInputW, without a limit
          skipped,  \* bytes skipped of a control string
          open      \* the terminal has not hung up
VARIABLES due, got, \* history: the keys sent and the keys reported since all was quiet
          torn,     \* history: a limit passed, or a byte came in time, where it should not
          begun,    \* history: the first byte of what was sent last has been taken
          sends, gaps

keyVars == <<platform, rd, wire, cache, blocked, skipped, open, due, got, torn, begun, sends, gaps>>

KeyTypeOK ==
  /\ platform \in Platforms /\ rd \in States /\ skipped \in 0..StrMax - 1
  /\ wire \in Seq(Seq(KeyBytes)) /\ cache \in Seq(KeyBytes)
  /\ blocked \in BOOLEAN /\ open \in BOOLEAN /\ torn \in BOOLEAN /\ begun \in BOOLEAN
  /\ due \in Seq(Codes) /\ got \in Seq(Codes) /\ sends \in 0..MaxSends /\ gaps \in 0..MaxGaps

KeyInit ==
  /\ platform \in Platforms /\ rd = "ground" /\ wire = <<>> /\ cache = <<>> /\ skipped = 0
  /\ blocked = FALSE /\ open = TRUE /\ due = <<>> /\ got = <<>> /\ torn = FALSE /\ begun = TRUE
  /\ sends = 0 /\ gaps = 0

-----------------------------------------------------------------------------
(* The terminal *)

\* KeyBytes come one by one; a key's record on Windows gives all of its bytes
\* (tui_win_enqueue_key), and the record of its release gives none
Arrivals(bs) == IF platform = "posix" THEN [i \in DOMAIN bs |-> <<bs[i]>>] ELSE <<bs, <<>>>>

Quiet == rd = "ground" /\ wire = <<>> /\ cache = <<>>
Send(e) ==
  /\ open /\ wire = <<>> /\ sends < MaxSends /\ sends' = sends + 1
  /\ wire' = Arrivals(Terminal[e].bytes) /\ begun' = FALSE
  /\ due' = (IF Quiet THEN <<>> ELSE due) \o Terminal[e].keys
  /\ got' = (IF Quiet THEN <<>> ELSE got)
  /\ torn' = (~Quiet /\ torn)
  /\ UNCHANGED <<platform, rd, cache, blocked, skipped, open, gaps>>

HangUp == /\ open /\ wire = <<>> /\ open' = FALSE
          /\ UNCHANGED <<platform, rd, wire, cache, blocked, skipped, due, got, torn, begun, sends, gaps>>

\* The wait of tui_wait_byte is over because something came: after a record
\* without bytes it goes on, and now nothing ends it but a key. A byte that is
\* taken for the rest of an earlier key tears both
Arrive ==
  /\ rd # "out" /\ cache = <<>> /\ wire # <<>>
  /\ cache' = Head(wire) /\ wire' = Tail(wire) /\ begun' = TRUE
  /\ blocked' = (Head(wire) = <<>>)
  /\ torn' = (torn \/ (rd # "ground" /\ ~begun))
  /\ UNCHANGED <<platform, rd, skipped, open, due, got, sends, gaps>>

-----------------------------------------------------------------------------
(* The reader *)

Report(k) == rd' = "ground" /\ got' = Append(got, k)

\* The limits of 60 and 120 ms, and of a blink at the beginning of a key
\* (mutant: none within a sequence)
LimitedFirst == ~blocked /\ rd = "ground"
Limited      == ~blocked

Taken == cache # <<>> /\ cache' = Tail(cache)
Rest  == UNCHANGED <<platform, wire, blocked, open, due, torn, begun, sends, gaps>>

FirstByte ==
  /\ Taken /\ Rest /\ rd = "ground" /\ UNCHANGED skipped
  /\ CASE Head(cache) = "ESC" -> rd' = "esc" /\ UNCHANGED got
       [] Head(cache) = "NUL" -> rd' = "out" /\ got' = Append(got, "EOF")
       [] OTHER               -> Report(Head(cache))

InSequence ==
  /\ Taken /\ Rest /\ rd \in InSeq /\ UNCHANGED skipped
  /\ LET to == Reached(rd, Head(cache))
     IN IF to \in States THEN rd' = to /\ UNCHANGED got ELSE Report(to)

\* tui_skip_control_string, to BEL or ESC \ (mutant: without an end to it)
StrNeverEnds(b) == b = "BEL"
StrEnds(b) == b = "BEL" \/ skipped + 1 >= StrMax
InString ==
  /\ Taken /\ Rest /\ rd = "str"
  /\ \/ Head(cache) = "ESC" /\ rd' = "strEsc" /\ UNCHANGED <<skipped, got>>
     \/ Head(cache) # "ESC" /\ StrEnds(Head(cache)) /\ Report("UNKNOWN") /\ skipped' = 0
     \/ Head(cache) # "ESC" /\ ~StrEnds(Head(cache)) /\ skipped' = skipped + 1 /\ UNCHANGED <<rd, got>>
AfterStrEsc ==
  /\ Taken /\ Rest /\ rd = "strEsc"
  /\ IF Head(cache) = "bslash" \/ skipped + 1 >= StrMax
     THEN Report("UNKNOWN") /\ skipped' = 0
     ELSE rd' = "str" /\ skipped' = skipped + 1 /\ UNCHANGED got

\* The limit passes, or the window's size changes while poll waits: within a
\* sequence that is under way this tears it
Timeout ==
  /\ rd \notin {"ground", "out"} /\ cache = <<>> /\ Limited
  /\ LET within == begun /\ \E i \in DOMAIN wire : wire[i] # <<>>
     IN /\ within => gaps < MaxGaps
        /\ gaps' = IF within THEN gaps + 1 ELSE gaps
        /\ torn' = (torn \/ within)
  /\ Report(IF rd = "esc" THEN "ESC" ELSE "UNKNOWN") /\ skipped' = 0
  /\ UNCHANGED <<platform, wire, cache, blocked, open, due, begun, sends>>

\* read returns 0; within a control string that stays unnoticed until the next call
Ended ==
  /\ ~open /\ wire = <<>> /\ cache = <<>> /\ ~blocked /\ rd # "out" /\ skipped' = 0
  /\ IF rd \in InStr THEN Report("UNKNOWN") ELSE rd' = "out" /\ UNCHANGED got
  /\ UNCHANGED <<platform, wire, cache, blocked, open, due, torn, begun, sends, gaps>>

Reader == Arrive \/ FirstByte \/ InSequence \/ InString \/ AfterStrEsc \/ Timeout \/ Ended
KeyNext == Reader \/ HangUp \/ \E e \in Sends : Send(e)

\* The reader runs, and the clock; the terminal sends or does not
Fairness == WF_keyVars(Reader)
KeySpec == KeyInit /\ [][KeyNext]_keyVars /\ Fairness

-----------------------------------------------------------------------------
(* Properties *)

\* The keys reported are the keys sent, in their order, and once the terminal
\* is quiet all of them: no byte of a sequence is left over as a character, no
\* key lost. Where a delay or a hasty second key tore a sequence, this holds
\* again from the next quiet moment on (the tables of tui_esc_bracket and
\* tui_esc_ss3, and tui_skip_control_string). On Windows the key after ESC
\* may fall to it: see the README
MeansWhatWasSent ==
  ~torn => IsPrefix(got, due) /\ (Quiet => got = due)

\* A call that has taken the first byte of a key returns, whatever comes after
\* it (the limits in tui_keys.c: "so that a lone ESC does not block")
CallReturns == platform = "posix" /\ rd \notin {"ground", "out"} ~> rd \in {"ground", "out"}
=============================================================================
