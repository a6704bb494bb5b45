------------------------------ MODULE LineEditor ------------------------------
(* The prompt's line editor (tui/): the input line and its caret            *)
(* (tui_input.c), the recalled lines with their file (tui_history.c), Tab   *)
(* (tui_complete.c), the pinyin input method (tui_ime.c) and the dispatch   *)
(* of the keys between them (tui_line_readline.c). Keys come decoded from   *)
(* KeyReader. A line is a sequence of bytes; of the multi-byte characters   *)
(* there is one, of three bytes as the Chinese ones are.                    *)
EXTENDS Naturals, Sequences, SequencesExt, FiniteSetsExt

CONSTANTS Commands,   \* CLI_COMMANDS, a sequence of lines
          Listing,    \* the names in each directory that can be read
          Dict,       \* how many candidates the dictionary has for 1, 2, ... letters
          PageSize,   \* candidates on a page
          HistMax,    \* TUI_CMD_HIST_MAX: lines the history holds
          LoadMax,    \* bytes of a line that tui_cmd_hist_load reads at once
          BufMax,     \* cap - 1: bytes the caller's buffer takes
          Caps,       \* bound: what input_cap may be, 256 and its doubles
          MaxBytes,   \* bound: bytes of a line the user still types at
          MaxKeys     \* bound: keys pressed

Letter == "a"
Wide   == <<"L", "C", "C">>
Bytes  == {"a", "b", "/", " ", ",", "L", "C"}
IsCont(b) == b = "C"
\* A line of whole characters
WellFormed(s) ==
  \A i \in DOMAIN s :
     /\ s[i] = "L" => i + 2 <= Len(s) /\ s[i + 1] = "C" /\ s[i + 2] = "C"
     /\ IsCont(s[i]) => \/ i > 1 /\ s[i - 1] = "L"
                        \/ i > 2 /\ s[i - 2] = "L"

ASSUME LineEditorAssumption ==
  /\ Commands \in Seq(Seq(Bytes)) /\ \A d \in DOMAIN Listing : Listing[d] \in Seq(Seq(Bytes))
  /\ Dict \in Seq(Nat) /\ {PageSize, HistMax, LoadMax, BufMax} \subseteq Nat \ {0}
  /\ {MaxBytes, MaxKeys} \subseteq Nat /\ Caps \subseteq Nat \ {0}

\* Commands are ASCII, and the names in a directory UTF-8
ASSUME NamesAreWhole ==
  /\ \A n \in DOMAIN Commands : WellFormed(Commands[n])
  /\ \A d \in DOMAIN Listing : \A n \in DOMAIN Listing[d] : WellFormed(Listing[d][n])

MaxPinyin == Len(Dict)   \* sizeof(ime_buf) - 1
Found(n)  == IF n = 0 THEN 0 ELSE Dict[n]   \* airy_ime_query

VARIABLES text,    \* input and input_col: the bytes and the caret among them
          cap,     \* input_cap: bytes there is memory for, the NUL after the line among them
          owed,    \* bytes of a character the terminal has not sent yet
          hist,    \* cmd_hist: the lines submitted, oldest first
          idx,     \* cmd_hist_idx: Len(hist) is the line being written
          draft,   \* cmd_hist_edit
          tab,     \* tab_active and tab_sel
          ime,     \* ime_active, the pinyin's length, its candidates and the highlight
          file,    \* the history file
          reading, \* a call of cli_tui_readline runs
          keys     \* the keys pressed
VARIABLES cut,     \* history: a line was cut to a buffer's size, or by a failed save
          unsaved, \* history: the last save failed
          written  \* history: the line that was left by the first Up

edit  == <<text, cap, idx, draft, tab, ime>>
ghost == <<cut, unsaved, written>>
vars  == <<text, cap, owed, hist, idx, draft, tab, ime, file, reading, keys, cut, unsaved, written>>

Line == Seq(Bytes)
TypeOK ==
  /\ text \in [s : Line, c : Nat] /\ text.c <= Len(text.s) /\ cap \in Caps /\ owed \in 0..2
  /\ hist \in Seq(Line \ {<<>>}) /\ Len(hist) <= HistMax /\ idx \in 0..Len(hist)
  /\ \A i \in 1..Len(hist) - 1 : hist[i] # hist[i + 1]
  /\ draft \in Line /\ tab \in [active : BOOLEAN, sel : Nat]
  /\ ime \in [on : BOOLEAN, py : 0..MaxPinyin, cand : Nat, page : Nat, pages : Nat, sel : 0..PageSize - 1]
  /\ file \in Seq(Line) /\ reading \in BOOLEAN /\ keys \in 0..MaxKeys
  /\ cut \in BOOLEAN /\ unsaved \in BOOLEAN /\ written \in Line

\* The least that takes n bytes
Least(n) == {c \in Caps : c >= n /\ \A d \in Caps : d >= n => c <= d}

\* The buffer is there from the first byte on
Empty == [s |-> <<>>, c |-> 0]
Init ==
  /\ text = Empty /\ cap \in Least(0) /\ owed = 0 /\ hist = <<>> /\ idx = 0 /\ draft = <<>>
  /\ tab = [active |-> FALSE, sel |-> 0] /\ file = <<>> /\ reading = FALSE /\ keys = 0
  /\ ime = [on |-> FALSE, py |-> 0, cand |-> 0, page |-> 0, pages |-> 0, sel |-> 0]
  /\ cut = FALSE /\ unsaved = FALSE /\ written = <<>>

-----------------------------------------------------------------------------
(* The line and its caret *)

Before(t) == SubSeq(t.s, 1, t.c)
After(t)  == SubSeq(t.s, t.c + 1, Len(t.s))
AtEnd(s)  == [s |-> s, c |-> Len(s)]

\* The buffer is doubled until it takes n bytes
Sized(n) == IF n <= cap THEN UNCHANGED cap ELSE cap' \in Least(n)

\* The line and its NUL are written past the buffer's end
Overrun == Len(text.s) >= cap

\* tui_input_append, byte by byte
Put(t, bs) == [s |-> Before(t) \o bs \o After(t), c |-> t.c + Len(bs)]

\* The start of the character before the caret, and of the one after it
\* (mutant: one byte instead of a character)
ByteLeft(t) == IF t.c = 0 THEN 0 ELSE t.c - 1
LeftOf(t)  == IF t.c = 0 THEN 0 ELSE Max({n \in 0..t.c - 1 : n = 0 \/ ~IsCont(t.s[n + 1])})
RightOf(t) == IF t.c = Len(t.s) THEN t.c
              ELSE Min({n \in t.c + 1..Len(t.s) : n = Len(t.s) \/ ~IsCont(t.s[n + 1])})

DeleteBack(t) == [s |-> SubSeq(t.s, 1, LeftOf(t)) \o After(t), c |-> LeftOf(t)]
DeleteFwd(t)  == [t EXCEPT !.s = Before(t) \o SubSeq(t.s, RightOf(t) + 1, Len(t.s))]

-----------------------------------------------------------------------------
(* The submitted lines *)

\* tui_cmd_hist_push
PushAlways(h, l) == IF l = <<>> THEN h ELSE Append(IF Len(h) >= HistMax THEN Tail(h) ELSE h, l)
Push(h, l) == IF l = <<>> \/ (h # <<>> /\ Last(h) = l) THEN h
              ELSE Append(IF Len(h) >= HistMax THEN Tail(h) ELSE h, l)

\* tui_cmd_hist_load takes a long line for several (mutant: the buffer counted
\* one byte short)
PiecesShort(l) == [i \in 1..(Len(l) + LoadMax - 2) \div (LoadMax - 1) |->
                SubSeq(l, (i - 1) * (LoadMax - 1) + 1, Min({i * (LoadMax - 1), Len(l)}))]
Pieces(l) == [i \in 1..(Len(l) + LoadMax - 1) \div LoadMax |->
                SubSeq(l, (i - 1) * LoadMax + 1, Min({i * LoadMax, Len(l)}))]
Pushed(h, ls) == LET after[n \in 0..Len(ls)] == IF n = 0 THEN h ELSE Push(after[n - 1], ls[n])
                 IN after[Len(ls)]
Loaded(f) == LET after[n \in 0..Len(f)] == IF n = 0 THEN <<>> ELSE Pushed(after[n - 1], Pieces(f[n]))
             IN after[Len(f)]

-----------------------------------------------------------------------------
(* Tab *)

TokenStart(t) == Max({0} \cup {i \in 1..t.c : t.s[i] = " "})
Token(t)      == SubSeq(t.s, TokenStart(t) + 1, t.c)
\* A token with '/' at its start is a command; of another the directory is what
\* its last '/' ends, and the names are matched with all that follows it, past
\* the caret to the end of the line
IsCommand(t)  == TokenStart(t) < Len(t.s) /\ t.s[TokenStart(t) + 1] = "/"
DirEnd(t)     == Max({TokenStart(t)} \cup {i \in TokenStart(t) + 1..t.c : t.s[i] = "/"})
Names(dir)    == IF dir \in DOMAIN Listing THEN Listing[dir] ELSE <<>>
\* Those of the names that begin so, in their order
Matching(names, w) ==
  LET upTo[n \in 0..Len(names)] == IF n = 0 THEN <<>>
                                   ELSE IF IsPrefix(w, names[n]) THEN Append(upTo[n - 1], names[n])
                                   ELSE upTo[n - 1]
  IN upTo[Len(names)]
Candidates(t) ==
  IF IsCommand(t) THEN Matching(Commands, Token(t))
  ELSE Matching(Names(SubSeq(t.s, TokenStart(t) + 1, DirEnd(t))), SubSeq(t.s, DirEnd(t) + 1, Len(t.s)))

\* tui_tab_replace, with the caret after the candidate (mutant: the rest of the line is dropped)
PickedOver(t, x) == AtEnd(SubSeq(t.s, 1, TokenStart(t)) \o x)
Picked(t, x) == [s |-> SubSeq(t.s, 1, TokenStart(t)) \o x \o After(t), c |-> TokenStart(t) + Len(x)]

-----------------------------------------------------------------------------
(* The pinyin *)

Pages(n)   == Max({1, (n + PageSize - 1) \div PageSize})
Shown(i)   == i.page * PageSize + i.sel   \* the candidate that is highlighted
\* tui_ime_refresh (mutant: the candidates of the letters before stay)
Unrefreshed(i, n) == [i EXCEPT !.py = n]
Refreshed(i, n) ==
  [i EXCEPT !.py = n, !.cand = Found(n), !.pages = Pages(Found(n)),
            !.page = Min({@, Pages(Found(n)) - 1}), !.sel = Min({@, PageSize - 1})]
\* The state after a commit, of the pinyin itself or of a candidate
Spent(i)   == [i EXCEPT !.py = 0, !.cand = 0, !.page = 0, !.sel = 0]
Off(i)     == [i EXCEPT !.on = FALSE]
\* The letters as typed (mutant: one is lost)
RawShort   == [n \in 1..ime.py - 1 |-> Letter]
Raw        == [n \in 1..ime.py |-> Letter]
Flipped(i, up) == IF i.pages <= 1 THEN i
                  ELSE [i EXCEPT !.page = IF up THEN (@ + 1) % i.pages
                                          ELSE IF @ = 0 THEN i.pages - 1 ELSE @ - 1]

-----------------------------------------------------------------------------
(* The keys. One that the terminal sends within a character does not occur. *)

\* What follows a write past the buffer's end is not defined
Reading == reading /\ ~Overrun
Key == Reading /\ keys < MaxKeys /\ keys' = keys + 1
Whole == owed = 0 /\ UNCHANGED owed
Stay  == UNCHANGED <<hist, file, reading, ghost>>
Editing == Key /\ Whole /\ Stay
\* tui_input_append and tui_input_backspace leave the completion
LeavesTab  == tab' = [tab EXCEPT !.active = FALSE]
Insert(bs) == /\ text' = Put(text, bs) /\ Sized(Len(text.s) + Len(bs) + 1)
              /\ IF bs = <<>> THEN UNCHANGED tab ELSE LeavesTab
Room(n) == Len(text.s) + n <= MaxBytes

\* cli_tui_readline begins (rd_init); the pinyin is not touched
Begin == /\ ~reading /\ keys < MaxKeys /\ reading' = TRUE
         /\ text' = Empty /\ tab' = [active |-> FALSE, sel |-> 0] /\ idx' = Len(hist)
         /\ UNCHANGED <<cap, owed, hist, draft, ime, file, keys, ghost>>

\* A byte that is not the pinyin's: it ends the pinyin first, as typed
Byte(b) ==
  /\ IF b = "C" THEN Reading /\ UNCHANGED keys ELSE Key
  /\ Stay /\ UNCHANGED <<idx, draft>>
  /\ b = "C" <=> owed > 0
  /\ owed' = IF b = "L" THEN 2 ELSE IF b = "C" THEN owed - 1 ELSE 0
  /\ ime.on => b \in {"/", "L"}
  /\ Room(ime.py + IF b = "L" THEN 3 ELSE IF b = "C" THEN 0 ELSE 1)
  /\ Insert(IF ime.on THEN Append(Raw, b) ELSE <<b>>)
  /\ ime' = IF ime.on THEN Off(Spent(ime)) ELSE ime

Backspace == /\ Editing /\ ~ime.on /\ text' = DeleteBack(text) /\ LeavesTab
             /\ UNCHANGED <<cap, idx, draft, ime>>

Caret(c) == /\ Editing /\ text' = [text EXCEPT !.c = c] /\ UNCHANGED <<cap, idx, draft, tab, ime>>
Left   == ~ime.on /\ Caret(LeftOf(text))
Right  == ~ime.on /\ Caret(RightOf(text))
CtrlA  == Caret(0)
CtrlE  == Caret(Len(text.s))
Edited(t) == Editing /\ text' = t /\ UNCHANGED <<cap, idx, draft, tab, ime>>
CtrlU  == Edited([s |-> After(text), c |-> 0])
CtrlK  == Edited([text EXCEPT !.s = Before(text)])
CtrlC  == text.s # <<>> /\ Edited(Empty)
CtrlD  == text.s # <<>> /\ Edited(DeleteFwd(text))

Up == /\ Key /\ Whole /\ UNCHANGED <<hist, file, reading, cut, unsaved, tab, ime>>
      /\ written' = IF idx = Len(hist) THEN text.s ELSE written
      /\ \/ /\ idx > 0 /\ idx' = idx - 1
            /\ draft' = text.s /\ text' = AtEnd(hist[idx]) /\ Sized(Len(hist[idx]) + 1)
         \/ idx = 0 /\ UNCHANGED <<text, cap, idx, draft>>
\* The draft is copied to the line without a look at the buffer
Down == /\ Editing /\ idx < Len(hist) /\ idx' = idx + 1
        /\ \/ idx' = Len(hist) /\ text' = AtEnd(draft) /\ UNCHANGED cap
           \/ /\ idx' < Len(hist)
              /\ text' = AtEnd(hist[idx' + 1]) /\ Sized(Len(hist[idx' + 1]) + 1)
        /\ UNCHANGED <<draft, tab, ime>>

\* tui_tab_arm, tui_tab_pick: of several candidates the next in turn; one
\* alone is followed by a blank at the end of the line, if there is memory for
\* it. The buffer is made to take the line up to the candidate; what stands
\* after the caret is not counted.
Tab ==
  /\ Editing /\ UNCHANGED <<idx, draft, ime>> /\ text.s # <<>>
  /\ LET all == Candidates(text)
         sel == IF ~tab.active \/ tab.sel >= Len(all) THEN 0 ELSE tab.sel
         to  == Picked(text, all[sel + 1])
     IN \/ all = <<>> /\ LeavesTab /\ UNCHANGED <<text, cap>>
        \/ /\ Len(all) > 1 /\ tab' = [active |-> TRUE, sel |-> (sel + 1) % Len(all)]
           /\ text' = to /\ Sized(to.c + 2)
        \/ /\ Len(all) = 1 /\ tab' = [active |-> TRUE, sel |-> 0] /\ Sized(to.c + 2)
           /\ text' = IF all[1] # <<>> /\ Last(all[1]) # "/" /\ Len(to.s) + 1 < cap'
                      THEN AtEnd(Append(to.s, " ")) ELSE to

-----------------------------------------------------------------------------
(* The keys of the pinyin *)

Pinyin == Editing /\ UNCHANGED <<idx, draft>>
\* F9 or F10 (mutant: the letters of the pinyin are not given to the line)
KeepsPinyin(i) == Off(i)
SwitchedOff(i) == Off(Spent(i))
Toggle ==
  /\ Pinyin /\ Room(ime.py)
  /\ \/ ~ime.on /\ ime' = [ime EXCEPT !.on = TRUE] /\ UNCHANGED <<text, cap, tab>>
     \/ ime.on /\ ime' = SwitchedOff(ime) /\ Insert(Raw)

ImeOnly(i) == Pinyin /\ ime.on /\ ime' = i /\ UNCHANGED <<text, cap, tab>>
Commit(bs, i) == Pinyin /\ ime.on /\ Room(Len(bs)) /\ ime' = i /\ Insert(bs)

ImeLetter == ImeOnly(IF ime.py < MaxPinyin THEN Refreshed(ime, ime.py + 1) ELSE ime)
\* Digits and the blank take a candidate
ImeDigit(k) == IF ime.page * PageSize + k <= ime.cand THEN Commit(Wide, Spent(ime)) ELSE ImeOnly(ime)
ImeSpace  == Commit(IF Shown(ime) < ime.cand THEN Wide ELSE Raw, Spent(ime))
ImeEsc    == ImeOnly(Off([ime EXCEPT !.py = 0, !.cand = 0]))
ImeBack   == ImeOnly(IF ime.py > 0 THEN Refreshed(ime, ime.py - 1) ELSE Off(ime))
ImeFlip(up) == ImeOnly(Flipped(ime, up))
\* ',' or '.': a page back or forth; where there is one page only, the sign itself
ImeSign(up) == IF ime.pages > 1 THEN ImeFlip(up) ELSE Commit(Append(Raw, ","), Off(Spent(ime)))
\* The highlight stays among the candidates of the page
OnPage    == Min({PageSize, ime.cand - Min({ime.cand, ime.page * PageSize})})
ImeLeft   == ImeOnly([ime EXCEPT !.sel = IF OnPage > 0 /\ @ > 0 THEN @ - 1 ELSE @])
ImeRight  == ImeOnly([ime EXCEPT !.sel = IF @ + 1 < OnPage THEN @ + 1 ELSE @])

ImeKey == \/ ImeLetter \/ ImeSpace \/ ImeEsc \/ ImeBack \/ ImeLeft \/ ImeRight
          \/ \E k \in 1..PageSize : ImeDigit(k)
          \/ \E up \in BOOLEAN : ImeFlip(up) \/ ImeSign(up)

-----------------------------------------------------------------------------
(* The ends of a call *)

\* tui_cmd_hist_save writes the lines anew. The file stays if the new one
\* cannot be made; a write that fails is not noticed, and what there is of the
\* new one, the last line perhaps in part, takes the place of the old.
Saved(long) ==
  \/ UNCHANGED file /\ unsaved' = TRUE /\ cut' = (cut \/ long)
  \/ \E n \in 0..Len(hist') :
       /\ file' = SubSeq(hist', 1, n) /\ unsaved' = (n < Len(hist')) /\ cut' = (cut \/ long)
  \/ \E n \in 1..Len(hist') : \E k \in 1..Len(hist'[n]) - 1 :
       /\ file' = Append(SubSeq(hist', 1, n - 1), SubSeq(hist'[n], 1, k))
       /\ unsaved' = TRUE /\ cut' = TRUE

\* rd_ime_out: Enter takes the highlighted candidate, or the letters as typed
Chosen == IF ~ime.on THEN <<>> ELSE IF Shown(ime) < ime.cand THEN Wide ELSE Raw

\* It submits the line, as far as the caller's buffer takes it, and the line
\* joins the history
Enter ==
  /\ Key /\ Whole
  /\ LET full == Put(text, Chosen).s
     IN hist' = Push(hist, SubSeq(full, 1, Min({BufMax, Len(full)}))) /\ Saved(Len(full) > BufMax)
  /\ Sized(Len(text.s) + Len(Chosen) + 1)
  /\ IF Chosen = <<>> THEN UNCHANGED tab ELSE LeavesTab
  /\ ime' = IF ime.on THEN Off(Spent(ime)) ELSE ime
  /\ text' = Empty /\ reading' = FALSE
  /\ UNCHANGED <<idx, draft, written>>

\* Ctrl+C and Ctrl+D on an empty line, and the end of the terminal's input
Abort == /\ Key /\ Whole /\ text.s = <<>> /\ reading' = FALSE
         /\ UNCHANGED <<edit, hist, file, ghost>>
Eof   == /\ Reading /\ reading' = FALSE /\ owed' = 0
         /\ UNCHANGED <<edit, hist, file, keys, ghost>>

\* The process ends between two calls and another is started (cli_tui_create)
Restart ==
  /\ ~reading /\ keys < MaxKeys /\ keys' = keys + 1
  /\ hist' = Loaded(file) /\ idx' = Len(hist')
  /\ cut' = (cut \/ \E i \in DOMAIN file : Len(file[i]) > LoadMax)
  /\ text' = Empty /\ cap' \in Least(0) /\ draft' = <<>> /\ tab' = [active |-> FALSE, sel |-> 0]
  /\ ime' = [on |-> FALSE, py |-> 0, cand |-> 0, page |-> 0, pages |-> 0, sel |-> 0]
  /\ UNCHANGED <<owed, file, reading, unsaved, written>>

Next == \/ Begin \/ Enter \/ Abort \/ Eof \/ Restart
        \/ \E b \in Bytes \ {"b"} : Byte(b)
        \/ Backspace \/ Left \/ Right \/ Up \/ Down \/ Tab
        \/ CtrlA \/ CtrlE \/ CtrlU \/ CtrlK \/ CtrlC \/ CtrlD
        \/ Toggle \/ ImeKey

Spec == Init /\ [][Next]_vars

-----------------------------------------------------------------------------
(* Properties *)

\* No key tears a character apart: with the bytes the terminal still owes, the
\* line consists of whole characters and the caret is between two of them, and
\* so do the lines to be recalled -- unless a buffer's size or a failed save cut
\* a line, or one outgrew its buffer (the loops over 0x80..0xBF in tui_input.c
\* and tui_line_readline.c:294-316)
WholeCharacters ==
  ~cut /\ ~Overrun =>
    /\ reading => LET t == Put(text, [n \in 1..owed |-> "C"])
                  IN WellFormed(t.s) /\ (t.c = Len(t.s) \/ ~IsCont(t.s[t.c + 1]))
    /\ WellFormed(draft) /\ \A i \in DOMAIN hist : WellFormed(hist[i])

\* The candidates are those of the letters that are shown, the page is one
\* they have, and with the method off no letters wait unseen
\* (tui_ime_refresh, and the commits that end the pinyin)
CandidatesFit ==
  /\ ime.cand = Found(ime.py)
  /\ ime.py > 0 => ime.pages = Pages(ime.cand) /\ ime.page < ime.pages
  /\ ~ime.on => ime.py = 0

\* Letters leave the pinyin for the line or the submitted text, but for
\* Esc and the backspace (tui_ime_commit_raw, tui_ime_commit_cand)
PinyinIsKept ==
  [][ime.py > 0 /\ ime'.py < ime.py =>
       \/ ImeEsc \/ ImeBack \/ Restart
       \/ reading' /\ \E bs \in {[n \in 1..ime.py |-> Letter], Wide} : IsPrefix(Before(text) \o bs, text'.s) /\ IsSuffix(After(text), text'.s)
       \/ /\ ~reading' /\ hist' # <<>>
          /\ \E n \in {ime.py, Len(Wide)} : Len(Last(hist')) = Min({BufMax, Len(text.s) + n})]_vars

\* A completion changes the word before the caret and nothing else: what
\* stands before the word and after the caret stays, unless the line outgrows
\* its buffer. That is done by no other key, not even by the draft that comes
\* back, nor by a completion at the end of the line (tui_tab_replace,
\* tui_tab_space, tui_input_append, tui_cmd_hist_apply, rd_draft)
TabKeepsTheRest ==
  [][/\ Overrun' => Tab /\ text.c < Len(text.s)
     /\ Tab => \/ Overrun'
               \/ /\ IsPrefix(SubSeq(text.s, 1, TokenStart(text)), text'.s)
                  /\ \E end \in {<<>>, <<" ">>} : IsSuffix(After(text) \o end, text'.s)]_vars

\* The next process recalls the lines this one could, in their order, when the
\* last save went through and no line is longer than what is read at once
\* (tui_cmd_hist_save against tui_cmd_hist_load)
HistorySurvives == [][Restart => unsaved \/ cut' \/ hist' = hist]_vars

\* Back at the bottom of the history is the line that was left for it
\* (tui_line_readline.c:260 says "restore the draft from before the history")
DraftReturns == [][Down /\ idx' = Len(hist) => text'.s = written]_vars

\* tui_complete.c:22 says "replace the token in the input buffer by the
\* candidate's text": the line it makes has its place in the buffer
LineFits == ~Overrun
=============================================================================
