----------------------------- MODULE EmbeddedCli -----------------------------
(***************************************************************************)
(* The line editor of the EVSoC application (evsoc_app/evsoc_cli.cpp):     *)
(* keys and escape sequences, the history buffer and the search in it, the *)
(* splitting of a line into arguments, and what the terminal shows.        *)
(*                                                                         *)
(* Characters are model strings, NUL the terminator; the prompt is one     *)
(* character.  The variable cli is struct embedded_cli; the terminal       *)
(* (external) is wider than a line.  The tab completion is not called by   *)
(* the code.  A SIGINT that interrupts the editor itself or a command (the *)
(* handler changes the line under them) is not modelled.                   *)
(***************************************************************************)
EXTENDS Integers, Sequences, FiniteSets

CONSTANTS
  Chars,           \* characters typed
  MaxLine,         \* EMBEDDED_CLI_MAX_LINE (120)
  HistoryLen,      \* EMBEDDED_CLI_HISTORY_LEN (512)
  MaxArgc          \* EMBEDDED_CLI_MAX_ARGC (10)

NUL == "nul"
Blank == " "

ASSUME CliAssumption ==
  /\ MaxLine \in Nat \ {0} /\ HistoryLen \in Nat /\ HistoryLen > MaxLine /\ MaxArgc \in Nat \ {0}
  /\ NUL \notin Chars

VARIABLES
  cli,             \* struct embedded_cli
  argv,            \* the arguments of the line just entered
  quit,            \* cli_main has left its loop
  term,            \* the terminal: the line the cursor is on, without trailing blanks, and the column
  torn             \* an arrow key took the editor out of a search, or an Enter was not echoed

cliVars == <<cli, argv, quit, term, torn>>

QuitWord == <<"q">>                  \* the word "quit"

embedded_cli_init ==
  [buffer |-> <<>>, history |-> [k \in 1 .. HistoryLen |-> NUL], searching |-> FALSE,
   history_pos |-> -1, len |-> 0, cursor |-> 0, done |-> FALSE, have_escape |-> FALSE,
   have_csi |-> FALSE, counter |-> 0]

Prompt == <<">">>
CliInit ==
  /\ cli = embedded_cli_init /\ argv = <<>> /\ quit = FALSE /\ torn = FALSE
  /\ term = [text |-> Prompt, col |-> Len(Prompt)]

reset_line(c) ==
  [c EXCEPT !.len = 0, !.cursor = 0, !.counter = 0, !.have_csi = FALSE, !.have_escape = FALSE,
            !.history_pos = -1, !.searching = FALSE]

(***************************************************************************)
(* History: strings one after another, newest first, in one buffer.        *)
(***************************************************************************)
StrAt(h, pos) ==
  LET end == CHOOSE k \in pos .. Len(h) : h[k] = NUL /\ \A j \in pos .. k - 1 : h[j] # NUL
  IN SubSeq(h, pos, end - 1)

\* Where the entries start: after each terminator, up to and including the first empty one.
Starts(h) ==
  LET first(p) == p = 1 \/ h[p - 1] = NUL
  IN {p \in 1 .. HistoryLen : first(p) /\ \A q \in 1 .. p - 1 : first(q) => h[q] # NUL}

\* The set of entry n, empty for NULL.
get_history(c, n) ==
  {StrAt(c.history, p) :
     p \in {p \in Starts(c.history) : Cardinality({q \in Starts(c.history) : q < p}) = n}}

HasText(h, s) == \E k \in 0 .. Len(h) - Len(s) : SubSeq(h, k + 1, k + Len(s)) = s

get_history_search(c) ==
  LET Match(n) == \E h \in get_history(c, n) : HasText(h, c.buffer)
      first == {n \in 0 .. HistoryLen : Match(n) /\ \A m \in 0 .. n - 1 : ~Match(m)}
  IN UNION {get_history(c, n) : n \in first}

\* The last byte of the history is always a terminator.
CutOff(h) == [k \in 1 .. HistoryLen |-> IF k = HistoryLen THEN NUL ELSE h[k]]

\* Mutant: the line goes in without its terminator.
extend_history_mutant(c) ==
  IF c.buffer = <<>> \/ c.buffer = StrAt(c.history, 1) THEN c
  ELSE [c EXCEPT !.history = CutOff(c.buffer \o c.history)]

\* The entries move up by one; the oldest are cut off.  The move runs two bytes past the
\* buffer, and the first of them is the flag searching.
extend_history(c) ==
  IF c.buffer = <<>> \/ c.buffer = StrAt(c.history, 1) THEN c
  ELSE LET moved == c.buffer \o <<NUL>> \o c.history
       IN [c EXCEPT !.history = CutOff(moved), !.searching = moved[HistoryLen + 1] # NUL]

stop_search(c) ==
  LET found == get_history_search(c)
      text == IF found = {} THEN <<>> ELSE CHOOSE h \in found : TRUE
  IN [c EXCEPT !.buffer = text, !.len = Len(text), !.cursor = Len(text), !.searching = FALSE]

EndSearch(c) == IF c.searching THEN stop_search(c) ELSE c

(***************************************************************************)
(* Keys.                                                                   *)
(***************************************************************************)
insert_default_char(c, ch) ==
  IF c.len >= MaxLine - 1 THEN c
  ELSE [c EXCEPT !.buffer = SubSeq(@, 1, c.cursor) \o <<ch>> \o SubSeq(@, c.cursor + 1, c.len),
                 !.len = @ + 1, !.cursor = @ + 1]

\* Takes out the character at position k, counted from 0.
Without(c, k) ==
  [c EXCEPT !.buffer = SubSeq(@, 1, k) \o SubSeq(@, k + 2, c.len), !.len = @ - 1]

Backspace(c) == IF c.cursor > 0 THEN [Without(c, c.cursor - 1) EXCEPT !.cursor = @ - 1] ELSE c

Show(c, text, n) ==
  [c EXCEPT !.buffer = text, !.len = Len(text), !.cursor = Len(text), !.history_pos = n]

\* The up arrow keeps its place at the end of the history; the down arrow leaves it.
Recall(c, n, kept) ==
  IF get_history(c, n) # {} THEN Show(c, CHOOSE h \in get_history(c, n) : TRUE, n)
  ELSE [reset_line([c EXCEPT !.buffer = <<>>]) EXCEPT !.history_pos = kept]

\* The final character of a CSI sequence, with its count.
Csi(c, ch, n) ==
  CASE ch = "A" -> Recall(c, c.history_pos + 1, c.history_pos)
    [] ch = "B" -> Recall(c, c.history_pos - 1, -1)
    [] ch = "C" -> IF c.cursor <= c.len - n THEN [c EXCEPT !.cursor = @ + n] ELSE c
    [] ch = "D" -> IF c.cursor >= n THEN [c EXCEPT !.cursor = @ - n] ELSE c
    [] ch = "F" -> [c EXCEPT !.cursor = c.len]
    [] ch = "H" -> [c EXCEPT !.cursor = 0]
    [] ch = "~" /\ n = 3 -> IF c.cursor < c.len THEN Without(c, c.cursor) ELSE c
    [] OTHER -> c

Digits == {"1", "3"}
CsiKey(c, ch) ==
  IF ch \in Digits /\ c.counter < 100
    THEN [c EXCEPT !.counter = @ * 10 + (IF ch = "1" THEN 1 ELSE 3)]
    ELSE [Csi(c, ch, IF c.counter = 0 THEN 1 ELSE c.counter)
            EXCEPT !.have_csi = FALSE, !.have_escape = FALSE, !.counter = 0]

PlainKey(c, ch) ==
  CASE ch = "^A" -> [c EXCEPT !.cursor = 0]
    [] ch = "^C" -> [reset_line(c) EXCEPT !.buffer = <<>>]
    [] ch = "^E" -> [c EXCEPT !.cursor = c.len]
    [] ch = "^K" -> [c EXCEPT !.buffer = SubSeq(@, 1, c.cursor), !.len = c.cursor]
    [] ch = "^R" -> [c EXCEPT !.searching = TRUE]
    [] ch = "bs" -> Backspace(EndSearch(c))
    [] ch = "esc" -> [EndSearch(c) EXCEPT !.have_csi = FALSE, !.have_escape = TRUE, !.counter = 0]
    [] ch = "[" /\ c.have_escape -> [c EXCEPT !.have_csi = TRUE]
    [] ch \in {"nl", "^L"} -> c
    [] OTHER -> insert_default_char(c, ch)

embedded_cli_insert_char(cl, ch) ==
  LET fresh == IF cl.done THEN [cl EXCEPT !.buffer = <<>>, !.done = FALSE] ELSE cl
      typed == IF fresh.have_csi THEN CsiKey(fresh, ch) ELSE PlainKey(fresh, ch)
  IN IF ch = "nl" THEN reset_line(extend_history(EndSearch([typed EXCEPT !.done = TRUE])))
     ELSE typed

(***************************************************************************)
(* Arguments.  The parser takes quotes and backslashes out of the buffer   *)
(* as it goes.  s.args are the arguments so far, the last one open while   *)
(* s.in_arg.                                                               *)
(***************************************************************************)
Grow(args, ch) == [args EXCEPT ![Len(args)] = Append(@, ch)]
Shrink(args) == [args EXCEPT ![Len(args)] = SubSeq(@, 1, Len(@) - 1)]

\* A backslash is taken out; the parser then looks at the character before it, and takes
\* an escaped quote there for the start of a string.
AfterEscape(s) ==
  LET arg == s.args[Len(s.args)]
  IN IF arg # <<>> /\ arg[Len(arg)] = "'"
       THEN [s EXCEPT !.args = Shrink(@), !.in_escape = TRUE, !.in_string = TRUE]
       ELSE [s EXCEPT !.in_escape = TRUE]

OpenArg(s) == IF s.in_arg THEN s ELSE [s EXCEPT !.args = Append(@, <<>>), !.in_arg = TRUE]

Parse(s, ch) ==
  IF s.stop THEN s
  ELSE IF s.in_escape THEN [s EXCEPT !.in_escape = FALSE, !.args = Grow(@, ch)]
  ELSE IF s.in_string THEN IF ch = "'" THEN [s EXCEPT !.in_string = FALSE]
                           ELSE [s EXCEPT !.args = Grow(@, ch)]
  ELSE IF ch = Blank THEN [s EXCEPT !.in_arg = FALSE]
  ELSE IF ~s.in_arg /\ Len(s.args) >= MaxArgc THEN [s EXCEPT !.stop = TRUE]
  ELSE CASE ch = "\\" -> AfterEscape(OpenArg(s))
         [] ch = "'" -> [OpenArg(s) EXCEPT !.in_string = TRUE]
         [] OTHER -> [OpenArg(s) EXCEPT !.args = Grow(@, ch)]

\* A full argv gives its last place to NULL.
embedded_cli_argc(text) ==
  LET s0 == [args |-> <<>>, in_arg |-> FALSE, in_escape |-> FALSE, in_string |-> FALSE, stop |-> FALSE]
      parsed[k \in 0 .. Len(text)] == IF k = 0 THEN s0 ELSE Parse(parsed[k - 1], text[k])
      args == parsed[Len(text)].args
  IN IF Len(args) >= MaxArgc THEN SubSeq(args, 1, MaxArgc - 1) ELSE args

(***************************************************************************)
(* The terminal.                                                           *)
(***************************************************************************)
Trim(s) == SubSeq(s, 1, CHOOSE n \in 0 .. Len(s) : /\ n > 0 => s[n] # Blank
                                                  /\ \A k \in n + 1 .. Len(s) : s[k] = Blank)
NewLine == [text |-> <<>>, col |-> 0]         \* also MOVE_BOL CLEAR_EOL

LeftOf(t) == [k \in 1 .. t.col |-> IF k <= Len(t.text) THEN t.text[k] ELSE Blank]

cli_puts(t, s) ==
  [text |-> Trim(LeftOf(t) \o s \o SubSeq(t.text, t.col + Len(s) + 1, Len(t.text))),
   col |-> t.col + Len(s)]

clear_eol(t) == [t EXCEPT !.text = Trim(LeftOf(t))]
term_cursor_fwd(t, n) == [t EXCEPT !.col = @ + n]
term_cursor_back(t, n) == [t EXCEPT !.col = IF @ < n THEN 0 ELSE @ - n]

\* From column k of the line to its end, and back to its cursor.
Redraw(t, d, k) == term_cursor_back(cli_puts(t, SubSeq(d.buffer, k, d.len)), d.len - d.cursor)
\* A character fewer: what is left is followed by a blank.
Rubout(t, d) ==
  term_cursor_back(cli_puts(t, SubSeq(d.buffer, d.cursor + 1, d.len) \o <<Blank>>),
                   d.len - d.cursor + 1)
Moved(t, c, d) ==
  IF d.cursor < c.cursor THEN term_cursor_back(t, c.cursor - d.cursor)
  ELSE term_cursor_fwd(t, d.cursor - c.cursor)
ShowFound(t, c) == IF c.searching THEN cli_puts(NewLine, Prompt \o stop_search(c).buffer) ELSE t

\* The key ch takes the editor from c to d: the escape sequences,
CsiEcho(t, c, d, ch) ==
  CASE ch \in {"A", "B"} -> clear_eol(cli_puts(term_cursor_back(t, c.cursor), d.buffer))
    [] ch \in {"C", "D", "F", "H"} -> Moved(t, c, d)
    [] ch = "~" /\ d.len < c.len -> Rubout(t, d)
    [] OTHER -> t

\* and the others.  What a search shows is left out: it ends with the line drawn anew.
PlainEcho(t, c, d, ch) ==
  CASE ch \in {"^A", "^E"} -> Moved(t, c, d)
    [] ch = "^C" -> cli_puts(NewLine, Prompt)
    [] ch = "^K" -> clear_eol(t)
    [] ch = "^L" -> Redraw(cli_puts(NewLine, Prompt), d, 1)
    [] ch = "bs" -> IF EndSearch(c).cursor = 0 THEN ShowFound(t, c)
                    ELSE Rubout(term_cursor_back(ShowFound(t, c), 1), d)
    [] ch = "esc" -> ShowFound(t, c)
    [] ch = "nl" -> NewLine
    [] ch = "[" /\ c.have_escape -> t
    [] OTHER -> IF d.len = c.len THEN t ELSE Redraw(t, d, d.cursor)

(***************************************************************************)
(* cli_main: a key, and after a line its command, whose output is lines,   *)
(* and a prompt.  A key of a CSI sequence is one of those the editor       *)
(* knows; MaxCount bounds the count.                                       *)
(***************************************************************************)
MaxCount == 3
Keys(c) ==
  IF c.have_csi THEN {"A", "B", "C", "D", "F", "H", "~", "nl"}
                     \cup (IF c.counter * 10 < MaxCount THEN Digits ELSE {})
  ELSE Chars \cup {"^A", "^C", "^E", "^K", "^L", "^R", "bs", "esc", "nl"}
             \cup (IF c.have_escape THEN {"["} ELSE {})

Key(ch) ==
  /\ ~quit /\ cli' = embedded_cli_insert_char(cli, ch)
  /\ argv' = IF cli'.done THEN embedded_cli_argc(cli'.buffer) ELSE <<>>
  /\ quit' = (argv' # <<>> /\ Head(argv') = QuitWord)
  /\ torn' = IF cli'.done THEN cli.have_csi /\ argv' = <<>>
             ELSE \/ /\ torn /\ ~(ch \in {"^C", "^L"} /\ ~cli.have_csi)
                     /\ ~(ch = "^R" /\ ~cli.searching)
                  \/ cli.have_csi /\ cli.searching /\ ch \in {"A", "B"}
  /\ LET c == [cli EXCEPT !.done = FALSE, !.buffer = IF cli.done THEN <<>> ELSE @]
         echo == IF c.have_csi THEN CsiEcho(term, c, cli', ch) ELSE PlainEcho(term, c, cli', ch)
     IN term' = IF cli'.searching \/ torn' THEN NewLine
                ELSE IF ~cli'.done \/ quit' THEN echo
                ELSE cli_puts(IF argv' = <<>> THEN echo ELSE NewLine, Prompt)

\* SIGINT, between two keys: the handler inserts a Ctrl-C, within an escape sequence too.
intHandler == Key("^C")

CliNext == intHandler \/ \E ch \in Keys(cli) : Key(ch)

CliSpec == CliInit /\ [][CliNext]_cliVars

(***************************************************************************)
(* Properties.                                                             *)
(***************************************************************************)
\* While a line is edited its length is the length of the string in the buffer, which has
\* room for its terminator, and the cursor is on it: over every key, recalled and searched
\* history entries cut off at the end of the buffer included.
LineConsistent ==
  ~cli.done => /\ cli.len = Len(cli.buffer) /\ cli.len < MaxLine
               /\ cli.cursor \in 0 .. cli.len

\* The last line entered is the newest history entry, and the search mode is never left on
\* by the move that overruns the history buffer.
HistoryKept ==
  cli.done => ~cli.searching /\ (cli.buffer # <<>> => get_history(cli, 0) = {cli.buffer})

\* On a line without quotes and backslashes the arguments are its words, in order, and the
\* last place of argv is left to NULL.
WordStarts(t) == {k \in 1 .. Len(t) : t[k] # Blank /\ (k = 1 \/ t[k - 1] = Blank)}
Rank(k, t) == Cardinality({j \in WordStarts(t) : j <= k})
ArgsAreWords ==
  LET t == cli.buffer IN
  cli.done /\ (\A k \in 1 .. Len(t) : t[k] \notin {"'", "\\"}) =>
    /\ Len(argv) < MaxArgc
    /\ Cardinality(WordStarts(t)) < MaxArgc => Len(argv) = Cardinality(WordStarts(t))
    /\ \A k \in WordStarts(t) :
         Rank(k, t) <= Len(argv) =>
           LET w == argv[Rank(k, t)]
           IN /\ w = SubSeq(t, k, k + Len(w) - 1)
              /\ k + Len(w) > Len(t) \/ t[k + Len(w)] = Blank

\* Outside a search the terminal shows the prompt and the line being edited, with its cursor
\* where the editor's is: what is written after every key (the rest of the line, blanks,
\* cursor moves) adds up, whatever was recalled, found or cut before.  An Enter that ends a CSI
\* sequence and an arrow key in a search (the escape before it does not count if another key
\* comes between) break it, until the line is drawn again.
ScreenShowsLine ==
  ~cli.done /\ ~cli.searching /\ ~torn =>
    term.text = Trim(Prompt \o cli.buffer) /\ term.col = Len(Prompt) + cli.cursor

CliCorrect == LineConsistent /\ HistoryKept /\ ArgsAreWords /\ ScreenShowsLine
=============================================================================
