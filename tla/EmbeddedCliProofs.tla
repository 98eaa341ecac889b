-------------------------- MODULE EmbeddedCliProofs -------------------------
(***************************************************************************)
(* Theorems about EmbeddedCli, the line editor of the EVSoC application,   *)
(* for every alphabet, length of a line, length of the history and number  *)
(* of arguments, and every sequence of keys.                               *)
(***************************************************************************)
EXTENDS EmbeddedCli, SequenceTheorems, FiniteSetTheorems, TLAPS

(***************************************************************************)
(* The line being edited and the history.                                  *)
(***************************************************************************)
\* A set of natural numbers has a least element.
LEMMA LeastNatural ==
  ASSUME NEW T, T \subseteq Nat, T # {}
  PROVE  \E x \in T : \A y \in T : x <= y
<1> DEFINE R == OpToRel(<, Nat)
<1>1. IsWellFoundedOn(R, Nat)
  BY NatLessThanWellFounded
<1>2. \A x, y \in Nat : x < y => <<x, y>> \in R
  BY DEF OpToRel
<1> HIDE DEF R
<1>3. PICK x \in T : \A y \in T : ~(<<y, x>> \in R)
  BY <1>1, WFMin
<1>4. ASSUME NEW y \in T PROVE x <= y
  <2>1. x \in Nat /\ y \in Nat
    OBVIOUS
  <2>2. ~(y < x)
    BY <1>2, <1>3, <2>1, Zenon
  <2> QED BY <2>1, <2>2
<1> QED BY <1>4

\* A history: from every place on, a terminator comes within the length of a line.
Histories ==
  {h \in [1 .. HistoryLen -> Chars \cup {NUL}] :
     \A p \in 1 .. HistoryLen : \E k \in p .. HistoryLen : h[k] = NUL /\ k < p + MaxLine}

\* A line leaves room for its terminator.
Lines == {s \in Seq(Chars) : Len(s) < MaxLine}

Clis == [buffer : Lines, history : Histories, searching : BOOLEAN, history_pos : Int,
         len : Nat, cursor : Nat, done : BOOLEAN, have_escape : BOOLEAN, have_csi : BOOLEAN,
         counter : Nat]

\* The editor while a line is edited.
Edited(c) == c \in Clis /\ c.len = Len(c.buffer) /\ c.cursor <= c.len

CliInv ==
  /\ cli \in Clis /\ (cli.done => cli.len = 0 /\ cli.cursor = 0)
  /\ ~cli.done => Edited(cli)
  /\ HistoryKept

\* The string at a place of the history ends at the first terminator.
LEMMA StringAt ==
  ASSUME NEW h \in Histories, NEW p \in 1 .. HistoryLen
  PROVE  \E e \in p .. HistoryLen :
           /\ h[e] = NUL /\ e < p + MaxLine /\ \A j \in p .. e - 1 : h[j] # NUL
           /\ StrAt(h, p) = SubSeq(h, p, e - 1)
<1>0. HistoryLen \in Nat /\ MaxLine \in Nat
  BY CliAssumption
<1>1. Len(h) = HistoryLen
  BY <1>0 DEF Histories
<1> DEFINE T == {k \in p .. HistoryLen : h[k] = NUL}
<1>2. PICK k \in p .. HistoryLen : h[k] = NUL /\ k < p + MaxLine
  BY DEF Histories
<1>3. T \subseteq Nat /\ k \in T
  BY <1>0, <1>2
<1> HIDE DEF T
<1>4. PICK m \in T : \A y \in T : m <= y
  BY <1>3, LeastNatural
<1>5. m \in p .. HistoryLen /\ h[m] = NUL /\ m <= k
  BY <1>3, <1>4 DEF T
<1>6. \A j \in p .. m - 1 : h[j] # NUL
  BY <1>0, <1>4, <1>5 DEF T
<1> DEFINE e == CHOOSE i \in p .. Len(h) : h[i] = NUL /\ \A j \in p .. i - 1 : h[j] # NUL
<1>7. e \in p .. HistoryLen /\ h[e] = NUL /\ \A j \in p .. e - 1 : h[j] # NUL
  BY <1>1, <1>5, <1>6
<1> HIDE DEF e
<1>8. e <= k
  BY <1>0, <1>2, <1>7
<1>9. StrAt(h, p) = SubSeq(h, p, e - 1)
  BY DEF StrAt, e
<1>10. e < p + MaxLine
  BY <1>0, <1>2, <1>7, <1>8
<1> QED BY <1>7, <1>9, <1>10

\* It is a line.
LEMMA EntryIsLine ==
  ASSUME NEW h \in Histories, NEW p \in 1 .. HistoryLen
  PROVE  StrAt(h, p) \in Lines
<1>0. HistoryLen \in Nat /\ MaxLine \in Nat
  BY CliAssumption
<1>1. PICK e \in p .. HistoryLen :
           /\ h[e] = NUL /\ e < p + MaxLine /\ \A j \in p .. e - 1 : h[j] # NUL
           /\ StrAt(h, p) = SubSeq(h, p, e - 1)
  BY StringAt
<1> DEFINE s == SubSeq(h, p, e - 1)
<1>2. s = [i \in 1 .. e - p |-> h[p + i - 1]]
  BY <1>0 
<1>3. \A i \in 1 .. e - p : h[p + i - 1] \in Chars
  <2> SUFFICES ASSUME NEW i \in 1 .. e - p PROVE h[p + i - 1] \in Chars
    OBVIOUS
  <2>1. p + i - 1 \in p .. e - 1 /\ p + i - 1 \in 1 .. HistoryLen
    BY <1>0
  <2>2. h[p + i - 1] \in Chars \cup {NUL}
    BY <2>1 DEF Histories
  <2> QED BY <1>1, <2>1, <2>2
<1>4. e - p \in Nat /\ e - p < MaxLine
  BY <1>0, <1>1
<1> HIDE DEF s
<1>5. s \in Seq(Chars) /\ Len(s) = e - p
  BY <1>2, <1>3, <1>4
<1> QED BY <1>1, <1>4, <1>5 DEF Lines, s

\* The entries of a history are lines.
LEMMA EntriesAreLines ==
  ASSUME NEW c \in Clis, NEW n
  PROVE  get_history(c, n) \subseteq Lines
<1>1. c.history \in Histories
  BY DEF Clis
<1>2. Starts(c.history) \subseteq 1 .. HistoryLen
  BY DEF Starts
<1> QED BY <1>1, <1>2, EntryIsLine DEF get_history

\* The newest entry is the string at the start.
LEMMA NewestEntry ==
  ASSUME NEW c \in Clis
  PROVE  get_history(c, 0) = {StrAt(c.history, 1)}
<1> DEFINE S == Starts(c.history)
           below(p) == {q \in S : q < p}
<1>0. HistoryLen \in Nat /\ HistoryLen >= 1
  BY CliAssumption
<1>1. S \subseteq 1 .. HistoryLen /\ 1 \in S
  BY <1>0 DEF Starts
<1> HIDE DEF S
<1>2. below(1) = {}
  <2>1. \A q \in S : ~(q < 1)
    BY <1>0, <1>1
  <2> QED BY <2>1, Zenon
<1>3. Cardinality(below(1)) = 0
  BY <1>2, FS_EmptySet
<1>4. ASSUME NEW p \in S, p # 1 PROVE Cardinality(below(p)) # 0
  <2>1. p \in 1 .. HistoryLen /\ 1 < p
    BY <1>0, <1>1, <1>4
  <2>2. 1 \in below(p) /\ below(p) \subseteq 1 .. HistoryLen
    BY <1>1, <2>1
  <2>3. IsFiniteSet(1 .. HistoryLen)
    BY <1>0, FS_Interval
  <2> HIDE DEF below
  <2>4. IsFiniteSet(below(p))
    BY <2>2, <2>3, FS_Subset
  <2> QED BY <2>2, <2>4, FS_EmptySet
<1>5. {p \in S : Cardinality(below(p)) = 0} = {1}
  BY <1>1, <1>3, <1>4
<1> HIDE DEF below
<1>6. get_history(c, 0) = {StrAt(c.history, p) : p \in {p \in S : Cardinality(below(p)) = 0}}
  BY DEF get_history, S, below
<1> QED BY <1>5, <1>6

\* Parts of a line.
LEMMA LineParts ==
  ASSUME NEW s \in Seq(Chars), NEW k \in 0 .. Len(s)
  PROVE  /\ SubSeq(s, 1, k) \in Seq(Chars) /\ Len(SubSeq(s, 1, k)) = k
         /\ SubSeq(s, k + 1, Len(s)) \in Seq(Chars) /\ Len(SubSeq(s, k + 1, Len(s))) = Len(s) - k
<1>1. k \in Nat /\ Len(s) \in Nat /\ k <= Len(s)
  OBVIOUS
<1>2. SubSeq(s, 1, k) \in Seq(Chars) /\ Len(SubSeq(s, 1, k)) = k
  BY <1>1, SubSeqProperties
<1>3. SubSeq(s, k + 1, Len(s)) \in Seq(Chars) /\ Len(SubSeq(s, k + 1, Len(s))) = Len(s) - k
  BY <1>1, SubSeqProperties
<1> QED BY <1>2, <1>3

\* A character typed goes in at the cursor, if the line and its terminator still fit.
LEMMA InsertEdits ==
  ASSUME NEW c, Edited(c), NEW ch \in Chars
  PROVE  Edited(insert_default_char(c, ch)) /\ insert_default_char(c, ch).done = c.done
<1>0. MaxLine \in Nat
  BY CliAssumption
<1>1. /\ c \in Clis /\ c.buffer \in Seq(Chars) /\ c.len = Len(c.buffer) /\ c.cursor \in 0 .. c.len
      /\ c.len \in Nat
  BY DEF Edited, Clis, Lines
<1>2. CASE c.len >= MaxLine - 1
  BY <1>2 DEF insert_default_char
<1>3. CASE ~(c.len >= MaxLine - 1)
  <2> DEFINE a == SubSeq(c.buffer, 1, c.cursor)
             b == SubSeq(c.buffer, c.cursor + 1, c.len)
             s == a \o <<ch>> \o b
  <2>1. a \in Seq(Chars) /\ b \in Seq(Chars) /\ Len(a) = c.cursor /\ Len(b) = c.len - c.cursor
    <3> DEFINE t == c.buffer
               k == c.cursor
    <3>1. t \in Seq(Chars) /\ k \in 0 .. Len(t)
      BY <1>1
    <3> HIDE DEF t, k
    <3>2. /\ SubSeq(t, 1, k) \in Seq(Chars) /\ Len(SubSeq(t, 1, k)) = k
          /\ SubSeq(t, k + 1, Len(t)) \in Seq(Chars) /\ Len(SubSeq(t, k + 1, Len(t))) = Len(t) - k
      BY <3>1, LineParts, Zenon
    <3> QED BY <1>1, <3>2, Zenon DEF t, k
  <2> HIDE DEF a, b
  <2>2. s \in Seq(Chars) /\ Len(s) = c.len + 1
    <3> DEFINE e == a \o <<ch>>
    <3>1. e \in Seq(Chars) /\ Len(e) = Len(a) + 1
      BY <2>1
    <3> HIDE DEF e
    <3>2. e \o b \in Seq(Chars) /\ Len(e \o b) = Len(e) + Len(b)
      BY <2>1, <3>1, ConcatProperties, Zenon
    <3>3. c.cursor \in Nat /\ c.len \in Nat
      BY <1>1
    <3> QED BY <2>1, <3>1, <3>2, <3>3 DEF e
  <2> HIDE DEF s
  <2>3. s \in Lines
    BY <1>0, <1>1, <1>3, <2>2 DEF Lines
  <2>4. insert_default_char(c, ch) = [c EXCEPT !.buffer = s, !.len = @ + 1, !.cursor = @ + 1]
    BY <1>3 DEF insert_default_char, s, a, b
  <2> DEFINE d == insert_default_char(c, ch)
  <2>5. /\ d.done = c.done /\ d.buffer = s /\ d.len = c.len + 1 /\ d.cursor = c.cursor + 1
        /\ c.len + 1 \in Nat /\ c.cursor + 1 \in Nat /\ c.cursor + 1 <= c.len + 1
    BY <1>1, <2>4 DEF Clis
  <2>6. d \in Clis
    BY <1>1, <2>3, <2>4, <2>5 DEF Clis
  <2> HIDE DEF d
  <2> QED BY <2>2, <2>5, <2>6 DEF Edited, d
<1> QED BY <1>2, <1>3

\* Removing the character at place k of the line.
LEMMA WithoutEdits ==
  ASSUME NEW c, Edited(c), NEW k \in 0 .. c.len - 1
  PROVE  /\ Without(c, k) \in Clis /\ Without(c, k).done = c.done
         /\ Without(c, k).len = Len(Without(c, k).buffer) /\ Without(c, k).len = c.len - 1
         /\ Without(c, k).cursor = c.cursor
<1>1. c \in Clis /\ c.buffer \in Seq(Chars) /\ c.len = Len(c.buffer) /\ c.len \in Nat /\ c.len < MaxLine
  BY DEF Edited, Clis, Lines
<1>m. MaxLine \in Nat
  BY CliAssumption
<1> DEFINE a == SubSeq(c.buffer, 1, k)
           b == SubSeq(c.buffer, k + 2, c.len)
           s == a \o b
<1>2. a \in Seq(Chars) /\ Len(a) = k
  BY <1>1, LineParts
<1>3. b \in Seq(Chars) /\ Len(b) = c.len - (k + 1)
  <2> DEFINE j == k + 1
  <2>1. j \in 0 .. Len(c.buffer) /\ k + 2 = j + 1
    BY <1>1
  <2> HIDE DEF j
  <2>2. /\ SubSeq(c.buffer, j + 1, Len(c.buffer)) \in Seq(Chars)
        /\ Len(SubSeq(c.buffer, j + 1, Len(c.buffer))) = Len(c.buffer) - j
    BY <1>1, <2>1, LineParts
  <2> QED BY <1>1, <2>1, <2>2 DEF j
<1> HIDE DEF a, b
<1>4. s \in Seq(Chars) /\ Len(s) = c.len - 1 /\ c.len - 1 \in Nat
  <2>1. s \in Seq(Chars) /\ Len(s) = Len(a) + Len(b)
    BY <1>2, <1>3, ConcatProperties, Zenon
  <2> QED BY <1>1, <1>2, <1>3, <2>1
<1> HIDE DEF s
<1>5. s \in Lines
  BY <1>1, <1>4, <1>m DEF Lines
<1>6. Without(c, k) = [c EXCEPT !.buffer = s, !.len = @ - 1]
  BY DEF Without, s, a, b
<1> QED BY <1>1, <1>4, <1>5, <1>6 DEF Clis

\* Removing the character before the cursor.
LEMMA BackspaceEdits ==
  ASSUME NEW c, Edited(c)
  PROVE  Edited(Backspace(c)) /\ Backspace(c).done = c.done
<1>1. c.cursor \in Nat /\ c.len \in Nat /\ c.cursor <= c.len
  BY DEF Edited, Clis
<1>2. CASE ~(c.cursor > 0)
  BY <1>2 DEF Backspace
<1>3. CASE c.cursor > 0
  <2> DEFINE k == c.cursor - 1
             d == Without(c, k)
  <2>1. k \in 0 .. c.len - 1 /\ k \in Nat /\ k <= c.len - 1
    BY <1>1, <1>3
  <2> HIDE DEF k
  <2>2. d \in Clis /\ d.done = c.done /\ d.len = Len(d.buffer) /\ d.len = c.len - 1 /\ d.cursor = c.cursor
    BY <2>1, WithoutEdits
  <2>3. Backspace(c) = [d EXCEPT !.cursor = @ - 1]
    BY <1>3 DEF Backspace, k
  <2> HIDE DEF d
  <2>4. d.cursor - 1 = k
    BY <2>2 DEF k
  <2> QED BY <2>1, <2>2, <2>3, <2>4 DEF Edited, Clis
<1> QED BY <1>2, <1>3

\* An entry or a found line becomes the line.
LEMMA ShowEdits ==
  ASSUME NEW c \in Clis, NEW s \in Lines, NEW n \in Int
  PROVE  Edited(Show(c, s, n)) /\ Show(c, s, n).done = c.done
<1>1. s \in Seq(Chars) /\ Len(s) \in Nat
  BY DEF Lines
<1> DEFINE d == Show(c, s, n)
<1>2. d \in Clis
  BY <1>1 DEF Show, Clis
<1>3. d.buffer = s /\ d.len = Len(s) /\ d.cursor = Len(s) /\ d.done = c.done
  BY <1>1 DEF Show, Clis
<1> HIDE DEF d
<1>4. Edited(d) /\ d.done = c.done
  BY <1>1, <1>2, <1>3 DEF Edited
<1> QED BY <1>4 DEF d

\* Ending a search leaves the line found, or the empty line.
LEMMA StopSearchEdits ==
  ASSUME NEW c \in Clis
  PROVE  /\ Edited(stop_search(c)) /\ stop_search(c).done = c.done
         /\ ~stop_search(c).searching
<1> DEFINE found == get_history_search(c)
           text == IF found = {} THEN <<>> ELSE CHOOSE h \in found : TRUE
<1>1. <<>> \in Lines
  BY CliAssumption DEF Lines
<1>2. \A n : get_history(c, n) \subseteq Lines
  BY EntriesAreLines
<1>3. found \subseteq Lines
  BY <1>2 DEF get_history_search
<1> HIDE DEF found
<1>4. text \in Lines
  BY <1>1, <1>3
<1>5. stop_search(c) =
        [c EXCEPT !.buffer = text, !.len = Len(text), !.cursor = Len(text), !.searching = FALSE]
  BY DEF stop_search, found
<1> HIDE DEF text
<1>6. Len(text) \in Nat
  BY <1>4 DEF Lines
<1> DEFINE d == stop_search(c)
<1>7. d \in Clis
  BY <1>4, <1>5, <1>6 DEF Clis
<1>8. d.buffer = text /\ d.len = Len(text) /\ d.cursor = Len(text) /\ d.done = c.done
      /\ d.searching = FALSE
  BY <1>4, <1>5, <1>6 DEF Clis
<1> HIDE DEF d
<1>9. Edited(d) /\ d.done = c.done /\ ~d.searching
  BY <1>6, <1>7, <1>8 DEF Edited
<1> QED BY <1>9 DEF d

\* So does a key that ends a search that is on; with none it leaves the line.
LEMMA EndSearchEdits ==
  ASSUME NEW c, Edited(c)
  PROVE  Edited(EndSearch(c)) /\ EndSearch(c).done = c.done
BY StopSearchEdits DEF EndSearch, Edited

\* The line is empty again.
LEMMA ResetEdits ==
  ASSUME NEW c \in Clis
  PROVE  /\ reset_line(c) \in Clis /\ reset_line(c).len = 0 /\ reset_line(c).cursor = 0
         /\ reset_line(c).buffer = c.buffer /\ reset_line(c).history = c.history
         /\ reset_line(c).done = c.done /\ ~reset_line(c).searching
<1> DEFINE k == -1
           f == [c EXCEPT !.len = 0, !.cursor = 0, !.counter = 0, !.have_csi = FALSE,
                          !.have_escape = FALSE, !.history_pos = k, !.searching = FALSE]
<1>1. k \in Int
  OBVIOUS
<1>2. reset_line(c) = f
  BY DEF reset_line
<1> HIDE DEF k
<1>3. f \in Clis
  BY <1>1 DEF Clis
<1>4. /\ f.len = 0 /\ f.cursor = 0 /\ f.buffer = c.buffer /\ f.history = c.history
      /\ f.done = c.done /\ ~f.searching
  BY DEF Clis
<1> QED BY <1>2, <1>3, <1>4

\* Recalling entry n, or the empty line where there is none.
LEMMA RecallEdits ==
  ASSUME NEW c, Edited(c), NEW n \in Int, NEW kept \in Int
  PROVE  Edited(Recall(c, n, kept)) /\ Recall(c, n, kept).done = c.done
<1>1. CASE get_history(c, n) # {}
  <2> DEFINE h == CHOOSE h \in get_history(c, n) : TRUE
  <2>1. h \in Lines
    BY <1>1, EntriesAreLines DEF Edited
  <2>2. Recall(c, n, kept) = Show(c, h, n)
    BY <1>1 DEF Recall
  <2> HIDE DEF h
  <2> QED BY <2>1, <2>2, ShowEdits DEF Edited
<1>2. CASE get_history(c, n) = {}
  <2> DEFINE e == [c EXCEPT !.buffer = <<>>]
             f == reset_line(e)
  <2>1. <<>> \in Lines /\ Len(<<>>) = 0
    BY CliAssumption DEF Lines
  <2>2. e \in Clis /\ e.buffer = <<>> /\ e.done = c.done
    BY <2>1 DEF Edited, Clis
  <2> HIDE DEF e
  <2>3. f \in Clis /\ f.len = 0 /\ f.cursor = 0 /\ f.buffer = <<>> /\ f.done = c.done
    BY <2>2, ResetEdits
  <2>4. Recall(c, n, kept) = [f EXCEPT !.history_pos = kept]
    BY <1>2 DEF Recall, e
  <2> HIDE DEF f
  <2> QED BY <2>1, <2>3, <2>4 DEF Edited, Clis
<1> QED BY <1>1, <1>2

\* Moving the cursor within the line.
LEMMA CursorEdits ==
  ASSUME NEW c, Edited(c), NEW k \in Nat, k <= c.len
  PROVE  Edited([c EXCEPT !.cursor = k]) /\ [c EXCEPT !.cursor = k].done = c.done
BY DEF Edited, Clis

\* The last key of an escape sequence, with its count.
LEMMA CsiEdits ==
  ASSUME NEW c, Edited(c), NEW ch, NEW n \in Nat
  PROVE  Edited(Csi(c, ch, n)) /\ Csi(c, ch, n).done = c.done
<1> DEFINE d == Csi(c, ch, n)
<1>1. /\ c \in Clis /\ c.len \in Nat /\ c.cursor \in Nat /\ c.cursor <= c.len /\ c.history_pos \in Int
  BY DEF Edited, Clis
<1>2. CASE ch = "A"
  <2>1. d = Recall(c, c.history_pos + 1, c.history_pos)
    BY <1>2 DEF Csi
  <2> HIDE DEF d
  <2>2. c.history_pos + 1 \in Int
    BY <1>1
  <2> QED BY <1>1, <2>1, <2>2, RecallEdits DEF d
<1>3. CASE ch = "B"
  <2>1. d = Recall(c, c.history_pos - 1, -1)
    BY <1>3 DEF Csi
  <2> HIDE DEF d
  <2>2. c.history_pos - 1 \in Int /\ -1 \in Int
    BY <1>1
  <2> QED BY <1>1, <2>1, <2>2, RecallEdits DEF d
<1>4. CASE ch \in {"C", "D", "F", "H"}
  <2>1. d = c \/ \E k \in Nat : k <= c.len /\ d = [c EXCEPT !.cursor = k]
    <3>1. CASE ch = "C"
      <4>1. d = IF c.cursor <= c.len - n THEN [c EXCEPT !.cursor = c.cursor + n] ELSE c
        BY <3>1 DEF Csi
      <4> HIDE DEF d
      <4> QED BY <1>1, <4>1
    <3>2. CASE ch = "D"
      <4>1. d = IF c.cursor >= n THEN [c EXCEPT !.cursor = c.cursor - n] ELSE c
        BY <3>2 DEF Csi
      <4> HIDE DEF d
      <4> QED BY <1>1, <4>1
    <3>3. CASE ch \in {"F", "H"}
      <4>1. d = [c EXCEPT !.cursor = c.len] \/ d = [c EXCEPT !.cursor = 0]
        BY <3>3 DEF Csi
      <4> HIDE DEF d
      <4> QED BY <1>1, <4>1
    <3> QED BY <1>4, <3>1, <3>2, <3>3
  <2> HIDE DEF d
  <2> QED BY <2>1, CursorEdits DEF d
<1>5. CASE ch \notin {"A", "B", "C", "D", "F", "H"}
  <2>1. d = c \/ (c.cursor < c.len /\ d = Without(c, c.cursor))
    BY <1>5 DEF Csi
  <2> HIDE DEF d
  <2>2. CASE c.cursor < c.len /\ d = Without(c, c.cursor)
    <3>1. c.cursor \in 0 .. c.len - 1 /\ c.cursor <= c.len - 1
      BY <1>1, <2>2
    <3>2. d \in Clis /\ d.done = c.done /\ d.len = Len(d.buffer) /\ d.len = c.len - 1 /\ d.cursor = c.cursor
      BY <2>2, <3>1, WithoutEdits
    <3> QED BY <3>1, <3>2 DEF Edited, d
  <2> QED BY <2>1, <2>2 DEF d
<1> QED BY <1>2, <1>3, <1>4, <1>5

\* A key within an escape sequence.
LEMMA CsiKeyEdits ==
  ASSUME NEW c, Edited(c), NEW ch
  PROVE  Edited(CsiKey(c, ch)) /\ CsiKey(c, ch).done = c.done
<1>1. c.counter \in Nat
  BY DEF Edited, Clis
<1>2. CASE ch \in Digits /\ c.counter < 100
  <2>1. \E k \in Nat : CsiKey(c, ch) = [c EXCEPT !.counter = k]
    BY <1>1, <1>2 DEF CsiKey
  <2> QED BY <2>1 DEF Edited, Clis
<1>3. CASE ~(ch \in Digits /\ c.counter < 100)
  <2> DEFINE n == IF c.counter = 0 THEN 1 ELSE c.counter
             d == Csi(c, ch, n)
  <2>1. n \in Nat
    BY <1>1
  <2>2. CsiKey(c, ch) = [d EXCEPT !.have_csi = FALSE, !.have_escape = FALSE, !.counter = 0]
    BY <1>3 DEF CsiKey
  <2> HIDE DEF n
  <2>3. Edited(d) /\ d.done = c.done
    BY <2>1, CsiEdits
  <2> HIDE DEF d
  <2> DEFINE e == [d EXCEPT !.have_csi = FALSE, !.have_escape = FALSE, !.counter = 0]
  <2>4. e \in Clis
    BY <2>3 DEF Edited, Clis
  <2>5. e.buffer = d.buffer /\ e.len = d.len /\ e.cursor = d.cursor /\ e.done = d.done
    BY <2>3 DEF Edited, Clis
  <2> HIDE DEF e
  <2>6. Edited(e) /\ e.done = c.done
    BY <2>3, <2>4, <2>5 DEF Edited
  <2> QED BY <2>2, <2>6 DEF e
<1> QED BY <1>2, <1>3

\* The characters and keys outside an escape sequence.
LEMMA PlainEdits ==
  ASSUME NEW c, Edited(c), NEW ch,
         ch \in Chars \cup {"^A", "^C", "^E", "^K", "^L", "^R", "bs", "esc", "nl"}
                \cup (IF c.have_escape THEN {"["} ELSE {})
  PROVE  Edited(PlainKey(c, ch)) /\ PlainKey(c, ch).done = c.done
<1> DEFINE d == PlainKey(c, ch)
<1>1. /\ c \in Clis /\ c.len \in Nat /\ c.cursor \in Nat /\ c.cursor <= c.len
      /\ c.buffer \in Lines /\ c.len = Len(c.buffer)
  BY DEF Edited, Clis
<1>2. CASE ch = "^A"
  <2>1. PlainKey(c, "^A") = [c EXCEPT !.cursor = 0]
    BY Zenon DEF PlainKey
  <2>2. d = [c EXCEPT !.cursor = 0]
    BY <1>2, <2>1, Zenon
  <2>3. 0 \in Nat /\ 0 <= c.len
    BY <1>1
  <2>4. Edited([c EXCEPT !.cursor = 0]) /\ [c EXCEPT !.cursor = 0].done = c.done
    BY <2>3, CursorEdits, Zenon
  <2> QED BY <2>2, <2>4, Zenon
<1>3. CASE ch = "^E"
  <2>1. d = [c EXCEPT !.cursor = c.len]
    BY <1>3 DEF PlainKey
  <2> HIDE DEF d
  <2> QED BY <1>1, <2>1, CursorEdits DEF d
<1>4. CASE ch = "^C"
  <2> DEFINE e == reset_line(c)
  <2>1. d = [e EXCEPT !.buffer = <<>>]
    BY <1>4 DEF PlainKey
  <2>2. e \in Clis /\ e.len = 0 /\ e.cursor = 0 /\ e.done = c.done
    BY <1>1, ResetEdits
  <2> HIDE DEF d, e
  <2>3. <<>> \in Lines /\ Len(<<>>) = 0
    BY CliAssumption DEF Lines
  <2>4. d \in Clis /\ d.buffer = <<>> /\ d.len = 0 /\ d.cursor = 0 /\ d.done = c.done
    BY <2>1, <2>2, <2>3 DEF Clis
  <2> QED BY <2>3, <2>4 DEF Edited, d
<1>5. CASE ch = "^K"
  <2> DEFINE s == SubSeq(c.buffer, 1, c.cursor)
  <2>1. d = [c EXCEPT !.buffer = s, !.len = c.cursor]
    BY <1>5 DEF PlainKey
  <2>2. s \in Seq(Chars) /\ Len(s) = c.cursor
    <3> DEFINE t == c.buffer
               k == c.cursor
    <3>1. t \in Seq(Chars) /\ k \in 0 .. Len(t)
      BY <1>1 DEF Lines
    <3> HIDE DEF t, k
    <3>2. SubSeq(t, 1, k) \in Seq(Chars) /\ Len(SubSeq(t, 1, k)) = k
      BY <3>1, LineParts, Zenon
    <3> QED BY <3>2, Zenon DEF t, k
  <2> HIDE DEF d, s
  <2>3. s \in Lines
    BY <1>1, <2>2, CliAssumption DEF Lines
  <2>4. d \in Clis /\ d.buffer = s /\ d.len = c.cursor /\ d.cursor = c.cursor /\ d.done = c.done
    BY <1>1, <2>1, <2>3 DEF Clis
  <2> QED BY <1>1, <2>2, <2>4 DEF Edited, d
<1>6. CASE ch = "^R"
  <2>1. d = [c EXCEPT !.searching = TRUE]
    BY <1>6 DEF PlainKey
  <2> HIDE DEF d
  <2>2. /\ d \in Clis /\ d.buffer = c.buffer /\ d.len = c.len /\ d.cursor = c.cursor
        /\ d.done = c.done
    BY <1>1, <2>1 DEF Clis
  <2> QED BY <1>1, <2>2 DEF Edited, d
<1>7. CASE ch = "bs"
  <2> DEFINE e == EndSearch(c)
  <2>1. d = Backspace(e)
    BY <1>7 DEF PlainKey
  <2>2. Edited(e) /\ e.done = c.done
    BY EndSearchEdits
  <2> HIDE DEF d, e
  <2> QED BY <2>1, <2>2, BackspaceEdits DEF d
<1>8. CASE ch = "esc"
  <2> DEFINE e == EndSearch(c)
  <2>1. d = [e EXCEPT !.have_csi = FALSE, !.have_escape = TRUE, !.counter = 0]
    BY <1>8 DEF PlainKey
  <2>2. Edited(e) /\ e.done = c.done
    BY EndSearchEdits
  <2> HIDE DEF d, e
  <2>3. d \in Clis
    BY <2>1, <2>2 DEF Edited, Clis
  <2>4. d.buffer = e.buffer /\ d.len = e.len /\ d.cursor = e.cursor /\ d.done = e.done
    BY <2>1, <2>2 DEF Edited, Clis
  <2> QED BY <2>2, <2>3, <2>4 DEF Edited, d
<1>9. CASE ch = "[" /\ c.have_escape
  <2>1. d = [c EXCEPT !.have_csi = TRUE]
    BY <1>9 DEF PlainKey
  <2> HIDE DEF d
  <2>2. /\ d \in Clis /\ d.buffer = c.buffer /\ d.len = c.len /\ d.cursor = c.cursor
        /\ d.done = c.done
    BY <1>1, <2>1 DEF Clis
  <2> QED BY <1>1, <2>2 DEF Edited, d
<1>10. CASE ch \in {"nl", "^L"}
  BY <1>10 DEF PlainKey
<1>11. CASE /\ ch \notin {"^A", "^C", "^E", "^K", "^L", "^R", "bs", "esc", "nl"}
            /\ ~(ch = "[" /\ c.have_escape)
  <2>1. ch \in Chars
    BY <1>11
  <2>2. d = insert_default_char(c, ch)
    BY <1>11 DEF PlainKey
  <2> HIDE DEF d
  <2> QED BY <2>1, <2>2, InsertEdits DEF d
<1> QED BY <1>2, <1>3, <1>4, <1>5, <1>6, <1>7, <1>8, <1>9, <1>10, <1>11

\* A line put before a history, with its terminator, is its newest entry; the history stays one.
LEMMA PutInFront ==
  ASSUME NEW b \in Lines, NEW h \in Histories
  PROVE  /\ CutOff(b \o <<NUL>> \o h) \in Histories
         /\ StrAt(CutOff(b \o <<NUL>> \o h), 1) = b
<1> DEFINE n == Len(b)
           moved == b \o <<NUL>> \o h
           g == CutOff(moved)
           Cells == Chars \cup {NUL}
<1>1. /\ HistoryLen \in Nat /\ MaxLine \in Nat /\ HistoryLen > MaxLine /\ NUL \notin Chars
      /\ n \in Nat /\ n < MaxLine /\ b \in Seq(Chars)
  BY CliAssumption DEF Lines
<1>2. \A j \in 1 .. n : b[j] \in Chars
  BY <1>1
<1>3. /\ h \in [1 .. HistoryLen -> Cells] /\ h \in Seq(Cells) /\ Len(h) = HistoryLen
      /\ \A p \in 1 .. HistoryLen : \E k \in p .. HistoryLen : h[k] = NUL /\ k < p + MaxLine
  BY <1>1 DEF Histories
<1> HIDE DEF n
<1>4. \A k \in 1 .. n + 1 + HistoryLen :
        moved[k] = IF k <= n THEN b[k] ELSE IF k = n + 1 THEN NUL ELSE h[k - (n + 1)]
  <2> DEFINE e == b \o <<NUL>>
  <2>1. e \in Seq(Cells) /\ Len(e) = n + 1 /\ e[n + 1] = NUL /\ \A k \in 1 .. n : e[k] = b[k]
    BY <1>1 DEF n
  <2> HIDE DEF e, Cells
  <2>2. \A k \in 1 .. n + 1 + HistoryLen :
          (e \o h)[k] = IF k <= n + 1 THEN e[k] ELSE h[k - (n + 1)]
    <3>1. \A k \in 1 .. Len(e) + Len(h) :
            (e \o h)[k] = IF k <= Len(e) THEN e[k] ELSE h[k - Len(e)]
      BY <1>3, <2>1, ConcatProperties, Zenon
    <3> QED BY <1>3, <2>1, <3>1, Zenon
  <2>3. moved = e \o h
    BY DEF e
  <2> HIDE DEF moved
  <2> SUFFICES ASSUME NEW k \in 1 .. n + 1 + HistoryLen
               PROVE  moved[k] = IF k <= n THEN b[k] ELSE IF k = n + 1 THEN NUL ELSE h[k - (n + 1)]
    OBVIOUS
  <2>4. moved[k] = IF k <= n + 1 THEN e[k] ELSE h[k - (n + 1)]
    BY <2>2, <2>3
  <2>5. CASE k <= n
    <3>1. k \in 1 .. n /\ k <= n + 1
      BY <1>1, <2>5
    <3> QED BY <2>1, <2>4, <2>5, <3>1
  <2>6. CASE k = n + 1
    BY <1>1, <2>1, <2>4, <2>6
  <2>7. CASE k > n + 1
    BY <1>1, <2>4, <2>7
  <2> QED BY <1>1, <2>5, <2>6, <2>7
<1>5. g = [k \in 1 .. HistoryLen |-> IF k = HistoryLen THEN NUL ELSE moved[k]]
  BY DEF CutOff
<1> HIDE DEF moved, g
<1>6. \A k \in 1 .. HistoryLen :
        g[k] = IF k = HistoryLen \/ k = n + 1 THEN NUL
               ELSE IF k <= n THEN b[k] ELSE h[k - (n + 1)]
  BY <1>1, <1>4, <1>5
<1>7. g \in [1 .. HistoryLen -> Cells]
  <2> SUFFICES ASSUME NEW k \in 1 .. HistoryLen PROVE g[k] \in Cells
    BY <1>5
  <2>1. CASE k > n + 1
    <3>1. k - (n + 1) \in 1 .. HistoryLen
      BY <1>1, <2>1
    <3>2. h[k - (n + 1)] \in Cells
      BY <1>3, <3>1
    <3> QED BY <1>1, <1>6, <2>1, <3>2
  <2>2. CASE k <= n
    BY <1>1, <1>2, <1>6, <2>2
  <2>3. CASE k = n + 1
    BY <1>6, <2>3
  <2> QED BY <1>1, <2>1, <2>2, <2>3
<1>8. ASSUME NEW p \in 1 .. HistoryLen
      PROVE  \E k \in p .. HistoryLen : g[k] = NUL /\ k < p + MaxLine
  <2>1. CASE p <= n + 1
    <3>1. n + 1 \in p .. HistoryLen /\ n + 1 < p + MaxLine /\ n + 1 \in 1 .. HistoryLen
      BY <1>1, <2>1
    <3> QED BY <1>6, <3>1
  <2>2. CASE p > n + 1
    <3>1. p - (n + 1) \in 1 .. HistoryLen
      BY <1>1, <2>2
    <3>2. PICK k \in p - (n + 1) .. HistoryLen : h[k] = NUL /\ k < p - (n + 1) + MaxLine
      BY <1>3, <3>1
    <3>3. CASE k + n + 1 < HistoryLen
      <4>1. k + n + 1 \in p .. HistoryLen /\ k + n + 1 < p + MaxLine /\ k + n + 1 \in 1 .. HistoryLen
            /\ k + n + 1 > n + 1 /\ k + n + 1 - (n + 1) = k
        BY <1>1, <2>2, <3>1, <3>2, <3>3
      <4>2. g[k + n + 1] = NUL
        BY <1>1, <1>6, <3>2, <3>3, <4>1
      <4> QED BY <4>1, <4>2
    <3>4. CASE k + n + 1 >= HistoryLen
      <4>1. HistoryLen \in p .. HistoryLen /\ HistoryLen < p + MaxLine /\ HistoryLen \in 1 .. HistoryLen
        BY <1>1, <2>2, <3>1, <3>2, <3>4
      <4> QED BY <1>6, <4>1
    <3> QED BY <1>1, <3>1, <3>3, <3>4
  <2> QED BY <1>1, <2>1, <2>2
<1>9. g \in Histories
  BY <1>7, <1>8 DEF Histories
<1>10. StrAt(g, 1) = b
  <2>1. 1 \in 1 .. HistoryLen
    BY <1>1
  <2>2. PICK e \in 1 .. HistoryLen : /\ g[e] = NUL /\ \A j \in 1 .. e - 1 : g[j] # NUL
                                     /\ StrAt(g, 1) = SubSeq(g, 1, e - 1)
    BY <1>9, <2>1, StringAt
  <2>3. n + 1 \in 1 .. HistoryLen /\ n + 1 < HistoryLen /\ g[n + 1] = NUL
    BY <1>1, <1>6
  <2>4. \A j \in 1 .. n : g[j] = b[j] /\ g[j] # NUL
    BY <1>1, <1>2, <1>6
  <2>5. e = n + 1
    BY <1>1, <2>2, <2>3, <2>4
  <2>6. SubSeq(g, 1, n) = [j \in 1 .. n |-> g[j]]
    BY <1>1
  <2>7. b = [j \in 1 .. n |-> b[j]]
    BY <1>1 DEF n
  <2>8. [j \in 1 .. n |-> g[j]] = [j \in 1 .. n |-> b[j]]
    BY <2>4
  <2>9. e - 1 = n
    BY <1>1, <2>5
  <2> QED BY <2>2, <2>6, <2>7, <2>8, <2>9, Zenon
<1> QED BY <1>9, <1>10 DEF g, moved

\* A line that was entered is the newest entry.
LEMMA ExtendKeeps ==
  ASSUME NEW c \in Clis
  PROVE  LET d == extend_history(c)
         IN /\ d \in Clis /\ d.buffer = c.buffer /\ d.done = c.done
            /\ d.buffer # <<>> => StrAt(d.history, 1) = d.buffer
<1> DEFINE d == extend_history(c)
           h == CutOff(c.buffer \o <<NUL>> \o c.history)
<1>1. c.buffer \in Lines /\ c.history \in Histories
  BY DEF Clis
<1>2. CASE c.buffer = <<>> \/ c.buffer = StrAt(c.history, 1)
  BY <1>2 DEF extend_history
<1>3. CASE ~(c.buffer = <<>> \/ c.buffer = StrAt(c.history, 1))
  <2>1. \E b \in BOOLEAN : d = [c EXCEPT !.history = h, !.searching = b]
    BY <1>3 DEF extend_history
  <2>2. h \in Histories /\ StrAt(h, 1) = c.buffer
    BY <1>1, PutInFront
  <2> HIDE DEF d, h
  <2>3. d \in Clis /\ d.buffer = c.buffer /\ d.done = c.done /\ d.history = h
    BY <2>1, <2>2 DEF Clis
  <2> QED BY <2>2, <2>3 DEF d
<1> QED BY <1>2, <1>3

\* A key.
LEMMA KeyStep ==
  ASSUME CliInv, NEW ch \in Keys(cli) \cup {"^C"}, Key(ch)
  PROVE  CliInv'
<1> DEFINE fresh == IF cli.done THEN [cli EXCEPT !.buffer = <<>>, !.done = FALSE] ELSE cli
           typed == IF fresh.have_csi THEN CsiKey(fresh, ch) ELSE PlainKey(fresh, ch)
           ended == EndSearch([typed EXCEPT !.done = TRUE])
           kept == extend_history(ended)
<1>1. Edited(fresh) /\ ~fresh.done /\ fresh.have_csi = cli.have_csi /\ fresh.have_escape = cli.have_escape
  <2>1. CASE cli.done
    <3>1. cli \in Clis /\ cli.len = 0 /\ cli.cursor = 0
      BY <2>1 DEF CliInv
    <3>2. <<>> \in Lines /\ Len(<<>>) = 0
      BY CliAssumption DEF Lines
    <3>3. fresh = [cli EXCEPT !.buffer = <<>>, !.done = FALSE]
      BY <2>1
    <3> HIDE DEF fresh
    <3>4. /\ fresh \in Clis /\ fresh.buffer = <<>> /\ fresh.len = 0 /\ fresh.cursor = 0 /\ ~fresh.done
          /\ fresh.have_csi = cli.have_csi /\ fresh.have_escape = cli.have_escape
      BY <3>1, <3>2, <3>3 DEF Clis
    <3> QED BY <3>2, <3>4 DEF Edited
  <2>2. CASE ~cli.done
    BY <2>2 DEF CliInv
  <2> QED BY <2>1, <2>2
<1>2. Edited(typed) /\ typed.done = fresh.done
  <2> HIDE DEF fresh
  <2>1. CASE fresh.have_csi
    BY <1>1, <2>1, CsiKeyEdits
  <2>2. CASE ~fresh.have_csi
    <3>1. ch \in Chars \cup {"^A", "^C", "^E", "^K", "^L", "^R", "bs", "esc", "nl"}
                 \cup (IF fresh.have_escape THEN {"["} ELSE {})
      BY <1>1, <2>2 DEF Keys
    <3> QED BY <1>1, <2>2, <3>1, PlainEdits
  <2> QED BY <2>1, <2>2
<1>3. cli' = IF ch = "nl" THEN reset_line(kept) ELSE typed
  BY DEF Key, embedded_cli_insert_char
<1> HIDE DEF fresh, typed
<1>4. CASE ch # "nl"
  <2>1. cli' = typed /\ ~cli'.done
    BY <1>1, <1>2, <1>3, <1>4
  <2> QED BY <1>2, <2>1 DEF CliInv, Edited, HistoryKept
<1>5. CASE ch = "nl"
  <2> DEFINE entered == [typed EXCEPT !.done = TRUE]
  <2>1. entered \in Clis /\ entered.done
    BY <1>2 DEF Edited, Clis
  <2>2. ended = IF entered.searching THEN stop_search(entered) ELSE entered
    BY DEF EndSearch
  <2> HIDE DEF entered, ended
  <2>3. ended \in Clis /\ ended.done
    BY <2>1, <2>2, StopSearchEdits DEF Edited
  <2>4. kept \in Clis /\ kept.done /\ (kept.buffer # <<>> => StrAt(kept.history, 1) = kept.buffer)
    BY <2>3, ExtendKeeps
  <2> HIDE DEF kept
  <2>5. /\ cli' \in Clis /\ cli'.len = 0 /\ cli'.cursor = 0 /\ cli'.buffer = kept.buffer
        /\ cli'.history = kept.history /\ cli'.done /\ ~cli'.searching
    BY <1>3, <1>5, <2>4, ResetEdits
  <2>6. get_history(cli', 0) = {StrAt(cli'.history, 1)}
    BY <2>5, NewestEntry
  <2>7. HistoryKept'
    BY <2>4, <2>5, <2>6 DEF HistoryKept
  <2> QED BY <2>5, <2>7 DEF CliInv
<1> QED BY <1>4, <1>5

\* The editor at the start.
LEMMA CliStart ==
  ASSUME CliInit
  PROVE  CliInv
<1> DEFINE h == [k \in 1 .. HistoryLen |-> NUL]
           one == -1
<1>1. h \in Histories
  BY CliAssumption DEF Histories
<1>2. <<>> \in Lines /\ Len(<<>>) = 0 /\ one \in Int
  BY CliAssumption DEF Lines
<1>3. cli = [buffer |-> <<>>, history |-> h, searching |-> FALSE, history_pos |-> one, len |-> 0,
             cursor |-> 0, done |-> FALSE, have_escape |-> FALSE, have_csi |-> FALSE, counter |-> 0]
  BY DEF CliInit, embedded_cli_init
<1> HIDE DEF h, one
<1>4. cli \in Clis
  BY <1>1, <1>2, <1>3 DEF Clis
<1>5. cli.buffer = <<>> /\ cli.len = 0 /\ cli.cursor = 0 /\ ~cli.done
  BY <1>3
<1> QED BY <1>2, <1>4, <1>5 DEF CliInv, Edited, HistoryKept

\* The line editor, for every line and history length, every alphabet and every sequence of keys:
\* length and cursor are those of the string in the buffer, which leaves room for its terminator,
\* and a line entered is the newest entry of the history.
THEOREM EditorKeepsLine == CliSpec => [](LineConsistent /\ HistoryKept)
<1>1. CliInit => CliInv
  BY CliStart
<1>2. CliInv /\ [CliNext]_cliVars => CliInv'
  <2> SUFFICES ASSUME CliInv, [CliNext]_cliVars PROVE CliInv'
    OBVIOUS
  <2>1. CASE CliNext
    BY <2>1, KeyStep DEF CliNext, intHandler
  <2>2. CASE UNCHANGED cliVars
    <3>1. cli' = cli
      BY <2>2 DEF cliVars
    <3> QED BY <3>1 DEF CliInv, Edited, HistoryKept
  <2> QED BY <2>1, <2>2
<1>3. CliInv => LineConsistent /\ HistoryKept
  <2> SUFFICES ASSUME CliInv, ~cli.done
               PROVE  cli.len = Len(cli.buffer) /\ cli.len < MaxLine /\ cli.cursor \in 0 .. cli.len
    BY DEF CliInv, LineConsistent
  <2>1. Edited(cli)
    BY DEF CliInv
  <2> QED BY <2>1 DEF Edited, Clis, Lines
<1> QED BY <1>1, <1>2, <1>3, PTL DEF CliSpec

(***************************************************************************)
(* The arguments of a line are its words.                                  *)
(***************************************************************************)
\* How many words of a line start at a place or before it: one more at each start.
LEMMA RankStep ==
  ASSUME NEW t \in Seq(Chars)
  PROVE  /\ \A k \in Nat : Rank(k, t) \in Nat
         /\ Rank(0, t) = 0 /\ Rank(Len(t), t) = Cardinality(WordStarts(t))
         /\ \A k \in Nat : Rank(k + 1, t) = IF k + 1 \in WordStarts(t) THEN Rank(k, t) + 1 ELSE Rank(k, t)
         /\ \A k \in Nat : \A j \in 0 .. k : Rank(j, t) <= Rank(k, t)
         /\ \A k \in WordStarts(t) : Rank(k, t) >= 1
<1> DEFINE W == WordStarts(t)
           U(k) == {j \in W : j <= k}
<1>1. Len(t) \in Nat
  OBVIOUS
<1>2. W \subseteq 1 .. Len(t)
  BY DEF WordStarts
<1>3. IsFiniteSet(W)
  <2>1. IsFiniteSet(1 .. Len(t))
    BY <1>1, FS_Interval
  <2> QED BY <1>2, <2>1, FS_Subset
<1>4. \A k : Rank(k, t) = Cardinality(U(k))
  BY Zenon DEF Rank
<1> HIDE DEF W
<1> DEFINE n == Len(t)
<1> HIDE DEF n
<1>w. n \in Nat /\ \A j \in W : j \in Nat /\ 1 <= j /\ j <= n
  BY <1>1, <1>2 DEF n
<1>5. ASSUME NEW k \in Nat PROVE IsFiniteSet(U(k)) /\ Cardinality(U(k)) \in Nat
  <2>1. U(k) \in SUBSET W
    OBVIOUS
  <2> QED BY <1>3, <2>1, FS_Subset, FS_CardinalityType
<1>6. Rank(0, t) = 0
  <2>1. U(0) = {}
    BY <1>w
  <2> QED BY <1>4, <2>1, FS_EmptySet
<1>7. Rank(Len(t), t) = Cardinality(W)
  <2>1. U(n) = W
    BY <1>w
  <2> QED BY <1>4, <2>1 DEF n
<1>8. ASSUME NEW k \in Nat
      PROVE  Rank(k + 1, t) = IF k + 1 \in W THEN Rank(k, t) + 1 ELSE Rank(k, t)
  <2>1. CASE k + 1 \in W
    <3>1. U(k + 1) = U(k) \cup {k + 1} /\ ~(k + 1 \in U(k))
      BY <1>w, <2>1
    <3> HIDE DEF U
    <3>2. Cardinality(U(k) \cup {k + 1}) = Cardinality(U(k)) + 1
      BY <1>5, <3>1, FS_AddElement
    <3> QED BY <1>4, <2>1, <3>1, <3>2
  <2>2. CASE k + 1 \notin W
    <3>1. U(k + 1) = U(k)
      BY <1>w, <2>2
    <3> QED BY <1>4, <2>2, <3>1
  <2> QED BY <2>1, <2>2
<1>9. ASSUME NEW k \in Nat, NEW j \in 0 .. k PROVE Rank(j, t) <= Rank(k, t)
  <2>1. U(j) \in SUBSET U(k)
    BY <1>w
  <2> HIDE DEF U
  <2>2. Cardinality(U(j)) <= Cardinality(U(k))
    BY <1>5, <2>1, FS_Subset
  <2> QED BY <1>4, <2>2
<1>10. \A k \in Nat : Rank(k, t) \in Nat
  BY <1>4, <1>5
<1>11. ASSUME NEW k \in W PROVE Rank(k, t) >= 1
  <2>1. k - 1 \in Nat /\ (k - 1) + 1 = k
    BY <1>w
  <2>2. Rank(k, t) = Rank(k - 1, t) + 1 /\ Rank(k - 1, t) \in Nat
    BY <1>8, <1>10, <2>1
  <2> QED BY <2>2
<1> QED BY <1>6, <1>7, <1>8, <1>9, <1>10, <1>11 DEF W

\* The parser's states over a line.
ParseStart == [args |-> <<>>, in_arg |-> FALSE, in_escape |-> FALSE, in_string |-> FALSE, stop |-> FALSE]
IsRun(p, t, n) == p = [k \in 0 .. n |-> IF k = 0 THEN ParseStart ELSE Parse(p[k - 1], t[k])]

\* They exist over every length.
LEMMA RunExists ==
  ASSUME NEW t, NEW n \in Nat
  PROVE  \E p : IsRun(p, t, n)
<1> DEFINE T == {m \in Nat : ~(\E p : IsRun(p, t, m))}
<1> SUFFICES ASSUME T # {} PROVE FALSE
  OBVIOUS
<1>1. PICK m \in T : \A q \in T : m <= q
  BY LeastNatural
<1>2. m # 0
  <2> DEFINE f == [k \in 0 .. 0 |-> ParseStart]
  <2>1. f = [k \in 0 .. 0 |-> IF k = 0 THEN ParseStart ELSE Parse(f[k - 1], t[k])]
    OBVIOUS
  <2> QED BY <2>1, Zenon DEF IsRun
<1>3. m - 1 \in Nat /\ m - 1 \notin T
  BY <1>1, <1>2
<1>4. PICK f : IsRun(f, t, m - 1)
  BY <1>3
<1> DEFINE g == [k \in 0 .. m |-> IF k <= m - 1 THEN f[k] ELSE Parse(f[m - 1], t[m])]
<1>5. ASSUME NEW k \in 0 .. m
      PROVE  g[k] = IF k = 0 THEN ParseStart ELSE Parse(g[k - 1], t[k])
  <2>1. CASE k <= m - 1
    <3>1. k \in 0 .. m - 1 /\ (k # 0 => k - 1 \in 0 .. m /\ k - 1 <= m - 1)
      BY <1>3, <2>1
    <3>2. f[k] = IF k = 0 THEN ParseStart ELSE Parse(f[k - 1], t[k])
      BY <1>4, <3>1, Zenon DEF IsRun
    <3> QED BY <2>1, <3>1, <3>2, Zenon
  <2>2. CASE ~(k <= m - 1)
    <3>1. k = m /\ k # 0 /\ m - 1 \in 0 .. m /\ m - 1 <= m - 1
      BY <1>2, <1>3, <2>2
    <3> QED BY <2>2, <3>1, Zenon
  <2> QED BY <2>1, <2>2
<1>6. IsRun(g, t, m)
  <2>1. g = [k \in 0 .. m |-> g[k]]
    BY Zenon
  <2> HIDE DEF g
  <2>2. [k \in 0 .. m |-> g[k]] = [k \in 0 .. m |-> IF k = 0 THEN ParseStart ELSE Parse(g[k - 1], t[k])]
    BY <1>5, Zenon
  <2> QED BY <2>1, <2>2, Zenon DEF IsRun
<1> QED BY <1>6

\* The arguments are those of the parser's last state.
LEMMA ArgcIsRun ==
  ASSUME NEW text, Len(text) \in Nat
  PROVE  \E p : /\ IsRun(p, text, Len(text))
                /\ embedded_cli_argc(text) =
                     IF Len(p[Len(text)].args) >= MaxArgc
                       THEN SubSeq(p[Len(text)].args, 1, MaxArgc - 1)
                       ELSE p[Len(text)].args
<1> DEFINE n == Len(text)
           q == CHOOSE p : p = [k \in 0 .. n |-> IF k = 0 THEN ParseStart ELSE Parse(p[k - 1], text[k])]
<1>1. n \in Nat
  OBVIOUS
<1> HIDE DEF n
<1>2. \E p : p = [k \in 0 .. n |-> IF k = 0 THEN ParseStart ELSE Parse(p[k - 1], text[k])]
  BY <1>1, RunExists, Zenon DEF IsRun
<1>3. q = [k \in 0 .. n |-> IF k = 0 THEN ParseStart ELSE Parse(q[k - 1], text[k])]
  BY <1>2, Zenon
<1>4. embedded_cli_argc(text) =
        IF Len(q[n].args) >= MaxArgc THEN SubSeq(q[n].args, 1, MaxArgc - 1) ELSE q[n].args
  BY Zenon DEF embedded_cli_argc, n, ParseStart
<1> HIDE DEF q
<1> QED BY <1>3, <1>4, Zenon DEF n, IsRun

Plain(t) == \A k \in 1 .. Len(t) : t[k] \notin {"'", "\\"}

\* A character that is no quote and no backslash, outside a string and an escape.
LEMMA ParsePlain ==
  ASSUME NEW s, ~s.in_escape, ~s.in_string, NEW ch, ch \notin {"'", "\\"}
  PROVE  Parse(s, ch) =
           IF s.stop THEN s
           ELSE IF ch = Blank THEN [s EXCEPT !.in_arg = FALSE]
           ELSE IF ~s.in_arg /\ Len(s.args) >= MaxArgc THEN [s EXCEPT !.stop = TRUE]
           ELSE [OpenArg(s) EXCEPT !.args = Grow(@, ch)]
  BY Zenon DEF Parse

\* A part of a line with one character more.
LEMMA PartGrows ==
  ASSUME NEW t \in Seq(Chars), NEW k \in Nat, k + 1 <= Len(t), NEW j \in 1 .. k + 1
  PROVE  /\ Append(SubSeq(t, j, k), t[k + 1]) = SubSeq(t, j, k + 1)
         /\ Len(SubSeq(t, j, k)) = k + 1 - j
         /\ SubSeq(t, j, k) \in Seq(Chars)
<1>1. Len(t) \in Nat /\ j \in Int /\ k \in Int /\ k + 1 \in Int
  OBVIOUS
<1>2. \A i \in 1 .. Len(t) : t[i] \in Chars
  OBVIOUS
<1>3. (\A i \in j .. k : t[i] \in Chars) /\ (\A i \in j .. k + 1 : t[i] \in Chars)
  BY <1>1, <1>2
<1>4. /\ SubSeq(t, j, k) \in Seq(Chars)
      /\ Len(SubSeq(t, j, k)) = IF j <= k THEN k - j + 1 ELSE 0
      /\ \A i \in 1 .. k - j + 1 : SubSeq(t, j, k)[i] = t[j + i - 1]
  BY <1>1, <1>3, SubSeqProperties
<1>5. /\ SubSeq(t, j, k + 1) \in Seq(Chars)
      /\ Len(SubSeq(t, j, k + 1)) = IF j <= k + 1 THEN k + 1 - j + 1 ELSE 0
      /\ \A i \in 1 .. k + 1 - j + 1 : SubSeq(t, j, k + 1)[i] = t[j + i - 1]
  BY <1>1, <1>3, SubSeqProperties
<1>6. Len(SubSeq(t, j, k)) = k + 1 - j
  BY <1>1, <1>4
<1> DEFINE a == SubSeq(t, j, k)
           b == SubSeq(t, j, k + 1)
           c == t[k + 1]
<1>7. c \in Chars
  BY <1>1, <1>2
<1>8. c = t[k + 1] /\ a \in Seq(Chars) /\ b \in Seq(Chars) /\ Len(a) = k + 1 - j /\ Len(b) = k + 2 - j
      /\ (\A i \in 1 .. k - j + 1 : a[i] = t[j + i - 1]) /\ (\A i \in 1 .. k + 1 - j + 1 : b[i] = t[j + i - 1])
  BY <1>1, <1>4, <1>5, <1>6
<1> HIDE DEF a, b, c
<1>9. Append(a, c) = b
  <2>1. Append(a, c) \in Seq(Chars) /\ Len(Append(a, c)) = Len(a) + 1
        /\ \A i \in 1 .. Len(a) + 1 : Append(a, c)[i] = IF i <= Len(a) THEN a[i] ELSE c
    BY <1>7, <1>8
  <2>2. Len(Append(a, c)) = Len(b)
    BY <1>8, <2>1
  <2>3. ASSUME NEW i \in 1 .. Len(b) PROVE Append(a, c)[i] = b[i]
    <3>1. i \in 1 .. Len(a) + 1 /\ i \in 1 .. k + 1 - j + 1
      BY <1>8
    <3>2. CASE i <= Len(a)
      <4>1. i \in 1 .. k - j + 1
        BY <1>8, <3>1, <3>2
      <4> QED BY <1>8, <2>1, <3>1, <3>2, <4>1, Zenon
    <3>3. CASE ~(i <= Len(a))
      <4>1. j + i - 1 = k + 1
        BY <1>8, <3>1, <3>3
      <4> QED BY <1>8, <2>1, <3>1, <3>3, <4>1, Zenon
    <3> QED BY <3>2, <3>3
  <2> QED BY <1>8, <2>1, <2>2, <2>3, SeqEqual, Zenon
<1> QED BY <1>4, <1>6, <1>9, Zenon DEF a, b, c

\* The argument w of the word that starts at j, after k characters: all of them so far, or the
\* word and a blank after it.
Word(w, open, j, k, t) ==
  /\ Len(w) \in Nat /\ w = SubSeq(t, j, j + Len(w) - 1)
  /\ IF open THEN j + Len(w) = k + 1 ELSE j + Len(w) <= k /\ t[j + Len(w)] = Blank

\* A word with the next character of the line.
LEMMA WordGoesOn ==
  ASSUME NEW t \in Seq(Chars), NEW k \in Nat, k + 1 <= Len(t), NEW j \in 1 .. k + 1, NEW w
  PROVE  /\ Word(w, FALSE, j, k, t) => Word(w, FALSE, j, k + 1, t)
         /\ Word(w, TRUE, j, k, t) /\ t[k + 1] = Blank => Word(w, FALSE, j, k + 1, t)
         /\ Word(w, TRUE, j, k, t) => Word(Append(w, t[k + 1]), TRUE, j, k + 1, t)
         /\ Word(<<t[k + 1]>>, TRUE, k + 1, k + 1, t)
<1>1. Word(w, FALSE, j, k, t) => Word(w, FALSE, j, k + 1, t)
  BY DEF Word
<1>2. Word(w, TRUE, j, k, t) /\ t[k + 1] = Blank => Word(w, FALSE, j, k + 1, t)
  <2> SUFFICES ASSUME Word(w, TRUE, j, k, t), t[k + 1] = Blank PROVE Word(w, FALSE, j, k + 1, t)
    OBVIOUS
  <2>1. Len(w) \in Nat /\ w = SubSeq(t, j, j + Len(w) - 1) /\ j + Len(w) = k + 1
    BY Zenon DEF Word
  <2>2. j + Len(w) <= k + 1 /\ t[j + Len(w)] = Blank
    BY <2>1
  <2> QED BY <2>1, <2>2, Zenon DEF Word
<1>3. Word(w, TRUE, j, k, t) => Word(Append(w, t[k + 1]), TRUE, j, k + 1, t)
  <2> SUFFICES ASSUME Word(w, TRUE, j, k, t)
               PROVE  Word(Append(w, t[k + 1]), TRUE, j, k + 1, t)
    OBVIOUS
  <2>1. Len(w) \in Nat /\ w = SubSeq(t, j, j + Len(w) - 1) /\ j + Len(w) = k + 1
    BY Zenon DEF Word
  <2>2. j + Len(w) - 1 = k
    BY <2>1
  <2>3. w = SubSeq(t, j, k)
    BY <2>1, <2>2, Zenon
  <2> DEFINE v == Append(w, t[k + 1])
  <2>4. v = SubSeq(t, j, k + 1) /\ w \in Seq(Chars)
    BY <2>3, PartGrows, Zenon
  <2>5. t[k + 1] \in Chars
    OBVIOUS
  <2>6. Len(v) = Len(w) + 1
    BY <2>4, <2>5
  <2> HIDE DEF v
  <2>7. Len(v) \in Nat /\ j + Len(v) = k + 1 + 1 /\ j + Len(v) - 1 = k + 1
    BY <2>1, <2>6
  <2>8. v = SubSeq(t, j, j + Len(v) - 1)
    BY <2>4, <2>7, Zenon
  <2>9. Word(v, TRUE, j, k + 1, t)
    BY <2>7, <2>8, Zenon DEF Word
  <2> QED BY <2>9 DEF v
<1>4. Word(<<t[k + 1]>>, TRUE, k + 1, k + 1, t)
  <2> DEFINE v == <<t[k + 1]>>
             e == SubSeq(t, k + 1, k)
  <2>1. k + 1 \in 1 .. k + 1
    OBVIOUS
  <2>2. Append(e, t[k + 1]) = SubSeq(t, k + 1, k + 1)
    BY <2>1, PartGrows, Zenon
  <2>3. e = <<>>
    OBVIOUS
  <2> HIDE DEF e
  <2>4. Append(e, t[k + 1]) = v /\ Len(v) = 1
    BY <2>3
  <2> HIDE DEF v
  <2>5. Len(v) \in Nat /\ k + 1 + Len(v) = k + 1 + 1 /\ k + 1 + Len(v) - 1 = k + 1
    BY <2>4
  <2>6. v = SubSeq(t, k + 1, k + 1 + Len(v) - 1)
    BY <2>2, <2>4, <2>5, Zenon
  <2>7. Word(v, TRUE, k + 1, k + 1, t)
    BY <2>5, <2>6, Zenon DEF Word
  <2> QED BY <2>7 DEF v
<1> QED BY <1>1, <1>2, <1>3, <1>4

\* The parser after k characters of a plain line: as many arguments as words have started, each
\* the characters of its word so far; a parser that stopped has met more words than arguments.
Parsers ==
  [args : Seq(Seq(Chars)), in_arg : BOOLEAN, in_escape : {FALSE}, in_string : {FALSE}, stop : BOOLEAN]
Parses(s, k, t) ==
  /\ s \in Parsers /\ (s.in_arg => Len(s.args) > 0)
  /\ IF s.stop THEN ~s.in_arg /\ Len(s.args) >= MaxArgc /\ Rank(k, t) > Len(s.args)
     ELSE Rank(k, t) = Len(s.args) /\ (s.in_arg <=> k > 0 /\ t[k] # Blank)
  /\ \A j \in WordStarts(t) :
       j <= k /\ Rank(j, t) <= Len(s.args) =>
         Word(s.args[Rank(j, t)], s.in_arg /\ Rank(j, t) = Len(s.args), j, k, t)

\* At the start.
LEMMA StartParses ==
  ASSUME NEW t \in Seq(Chars)
  PROVE  Parses(ParseStart, 0, t)
<1>1. Rank(0, t) = 0
  BY RankStep
<1>2. \A j \in WordStarts(t) : ~(j <= 0)
  <2>1. WordStarts(t) \subseteq 1 .. Len(t) /\ Len(t) \in Nat
    BY DEF WordStarts
  <2> QED BY <2>1
<1>3. ParseStart \in Parsers
  BY DEF ParseStart, Parsers
<1>4. ParseStart.args = <<>> /\ ~ParseStart.in_arg /\ ~ParseStart.stop
  BY DEF ParseStart
<1>5. Rank(0, t) = Len(ParseStart.args) /\ ~(0 > 0)
  BY <1>1, <1>4
<1> QED BY <1>2, <1>3, <1>4, <1>5, Zenon DEF Parses

\* The last element of a sequence set to another value.
LEMMA LastSet ==
  ASSUME NEW s \in Seq(Seq(Chars)), NEW d \in Seq(Chars), NEW e \in Seq(Chars)
  PROVE  [Append(s, d) EXCEPT ![Len(Append(s, d))] = e] = Append(s, e)
<1> DEFINE X == Seq(Chars)
<1>1. s \in Seq(X) /\ d \in X /\ e \in X
  OBVIOUS
<1> HIDE DEF X
<1> DEFINE a == Append(s, d)
           b == Append(s, e)
           m == Len(s) + 1
<1>2. a \in Seq(X) /\ b \in Seq(X) /\ Len(a) = m /\ Len(b) = m /\ b[m] = e
      /\ \A i \in 1 .. m : i # m => a[i] = b[i]
  BY <1>1
<1>3. m \in 1 .. m
  BY <1>1
<1> HIDE DEF a, b, m
<1>4. DOMAIN a = 1 .. m /\ DOMAIN b = 1 .. m /\ a = [i \in 1 .. m |-> a[i]] /\ b = [i \in 1 .. m |-> b[i]]
  BY <1>2
<1>5. [a EXCEPT ![m] = e] = [i \in 1 .. m |-> IF i = m THEN e ELSE a[i]]
  BY <1>4, Zenon
<1>6. [i \in 1 .. m |-> IF i = m THEN e ELSE a[i]] = [i \in 1 .. m |-> b[i]]
  BY <1>2, Zenon
<1>7. [a EXCEPT ![Len(a)] = e] = b
  BY <1>2, <1>4, <1>5, <1>6, Zenon
<1> QED BY <1>7 DEF a, b

\* The next character.
LEMMA ParseStep ==
  ASSUME NEW t \in Seq(Chars), Plain(t), NEW k \in Nat, k + 1 <= Len(t), NEW s, Parses(s, k, t)
  PROVE  Parses(Parse(s, t[k + 1]), k + 1, t)
<1> DEFINE ch == t[k + 1]
           n == Len(s.args)
           W == WordStarts(t)
           begins == k = 0 \/ t[k] = Blank
<1>1. s \in Parsers /\ s.args \in Seq(Seq(Chars)) /\ n \in Nat /\ (s.in_arg => n > 0)
      /\ s.in_arg \in BOOLEAN /\ ~s.in_escape /\ ~s.in_string
  <2>1. s \in Parsers /\ (s.in_arg => n > 0)
    BY Zenon DEF Parses
  <2>2. s.args \in Seq(Seq(Chars)) /\ s.in_arg \in BOOLEAN /\ ~s.in_escape /\ ~s.in_string
    BY <2>1 DEF Parsers
  <2>3. n \in Nat
    BY <2>2, LenProperties, Zenon
  <2> QED BY <2>1, <2>2, <2>3, Zenon
<1>2. k + 1 \in 1 .. Len(t) /\ ch \in Chars /\ ch \notin {"'", "\\"}
  <2>1. k + 1 \in 1 .. Len(t) /\ ch \in Chars
    OBVIOUS
  <2> QED BY <2>1, Zenon DEF Plain
<1>3. /\ \A j \in W : j \in Nat /\ 1 <= j /\ (j <= k + 1 => j \in 1 .. k + 1)
      /\ k + 1 \in W <=> ch # Blank /\ begins
  <2>1. \A j \in 1 .. Len(t) : j \in Nat /\ 1 <= j /\ (j <= k + 1 => j \in 1 .. k + 1)
    OBVIOUS
  <2>2. W \subseteq 1 .. Len(t)
    BY DEF WordStarts
  <2>3. (k + 1 = 1 <=> k = 0) /\ k + 1 - 1 = k
    OBVIOUS
  <2>4. k + 1 \in W <=> k + 1 \in 1 .. Len(t) /\ t[k + 1] # Blank /\ (k + 1 = 1 \/ t[k + 1 - 1] = Blank)
    BY SMT DEF WordStarts
  <2> HIDE DEF W
  <2>5. k + 1 \in W <=> ch # Blank /\ begins
    BY <1>2, <2>3, <2>4, Zenon
  <2> QED BY <2>1, <2>2, <2>5
<1>4. /\ Rank(k, t) \in Nat /\ \A j \in W : Rank(j, t) \in Nat /\ Rank(j, t) >= 1
      /\ Rank(k + 1, t) = IF k + 1 \in W THEN Rank(k, t) + 1 ELSE Rank(k, t)
      /\ \A j \in W : j <= k => Rank(j, t) <= Rank(k, t)
  <2>1. \A j \in W : j \in Nat /\ (j <= k => j \in 0 .. k)
    BY <1>3
  <2> QED BY <2>1, RankStep, Zenon
<1>5. /\ IF s.stop THEN ~s.in_arg /\ n >= MaxArgc /\ Rank(k, t) > n
         ELSE Rank(k, t) = n /\ (s.in_arg <=> k > 0 /\ t[k] # Blank)
      /\ \A j \in W : j <= k /\ Rank(j, t) <= n =>
           Word(s.args[Rank(j, t)], s.in_arg /\ Rank(j, t) = n, j, k, t)
  BY Zenon DEF Parses
<1>6. ~s.stop => (s.in_arg <=> ~begins)
  BY <1>5
<1>7. \A j \in W : j <= k + 1 => j <= k \/ j = k + 1
  BY <1>3
<1>8. /\ \A j \in W : \A w : j <= k + 1 => 
           /\ Word(w, FALSE, j, k, t) => Word(w, FALSE, j, k + 1, t)
           /\ Word(w, TRUE, j, k, t) /\ ch = Blank => Word(w, FALSE, j, k + 1, t)
           /\ Word(w, TRUE, j, k, t) => Word(Append(w, ch), TRUE, j, k + 1, t)
      /\ Word(<<ch>>, TRUE, k + 1, k + 1, t)
  <2>1. k + 1 \in 1 .. k + 1
    OBVIOUS
  <2> QED BY <1>3, <2>1, WordGoesOn, Zenon
<1>9. Parse(s, ch) =
        IF s.stop THEN s
        ELSE IF ch = Blank THEN [s EXCEPT !.in_arg = FALSE]
        ELSE IF ~s.in_arg /\ n >= MaxArgc THEN [s EXCEPT !.stop = TRUE]
        ELSE [OpenArg(s) EXCEPT !.args = Grow(@, ch)]
  BY <1>1, <1>2, ParsePlain, Zenon
<1>10. Rank(k + 1, t) \in Nat /\ Rank(k + 1, t) >= Rank(k, t) /\ MaxArgc \in Nat /\ k + 1 > 0
  BY <1>4, CliAssumption
<1> HIDE DEF ch, n, W, begins
<1>11. CASE s.stop
  <2>1. Parse(s, ch) = s
    BY <1>9, <1>11, Zenon
  <2>2. Rank(k, t) > n /\ Rank(k + 1, t) > n /\ ~s.in_arg /\ n >= MaxArgc
    BY <1>1, <1>4, <1>5, <1>10, <1>11
  <2>3. ASSUME NEW j \in W, j <= k + 1, Rank(j, t) <= n
        PROVE  Word(s.args[Rank(j, t)], s.in_arg /\ Rank(j, t) = n, j, k + 1, t)
    <3>1. j # k + 1
      BY <1>1, <1>10, <2>2, <2>3
    <3>2. j <= k
      BY <1>7, <2>3, <3>1
    <3>3. (s.in_arg /\ Rank(j, t) = n) = FALSE
      BY <2>2
    <3> QED BY <1>5, <1>8, <2>3, <3>2, <3>3, Zenon
  <2>4. Parses(s, k + 1, t)
    BY <1>1, <1>11, <2>2, <2>3, Zenon DEF Parses, n, W
  <2> QED BY <2>1, <2>4, Zenon DEF ch
<1>12. CASE ~s.stop /\ ch = Blank
  <2> DEFINE d == [s EXCEPT !.in_arg = FALSE]
  <2>1. Parse(s, ch) = d
    BY <1>9, <1>12, Zenon
  <2>2. d \in Parsers /\ d.args = s.args /\ ~d.in_arg /\ ~d.stop
    BY <1>1, <1>12 DEF Parsers
  <2> HIDE DEF d
  <2>3. k + 1 \notin W
    BY <1>3, <1>12
  <2>4. Rank(k + 1, t) = n
    BY <1>4, <1>5, <1>12, <2>3, Zenon
  <2>5. ASSUME NEW j \in W, j <= k + 1, Rank(j, t) <= n
        PROVE  Word(s.args[Rank(j, t)], FALSE, j, k + 1, t)
    <3>1. j <= k
      BY <1>7, <2>3, <2>5, Zenon
    <3>2. Word(s.args[Rank(j, t)], s.in_arg /\ Rank(j, t) = n, j, k, t)
      BY <1>5, <2>5, <3>1, Zenon
    <3>3. (s.in_arg /\ Rank(j, t) = n) = TRUE \/ (s.in_arg /\ Rank(j, t) = n) = FALSE
      OBVIOUS
    <3> QED BY <1>8, <1>12, <2>5, <3>2, <3>3, Zenon
  <2>6. \A j \in W : (d.in_arg /\ Rank(j, t) = n) = FALSE
    BY <2>2
  <2>7. d.in_arg <=> k + 1 > 0 /\ ch # Blank
    BY <1>12, <2>2
  <2>8. Parses(d, k + 1, t)
    BY <2>2, <2>4, <2>5, <2>6, <2>7, Zenon DEF Parses, n, W, ch
  <2> QED BY <2>1, <2>8, Zenon DEF ch
<1>13. CASE ~s.stop /\ ch # Blank /\ ~s.in_arg /\ n >= MaxArgc
  <2> DEFINE d == [s EXCEPT !.stop = TRUE]
  <2>1. Parse(s, ch) = d
    BY <1>9, <1>13, Zenon
  <2>2. d \in Parsers /\ d.args = s.args /\ ~d.in_arg /\ d.stop
    BY <1>1, <1>13 DEF Parsers
  <2> HIDE DEF d
  <2>3. k + 1 \in W
    BY <1>3, <1>6, <1>13, Zenon
  <2>4. Rank(k + 1, t) > n /\ Rank(k, t) = n
    BY <1>1, <1>4, <1>5, <1>13, <2>3
  <2>5. ASSUME NEW j \in W, j <= k + 1, Rank(j, t) <= n
        PROVE  Word(s.args[Rank(j, t)], FALSE, j, k + 1, t)
    <3>1. j # k + 1
      BY <1>1, <1>10, <2>4, <2>5
    <3>2. j <= k
      BY <1>7, <2>5, <3>1, Zenon
    <3>3. (s.in_arg /\ Rank(j, t) = n) = FALSE
      BY <1>13
    <3> QED BY <1>5, <1>8, <2>5, <3>2, <3>3, Zenon
  <2>6. \A j \in W : (d.in_arg /\ Rank(j, t) = n) = FALSE
    BY <2>2
  <2>7. Parses(d, k + 1, t)
    BY <1>13, <2>2, <2>4, <2>5, <2>6, Zenon DEF Parses, n, W, ch
  <2> QED BY <2>1, <2>7, Zenon DEF ch
<1>14. CASE ~s.stop /\ ch # Blank /\ ~s.in_arg /\ ~(n >= MaxArgc)
  <2> DEFINE o == Append(s.args, <<>>)
             a == Append(s.args, <<ch>>)
             d == [s EXCEPT !.args = a, !.in_arg = TRUE]
  <2>1. o \in Seq(Seq(Chars)) /\ a \in Seq(Seq(Chars)) /\ Len(o) = n + 1 /\ Len(a) = n + 1
        /\ o[n + 1] = <<>> /\ a[n + 1] = <<ch>>
        /\ \A i \in 1 .. n : a[i] = s.args[i] /\ o[i] = s.args[i]
    BY <1>1, <1>2 DEF ch, n
  <2>2. Grow(o, ch) = a
    <3>1. <<ch>> \in Seq(Chars) /\ Append(<<>>, ch) = <<ch>>
      BY <1>2 DEF ch
    <3>2. <<>> \in Seq(Chars)
      OBVIOUS
    <3>3. [o EXCEPT ![Len(o)] = <<ch>>] = a
      <4> DEFINE p == s.args
                 z == <<>>
                 w == <<ch>>
      <4>1. p \in Seq(Seq(Chars)) /\ z \in Seq(Chars) /\ w \in Seq(Chars)
        BY <1>1, <3>1, <3>2
      <4> HIDE DEF p, z, w
      <4>2. [Append(p, z) EXCEPT ![Len(Append(p, z))] = w] = Append(p, w)
        BY <4>1, LastSet
      <4> QED BY <4>2 DEF p, z, w
    <3>4. o[Len(o)] = <<>>
      BY <2>1, Zenon
    <3>5. [o EXCEPT ![Len(o)] = Append(@, ch)] = [o EXCEPT ![Len(o)] = <<ch>>]
      BY <3>1, <3>4, Zenon
    <3> QED BY <3>3, <3>5, Zenon DEF Grow
  <2>3. [OpenArg(s) EXCEPT !.args = Grow(@, ch)] = d
    <3>1. OpenArg(s) = [s EXCEPT !.args = o, !.in_arg = TRUE]
      BY <1>14, Zenon DEF OpenArg
    <3> HIDE DEF o, a
    <3> QED BY <1>1, <2>2, <3>1 DEF Parsers
  <2> HIDE DEF o, a
  <2>4. Parse(s, ch) = d
    BY <1>9, <1>14, <2>3, Zenon
  <2>5. d \in Parsers /\ d.args = a /\ d.in_arg /\ ~d.stop
    BY <1>1, <1>14, <2>1 DEF Parsers
  <2> HIDE DEF d
  <2>6. k + 1 \in W
    BY <1>3, <1>6, <1>14, Zenon
  <2>7. Rank(k + 1, t) = n + 1 /\ Rank(k, t) = n /\ n + 1 > 0
    BY <1>1, <1>4, <1>5, <1>14, <2>6
  <2>8. ASSUME NEW j \in W, j <= k + 1, Rank(j, t) <= n + 1
        PROVE  Word(a[Rank(j, t)], d.in_arg /\ Rank(j, t) = n + 1, j, k + 1, t)
    <3>1. CASE j = k + 1
      <4>1. (d.in_arg /\ Rank(j, t) = n + 1) = TRUE /\ a[Rank(j, t)] = <<ch>>
        BY <2>1, <2>5, <2>7, <3>1
      <4> QED BY <1>8, <3>1, <4>1, Zenon
    <3>2. CASE j # k + 1
      <4>1. j <= k
        BY <1>7, <2>8, <3>2, Zenon
      <4>2. Rank(j, t) <= n /\ Rank(j, t) # n + 1 /\ Rank(j, t) \in Nat
        BY <1>1, <1>4, <2>7, <4>1
      <4>3. (s.in_arg /\ Rank(j, t) = n) = FALSE /\ (d.in_arg /\ Rank(j, t) = n + 1) = FALSE
        BY <1>14, <4>2
      <4>4. Rank(j, t) \in 1 .. n
        BY <1>1, <1>4, <4>2
      <4>5. a[Rank(j, t)] = s.args[Rank(j, t)]
        BY <2>1, <4>4, Zenon
      <4> QED BY <1>5, <1>8, <2>8, <4>1, <4>2, <4>3, <4>5, Zenon
    <3> QED BY <3>1, <3>2
  <2>9. d.in_arg <=> k + 1 > 0 /\ ch # Blank
    BY <1>10, <1>14, <2>5
  <2>10. Parses(d, k + 1, t)
    BY <2>1, <2>5, <2>7, <2>8, <2>9, Zenon DEF Parses, W, ch
  <2> QED BY <2>4, <2>10, Zenon DEF ch
<1>15. CASE ~s.stop /\ ch # Blank /\ s.in_arg
  <2> DEFINE v == Append(s.args[n], ch)
             a == [s.args EXCEPT ![n] = v]
             d == [s EXCEPT !.args = a]
  <2>1. n \in 1 .. n /\ n \in 1 .. Len(s.args) /\ s.args[n] \in Seq(Chars)
    BY <1>1, <1>15 DEF n
  <2>2. v \in Seq(Chars)
    BY <1>2, <2>1 DEF ch
  <2>3. Grow(s.args, ch) = a
    BY Zenon DEF Grow, n
  <2>4. [OpenArg(s) EXCEPT !.args = Grow(@, ch)] = d
    <3>1. OpenArg(s) = s
      BY <1>15, Zenon DEF OpenArg
    <3> QED BY <2>3, <3>1, Zenon
  <2>5. Parse(s, ch) = d
    BY <1>9, <1>15, <2>4, Zenon
  <2> HIDE DEF v
  <2>6. a \in Seq(Seq(Chars)) /\ Len(a) = n /\ a[n] = v /\ \A i \in 1 .. n : i # n => a[i] = s.args[i]
    BY <1>1, <2>1, <2>2 DEF n
  <2> HIDE DEF a
  <2>7. d \in Parsers /\ d.args = a /\ d.in_arg /\ ~d.stop
    BY <1>1, <1>15, <2>6 DEF Parsers
  <2> HIDE DEF d
  <2>8. k + 1 \notin W
    BY <1>3, <1>6, <1>15, Zenon
  <2>9. Rank(k + 1, t) = n /\ n > 0
    BY <1>1, <1>4, <1>5, <1>15, <2>8, Zenon
  <2>10. ASSUME NEW j \in W, j <= k + 1, Rank(j, t) <= n
         PROVE  Word(a[Rank(j, t)], d.in_arg /\ Rank(j, t) = n, j, k + 1, t)
    <3>1. j <= k
      BY <1>7, <2>8, <2>10, Zenon
    <3>2. Word(s.args[Rank(j, t)], s.in_arg /\ Rank(j, t) = n, j, k, t)
      BY <1>5, <2>10, <3>1, Zenon
    <3>3. CASE Rank(j, t) = n
      <4>1. (s.in_arg /\ Rank(j, t) = n) = TRUE /\ (d.in_arg /\ Rank(j, t) = n) = TRUE
        BY <1>15, <2>7, <3>3
      <4>2. Word(s.args[n], TRUE, j, k, t)
        BY <3>2, <3>3, <4>1, Zenon
      <4>3. Word(v, TRUE, j, k + 1, t)
        BY <1>8, <2>10, <4>2, Zenon DEF v
      <4> QED BY <2>6, <3>3, <4>1, <4>3, Zenon
    <3>4. CASE Rank(j, t) # n
      <4>1. (s.in_arg /\ Rank(j, t) = n) = FALSE /\ (d.in_arg /\ Rank(j, t) = n) = FALSE
        BY <3>4
      <4>2. Rank(j, t) \in 1 .. n
        BY <1>1, <1>4, <2>10
      <4>3. a[Rank(j, t)] = s.args[Rank(j, t)]
        BY <2>6, <3>4, <4>2, Zenon
      <4> QED BY <1>8, <2>10, <3>2, <4>1, <4>3, Zenon
    <3> QED BY <3>3, <3>4
  <2>11. d.in_arg <=> k + 1 > 0 /\ ch # Blank
    BY <1>10, <1>15, <2>7
  <2>12. Parses(d, k + 1, t)
    BY <2>6, <2>7, <2>9, <2>10, <2>11, Zenon DEF Parses, W, ch
  <2> QED BY <2>5, <2>12, Zenon DEF ch
<1> QED BY <1>11, <1>12, <1>13, <1>14, <1>15

\* The parser over a plain line.
LEMMA RunParses ==
  ASSUME NEW t \in Seq(Chars), Plain(t), NEW p, IsRun(p, t, Len(t))
  PROVE  Parses(p[Len(t)], Len(t), t)
<1> DEFINE n == Len(t)
           T == {k \in Nat : k <= n /\ ~Parses(p[k], k, t)}
<1>1. n \in Nat /\ n <= n
  OBVIOUS
<1>2. \A k \in 0 .. n : p[k] = IF k = 0 THEN ParseStart ELSE Parse(p[k - 1], t[k])
  BY Zenon DEF IsRun
<1>3. T = {}
  <2> SUFFICES ASSUME T # {} PROVE FALSE
    OBVIOUS
  <2>1. PICK m \in T : \A k \in T : m <= k
    <3>1. T \subseteq Nat
      OBVIOUS
    <3> HIDE DEF T
    <3> QED BY <3>1, LeastNatural, Zenon
  <2> HIDE DEF n
  <2>2. m \in Nat /\ m <= n /\ ~Parses(p[m], m, t) /\ m \in 0 .. n
    BY <1>1, <2>1
  <2>3. CASE m = 0
    <3>1. p[m] = ParseStart
      BY <1>2, <2>2, <2>3, Zenon
    <3> QED BY <2>2, <2>3, <3>1, StartParses, Zenon
  <2>4. CASE m # 0
    <3> DEFINE k == m - 1
    <3>1. k \in Nat /\ k + 1 = m /\ k <= n /\ k + 1 <= n /\ ~(m <= k)
      BY <1>1, <2>2, <2>4
    <3> HIDE DEF k
    <3>2. k \notin T
      BY <2>1, <3>1, Zenon
    <3>3. Parses(p[k], k, t)
      BY <3>1, <3>2
    <3>4. p[m] = Parse(p[k], t[m])
      BY <1>2, <2>2, <2>4, Zenon DEF k
    <3>5. k + 1 <= Len(t)
      BY <3>1 DEF n
    <3>6. Parses(Parse(p[k], t[k + 1]), k + 1, t)
      BY <3>1, <3>3, <3>5, ParseStep, Zenon
    <3> QED BY <2>2, <3>1, <3>4, <3>6, Zenon
  <2> QED BY <2>3, <2>4
<1>4. n \notin T
  BY <1>3
<1> QED BY <1>1, <1>4

\* The words of a line, as ArgsAreWords asks for them.
AreWords(a, t) ==
  /\ Len(a) < MaxArgc
  /\ Cardinality(WordStarts(t)) < MaxArgc => Len(a) = Cardinality(WordStarts(t))
  /\ \A k \in WordStarts(t) :
       Rank(k, t) <= Len(a) =>
         LET w == a[Rank(k, t)]
         IN /\ w = SubSeq(t, k, k + Len(w) - 1)
            /\ k + Len(w) > Len(t) \/ t[k + Len(w)] = Blank

\* The arguments of a plain line.
LEMMA PlainWords ==
  ASSUME NEW t \in Seq(Chars), Plain(t)
  PROVE  AreWords(embedded_cli_argc(t), t)
<1> DEFINE n == Len(t)
           c == Cardinality(WordStarts(t))
<1>1. n \in Nat
  OBVIOUS
<1>2. PICK p : /\ IsRun(p, t, n)
               /\ embedded_cli_argc(t) =
                    IF Len(p[n].args) >= MaxArgc THEN SubSeq(p[n].args, 1, MaxArgc - 1) ELSE p[n].args
  BY <1>1, ArgcIsRun, Zenon
<1> DEFINE s == p[n]
           a == s.args
           l == Len(a)
           v == embedded_cli_argc(t)
<1>3. Parses(s, n, t)
  BY <1>2, RunParses, Zenon
<1>4. v = IF l >= MaxArgc THEN SubSeq(a, 1, MaxArgc - 1) ELSE a
  BY <1>2, Zenon
<1>5. /\ s \in Parsers
      /\ IF s.stop THEN l >= MaxArgc /\ Rank(n, t) > l ELSE Rank(n, t) = l
      /\ \A j \in WordStarts(t) :
           j <= n /\ Rank(j, t) <= l => Word(a[Rank(j, t)], s.in_arg /\ Rank(j, t) = l, j, n, t)
  BY <1>3, Zenon DEF Parses
<1> HIDE DEF s, v
<1>6. a \in Seq(Seq(Chars)) /\ s.in_arg \in BOOLEAN
  BY <1>5 DEF Parsers
<1> HIDE DEF a
<1>7. l \in Nat
  BY <1>6, LenProperties, Zenon
<1>8. Rank(n, t) = c /\ \A j \in WordStarts(t) : j \in Nat /\ j <= n /\ Rank(j, t) \in Nat /\ Rank(j, t) >= 1
  <2>1. \A j \in WordStarts(t) : j \in Nat /\ j <= n
    <3>1. WordStarts(t) \subseteq 1 .. n
      BY DEF WordStarts
    <3> QED BY <1>1, <3>1
  <2> QED BY <2>1, RankStep, Zenon
<1> HIDE DEF n
<1>9. ASSUME NEW j \in WordStarts(t), Rank(j, t) <= l, NEW w, w = a[Rank(j, t)]
      PROVE  w = SubSeq(t, j, j + Len(w) - 1) /\ (j + Len(w) > n \/ t[j + Len(w)] = Blank)
  <2>1. Word(w, s.in_arg /\ Rank(j, t) = l, j, n, t)
    BY <1>5, <1>8, <1>9, Zenon
  <2>2. Len(w) \in Nat /\ w = SubSeq(t, j, j + Len(w) - 1)
        /\ (j + Len(w) = n + 1 \/ t[j + Len(w)] = Blank)
    BY <2>1, Zenon DEF Word
  <2>3. j + Len(w) = n + 1 => j + Len(w) > n
    BY <1>1
  <2> QED BY <2>2, <2>3
<1>10. MaxArgc \in Nat \ {0}
  BY CliAssumption
<1> HIDE DEF c, l
<1>11. CASE ~(l >= MaxArgc)
  <2>1. v = a /\ l = c /\ l < MaxArgc
    BY <1>4, <1>5, <1>7, <1>8, <1>10, <1>11
  <2> QED BY <1>9, <2>1, Zenon DEF AreWords, v, l, c, n
<1>12. CASE l >= MaxArgc
  <2>1. v = SubSeq(a, 1, MaxArgc - 1)
    BY <1>4, <1>12, Zenon
  <2>2. ~(c < MaxArgc)
    <3>1. c \in Nat
      BY <1>1, <1>8, RankStep DEF n
    <3>2. c >= l
      BY <1>5, <1>7, <1>8, <3>1
    <3> QED BY <1>7, <1>10, <1>12, <3>1, <3>2
  <2>3. Len(v) = MaxArgc - 1 /\ \A i \in 1 .. MaxArgc - 1 : v[i] = a[i]
    <3> DEFINE m == MaxArgc - 1
    <3>1. m \in Int /\ m <= l
      BY <1>7, <1>10, <1>12
    <3>2. \A i \in 1 .. m : a[i] \in Seq(Chars)
      <4> DEFINE X == Seq(Chars)
      <4>1. a \in Seq(X)
        BY <1>6
      <4> HIDE DEF X
      <4>2. \A i \in 1 .. m : a[i] \in X
        BY <3>1, <4>1 DEF l
      <4> QED BY <4>2 DEF X
    <3>3. Len(SubSeq(a, 1, m)) = (IF 1 <= m THEN m - 1 + 1 ELSE 0)
          /\ \A i \in 1 .. m - 1 + 1 : SubSeq(a, 1, m)[i] = a[1 + i - 1]
      BY <3>1, <3>2, SubSeqProperties
    <3> HIDE DEF v, a
    <3>4. m \in Nat
      BY <1>10
    <3> HIDE DEF m
    <3>5. (IF 1 <= m THEN m - 1 + 1 ELSE 0) = m /\ m - 1 + 1 = m /\ \A i \in 1 .. m : 1 + i - 1 = i
      BY <3>4
    <3>6. Len(SubSeq(a, 1, m)) = m /\ \A i \in 1 .. m : SubSeq(a, 1, m)[i] = a[i]
      BY <3>3, <3>5
    <3> QED BY <2>1, <3>6, Zenon DEF m
  <2>4. Len(v) < MaxArgc /\ Len(v) <= l
    BY <1>7, <1>10, <1>12, <2>3
  <2>5. ASSUME NEW j \in WordStarts(t), Rank(j, t) <= Len(v) PROVE Rank(j, t) <= l /\ v[Rank(j, t)] = a[Rank(j, t)]
    <3>1. Rank(j, t) \in 1 .. MaxArgc - 1 /\ Rank(j, t) <= l
      BY <1>7, <1>8, <1>10, <2>3, <2>4, <2>5
    <3> QED BY <2>3, <3>1, Zenon
  <2> QED BY <1>9, <2>2, <2>4, <2>5, Zenon DEF AreWords, v, c, n
<1> QED BY <1>11, <1>12

\* The arguments are those of the line just entered.
ArgsInv == cli.done => argv = embedded_cli_argc(cli.buffer)

\* The arguments of the line editor, for every alphabet, line length, history length and number of
\* arguments and every sequence of keys: on a line without quotes and backslashes they are its
\* words, in order, as many as argv has room for.
THEOREM EditorWords == CliSpec => []ArgsAreWords
<1>1. CliInit => CliInv /\ ArgsInv
  <2> SUFFICES ASSUME CliInit PROVE CliInv /\ ArgsInv
    OBVIOUS
  <2>1. ~cli.done
    BY DEF CliInit, embedded_cli_init
  <2> QED BY <2>1, CliStart DEF ArgsInv
<1>2. CliInv /\ ArgsInv /\ [CliNext]_cliVars => (CliInv /\ ArgsInv)'
  <2> SUFFICES ASSUME CliInv, ArgsInv, [CliNext]_cliVars PROVE (CliInv /\ ArgsInv)'
    OBVIOUS
  <2>1. ASSUME NEW ch \in Keys(cli) \cup {"^C"}, Key(ch) PROVE (CliInv /\ ArgsInv)'
    <3>1. argv' = IF cli'.done THEN embedded_cli_argc(cli'.buffer) ELSE <<>>
      BY <2>1, Zenon DEF Key
    <3>2. ArgsInv'
      BY <3>1, Zenon DEF ArgsInv
    <3> QED BY <2>1, <3>2, KeyStep
  <2>2. CASE UNCHANGED cliVars
    <3>1. cli' = cli /\ argv' = argv
      BY <2>2 DEF cliVars
    <3> QED BY <3>1 DEF CliInv, Edited, HistoryKept, ArgsInv
  <2> QED BY <2>1, <2>2 DEF CliNext, intHandler
<1>3. CliInv /\ ArgsInv => ArgsAreWords
  <2> SUFFICES ASSUME CliInv, ArgsInv, cli.done, Plain(cli.buffer) PROVE AreWords(argv, cli.buffer)
    BY Zenon DEF ArgsAreWords, AreWords, Plain
  <2>1. cli.buffer \in Seq(Chars)
    BY DEF CliInv, Clis, Lines
  <2>2. AreWords(embedded_cli_argc(cli.buffer), cli.buffer)
    BY <2>1, PlainWords
  <2> QED BY <2>2, Zenon DEF ArgsInv
<1> QED BY <1>1, <1>2, <1>3, PTL DEF CliSpec

(***************************************************************************)
(* The terminal shows the line being edited.                               *)
(***************************************************************************)
\* What a cell of the terminal may hold.
Glyphs == Chars \cup {Prompt[1], Blank}

\* The character at place k of a line: a blank beyond its end.
At(s, k) == IF k \in 1 .. Len(s) THEN s[k] ELSE Blank

\* The last place of a line that is not blank.
LEMMA LastGlyph ==
  ASSUME NEW s \in Seq(Glyphs)
  PROVE  \E n \in 0 .. Len(s) : /\ n > 0 => s[n] # Blank
                                /\ \A k \in n + 1 .. Len(s) : s[k] = Blank
<1> DEFINE T == {n \in 0 .. Len(s) : \A k \in n + 1 .. Len(s) : s[k] = Blank}
<1>1. Len(s) \in Nat /\ Len(s) \in T /\ T \subseteq Nat
  OBVIOUS
<1> HIDE DEF T
<1>2. PICK n \in T : \A m \in T : n <= m
  BY <1>1, LeastNatural
<1>3. n \in 0 .. Len(s) /\ \A k \in n + 1 .. Len(s) : s[k] = Blank
  BY <1>2 DEF T
<1>4. ASSUME n > 0, s[n] = Blank PROVE FALSE
  <2>1. n - 1 \in 0 .. Len(s) /\ \A k \in n .. Len(s) : k = n \/ k \in n + 1 .. Len(s)
    BY <1>1, <1>3, <1>4
  <2>2. n - 1 \in T
    BY <1>3, <1>4, <2>1 DEF T
  <2> QED BY <1>1, <1>2, <1>3, <2>2
<1> QED BY <1>3, <1>4

\* Trim keeps every character.
LEMMA TrimKeeps ==
  ASSUME NEW s \in Seq(Glyphs)
  PROVE  \E n \in 0 .. Len(s) :
           /\ n > 0 => s[n] # Blank
           /\ \A k \in n + 1 .. Len(s) : s[k] = Blank
           /\ Trim(s) = [k \in 1 .. n |-> s[k]]
           /\ Trim(s) \in Seq(Glyphs) /\ Len(Trim(s)) = n
           /\ \A k \in Nat : At(Trim(s), k) = At(s, k)
<1> DEFINE n == CHOOSE n \in 0 .. Len(s) : /\ n > 0 => s[n] # Blank
                                           /\ \A k \in n + 1 .. Len(s) : s[k] = Blank
<1>1. /\ n \in 0 .. Len(s) /\ (n > 0 => s[n] # Blank)
      /\ \A k \in n + 1 .. Len(s) : s[k] = Blank
  BY LastGlyph
<1>2. Trim(s) = SubSeq(s, 1, n)
  BY DEF Trim
<1> HIDE DEF n
<1>3. Trim(s) = [k \in 1 .. n |-> s[k]]
  BY <1>1, <1>2
<1>4. Trim(s) \in Seq(Glyphs) /\ Len(Trim(s)) = n
  BY <1>1, <1>2, SubSeqProperties
<1>5. ASSUME NEW k \in Nat PROVE At(Trim(s), k) = At(s, k)
  <2>1. CASE k \in 1 .. n
    BY <1>1, <1>3, <1>4, <2>1 DEF At
  <2>2. CASE k \in n + 1 .. Len(s)
    BY <1>1, <1>4, <2>2 DEF At
  <2>3. CASE ~(k \in 1 .. n) /\ ~(k \in n + 1 .. Len(s))
    <3>1. ~(k \in 1 .. Len(s))
      BY <1>1, <2>3
    <3> QED BY <1>4, <2>3, <3>1, Zenon DEF At
  <2> QED BY <2>1, <2>2, <2>3
<1> QED BY <1>1, <1>3, <1>4, <1>5

\* Lines with the same characters are trimmed alike.
LEMMA TrimSame ==
  ASSUME NEW s \in Seq(Glyphs), NEW u \in Seq(Glyphs), \A k \in Nat : At(s, k) = At(u, k)
  PROVE  Trim(s) = Trim(u)
<1>1. PICK n \in 0 .. Len(s) : /\ n > 0 => s[n] # Blank
                               /\ \A k \in n + 1 .. Len(s) : s[k] = Blank
                               /\ Trim(s) = [k \in 1 .. n |-> s[k]]
  BY TrimKeeps
<1>2. PICK m \in 0 .. Len(u) : /\ m > 0 => u[m] # Blank
                               /\ \A k \in m + 1 .. Len(u) : u[k] = Blank
                               /\ Trim(u) = [k \in 1 .. m |-> u[k]]
  BY TrimKeeps
<1>0. Len(s) \in Nat /\ Len(u) \in Nat
  OBVIOUS
<1>3. ~(n < m)
  <2> SUFFICES ASSUME n < m PROVE FALSE
    OBVIOUS
  <2>1. m \in Nat /\ m \in 1 .. Len(u) /\ At(u, m) # Blank
    BY <1>0, <1>1, <1>2 DEF At
  <2>2. At(s, m) = Blank
    BY <1>0, <1>1, <2>1 DEF At
  <2> QED BY <2>1, <2>2
<1>4. ~(m < n)
  <2> SUFFICES ASSUME m < n PROVE FALSE
    OBVIOUS
  <2>1. n \in Nat /\ n \in 1 .. Len(s) /\ At(s, n) # Blank
    BY <1>0, <1>1, <1>2 DEF At
  <2>2. At(u, n) = Blank
    BY <1>0, <1>2, <2>1 DEF At
  <2> QED BY <2>1, <2>2
<1>5. n = m
  BY <1>0, <1>3, <1>4
<1>6. \A k \in 1 .. n : s[k] = u[k]
  <2> SUFFICES ASSUME NEW k \in 1 .. n PROVE s[k] = u[k]
    OBVIOUS
  <2>1. k \in Nat /\ k \in 1 .. Len(s) /\ k \in 1 .. Len(u)
    BY <1>0, <1>5
  <2> QED BY <2>1 DEF At
<1> QED BY <1>1, <1>2, <1>5, <1>6

\* A line on the terminal.
Screens == [text : Seq(Glyphs), col : Nat]

\* What is written replaces what was there; the rest of the line stays.
LEMMA PutsCells ==
  ASSUME NEW t \in Screens, NEW s \in Seq(Glyphs)
  PROVE  \E y \in Seq(Glyphs) :
           /\ cli_puts(t, s) = [text |-> Trim(y), col |-> t.col + Len(s)]
           /\ \A k \in Nat : At(y, k) = IF k \in t.col + 1 .. t.col + Len(s) THEN s[k - t.col]
                                        ELSE At(t.text, k)
<1> DEFINE c == t.col
           x == t.text
           n == Len(s)
           l == Len(x)
           a == LeftOf(t)
           b == SubSeq(x, c + n + 1, l)
           y == a \o s \o b
<1>1. x \in Seq(Glyphs) /\ l \in Nat /\ c \in Nat /\ n \in Nat
  BY DEF Screens
<1>2. /\ a = [k \in 1 .. c |-> IF k <= l THEN x[k] ELSE Blank]
      /\ cli_puts(t, s) = [text |-> Trim(y), col |-> c + n]
  BY DEF LeftOf, cli_puts
<1> HIDE DEF c, n, a
<1>3. a \in Seq(Glyphs) /\ Len(a) = c /\ \A k \in 1 .. c : a[k] = At(x, k)
  <2>1. \A k \in 1 .. c : (IF k <= l THEN x[k] ELSE Blank) = At(x, k) /\ At(x, k) \in Glyphs
    BY <1>1 DEF At, Glyphs
  <2> QED BY <1>1, <1>2, <2>1
<1>l. l = Len(x)
  OBVIOUS
<1> HIDE DEF x, l
<1>4. b \in Seq(Glyphs) /\ Len(b) = (IF c + n <= l THEN l - (c + n) ELSE 0)
      /\ \A k \in 1 .. Len(b) : b[k] = x[k + c + n]
  BY <1>1, <1>l
<1> HIDE DEF b
<1> DEFINE e == a \o s
           m == Len(e)
           z == Len(b)
<1>5. e \in Seq(Glyphs) /\ m = c + n
      /\ \A k \in 1 .. m : e[k] = IF k <= c THEN a[k] ELSE s[k - c]
  <2>1. e \in Seq(Glyphs) /\ Len(e) = c + n
        /\ \A k \in 1 .. c + n : e[k] = IF k <= c THEN a[k] ELSE s[k - c]
    BY <1>3, ConcatProperties, Zenon DEF n
  <2> HIDE DEF e
  <2> QED BY <2>1, Zenon
<1>6. y = e \o b
  OBVIOUS
<1> HIDE DEF e, y
<1>7. /\ y \in Seq(Glyphs) /\ Len(y) = m + z
      /\ \A k \in 1 .. m + z : y[k] = IF k <= m THEN e[k] ELSE b[k - m]
  BY <1>4, <1>5, <1>6, ConcatProperties, Zenon
<1>8. m = c + n /\ m \in Nat /\ c \in Nat /\ n \in Nat /\ l \in Nat /\ z \in Nat
      /\ z = (IF m <= l THEN l - m ELSE 0)
  <2>1. m = c + n
    BY <1>5
  <2>2. z = (IF c + n <= l THEN l - (c + n) ELSE 0)
    BY <1>4
  <2> HIDE DEF m, z
  <2> QED BY <1>1, <2>1, <2>2
<1>9. \A k \in 1 .. z : b[k] = x[k + m]
  <2>1. \A k \in 1 .. Len(b) : k \in 1 .. z /\ k + c + n = k + m
    <3> HIDE DEF m
    <3> QED BY <1>8
  <2> QED BY <1>4, <2>1, Zenon
<1>x. l = Len(x) /\ n = Len(s) /\ c = t.col /\ x = t.text
  BY DEF l, n, c, x
<1> HIDE DEF m, z
<1>10. ASSUME NEW k \in Nat PROVE At(y, k) = IF k \in c + 1 .. c + n THEN s[k - c] ELSE At(x, k)
  <2>1. CASE k \in 1 .. c
    <3>1. k \in 1 .. m /\ k \in 1 .. m + z /\ k <= c /\ k <= m /\ ~(k \in c + 1 .. c + n)
      BY <1>8, <2>1
    <3> QED BY <1>3, <1>5, <1>7, <2>1, <3>1, Zenon DEF At
  <2>2. CASE k \in c + 1 .. c + n
    <3>1. k \in 1 .. m /\ k \in 1 .. m + z /\ ~(k <= c) /\ k <= m
      BY <1>8, <2>2
    <3> QED BY <1>5, <1>7, <2>2, <3>1, Zenon DEF At
  <2>3. CASE k \in m + 1 .. m + z
    <3>1. k \in 1 .. m + z /\ ~(k <= m) /\ ~(k \in c + 1 .. c + n)
          /\ k \in 1 .. l /\ k - m \in 1 .. z /\ k - m + m = k
      BY <1>8, <2>3
    <3>2. At(y, k) = b[k - m]
      BY <1>7, <3>1, Zenon DEF At
    <3>3. b[k - m] = x[k]
      BY <1>9, <3>1, Zenon
    <3>4. At(x, k) = x[k]
      BY <1>x, <3>1, Zenon DEF At
    <3> QED BY <3>1, <3>2, <3>3, <3>4, Zenon
  <2>4. CASE k = 0 \/ k > m + z
    <3>1. ~(k \in 1 .. m + z) /\ ~(k \in c + 1 .. c + n) /\ ~(k \in 1 .. l)
      BY <1>8, <2>4
    <3> QED BY <1>7, <1>x, <3>1, Zenon DEF At
  <2> QED BY <1>8, <2>1, <2>2, <2>3, <2>4
<1> QED BY <1>2, <1>7, <1>10, <1>x, Zenon

\* A text written at the cursor: the screen is any line with those cells, trimmed.
LEMMA PutsShows ==
  ASSUME NEW t \in Screens, NEW s \in Seq(Glyphs), NEW u \in Seq(Glyphs),
         \A k \in Nat : At(u, k) = IF k \in t.col + 1 .. t.col + Len(s) THEN s[k - t.col]
                                   ELSE At(t.text, k)
  PROVE  cli_puts(t, s) = [text |-> Trim(u), col |-> t.col + Len(s)]
<1>1. PICK y \in Seq(Glyphs) :
           /\ cli_puts(t, s) = [text |-> Trim(y), col |-> t.col + Len(s)]
           /\ \A k \in Nat : At(y, k) = IF k \in t.col + 1 .. t.col + Len(s) THEN s[k - t.col]
                                        ELSE At(t.text, k)
  BY PutsCells
<1>2. Trim(y) = Trim(u)
  <2>1. \A k \in Nat : At(y, k) = At(u, k)
    BY <1>1, Zenon
  <2> QED BY <2>1, TrimSame, Zenon
<1> QED BY <1>1, <1>2, Zenon

\* The rest of the line is cleared.
LEMMA ClearShows ==
  ASSUME NEW t \in Screens, NEW u \in Seq(Glyphs),
         \A k \in Nat : At(u, k) = IF k <= t.col THEN At(t.text, k) ELSE Blank
  PROVE  clear_eol(t) = [text |-> Trim(u), col |-> t.col]
<1> DEFINE c == t.col
           x == t.text
           a == LeftOf(t)
<1>1. x \in Seq(Glyphs) /\ Len(x) \in Nat /\ c \in Nat
  BY DEF Screens
<1>2. /\ a = [k \in 1 .. c |-> IF k <= Len(x) THEN x[k] ELSE Blank]
      /\ clear_eol(t) = [text |-> Trim(a), col |-> c]
  BY DEF LeftOf, clear_eol, Screens
<1>x. c = t.col /\ x = t.text
  OBVIOUS
<1> HIDE DEF c, x, a
<1>3. a \in Seq(Glyphs) /\ Len(a) = c /\ \A k \in 1 .. c : a[k] = At(x, k)
  <2>1. \A k \in 1 .. c : (IF k <= Len(x) THEN x[k] ELSE Blank) = At(x, k) /\ At(x, k) \in Glyphs
    BY <1>1 DEF At, Glyphs
  <2> QED BY <1>1, <1>2, <2>1
<1>4. ASSUME NEW k \in Nat PROVE At(a, k) = At(u, k)
  <2>1. CASE k \in 1 .. c
    <3>1. k <= t.col
      BY <1>1, <1>x, <2>1
    <3> QED BY <1>3, <1>x, <2>1, <3>1, Zenon DEF At
  <2>2. CASE k > c
    <3>1. ~(k <= t.col) /\ ~(k \in 1 .. c)
      BY <1>1, <1>x, <2>2
    <3> QED BY <1>3, <3>1, Zenon DEF At
  <2>3. CASE k = 0
    <3>1. k <= t.col /\ ~(k \in 1 .. c) /\ ~(k \in 1 .. Len(x))
      BY <1>1, <1>x, <2>3
    <3> QED BY <1>3, <1>x, <3>1, Zenon DEF At
  <2> QED BY <1>1, <2>1, <2>2, <2>3
<1>5. Trim(a) = Trim(u)
  BY <1>3, <1>4, TrimSame, Zenon
<1> QED BY <1>2, <1>5, <1>x, Zenon

\* The terminal shows the prompt and the line, with its cursor where the editor's is.
Showing(t, c) == t = [text |-> Trim(Prompt \o c.buffer), col |-> 1 + c.cursor]

\* The character at place k of the screen for a line.
CellOf(b, k) == IF k = 1 THEN Prompt[1] ELSE At(b, k - 1)

\* The prompt with a line after it.
LEMMA PromptedLine ==
  ASSUME NEW b \in Seq(Chars)
  PROVE  /\ Prompt \o b \in Seq(Glyphs) /\ Len(Prompt \o b) = 1 + Len(b)
         /\ \A k \in Nat : At(Prompt \o b, k) = CellOf(b, k)
<1>1. Len(Prompt) = 1
  BY DEF Prompt
<1>2. Prompt = <<Prompt[1]>>
  BY DEF Prompt
<1> DEFINE u == Prompt \o b
<1>3. Prompt[1] \in Glyphs /\ b \in Seq(Glyphs)
  BY DEF Glyphs
<1>4. Prompt \in Seq(Glyphs)
  <2> DEFINE x == Prompt[1]
  <2>1. x \in Glyphs /\ Prompt = <<x>>
    BY <1>2, <1>3
  <2> HIDE DEF x
  <2> QED BY <2>1
<1>5. u \in Seq(Glyphs) /\ Len(u) = 1 + Len(b)
      /\ \A k \in 1 .. 1 + Len(b) : u[k] = IF k <= 1 THEN Prompt[k] ELSE b[k - 1]
  <2>1. u \in Seq(Glyphs) /\ Len(u) = Len(Prompt) + Len(b)
        /\ \A k \in 1 .. Len(Prompt) + Len(b) :
             u[k] = IF k <= Len(Prompt) THEN Prompt[k] ELSE b[k - Len(Prompt)]
    BY <1>3, <1>4, ConcatProperties, Zenon
  <2> HIDE DEF u
  <2> QED BY <1>1, <2>1, Zenon
<1> HIDE DEF u
<1>6. ASSUME NEW k \in Nat PROVE At(u, k) = CellOf(b, k)
  <2>0. Len(b) \in Nat
    OBVIOUS
  <2>1. CASE k = 1
    <3>1. k \in 1 .. 1 + Len(b) /\ k <= 1
      BY <2>0, <2>1
    <3> QED BY <1>5, <2>1, <3>1, Zenon DEF At, CellOf
  <2>2. CASE k \in 2 .. 1 + Len(b)
    <3>1. k \in 1 .. 1 + Len(b) /\ ~(k <= 1) /\ k # 1 /\ k - 1 \in 1 .. Len(b)
      BY <2>0, <2>2
    <3> QED BY <1>5, <3>1, Zenon DEF At, CellOf
  <2>3. CASE k = 0 \/ k > 1 + Len(b)
    <3>1. ~(k \in 1 .. 1 + Len(b)) /\ k # 1 /\ ~(k - 1 \in 1 .. Len(b))
      BY <2>0, <2>3
    <3> QED BY <1>5, <3>1, Zenon DEF At, CellOf
  <2> QED BY <2>0, <2>1, <2>2, <2>3
<1> QED BY <1>5, <1>6 DEF u

\* A line of the editor.
LEMMA EditedLine ==
  ASSUME NEW c, Edited(c)
  PROVE  /\ c.buffer \in Seq(Chars) /\ c.buffer \in Seq(Glyphs) /\ c.len = Len(c.buffer)
         /\ c.len \in Nat /\ c.cursor \in Nat /\ c.cursor <= c.len /\ c.history_pos \in Int
         /\ c \in Clis
<1>1. c.buffer \in Seq(Chars)
  BY DEF Edited, Clis, Lines
<1>2. c.buffer \in Seq(Glyphs)
  BY <1>1 DEF Glyphs
<1> QED BY <1>1, <1>2 DEF Edited, Clis

\* What the terminal holds while it shows a line.
LEMMA ShownLine ==
  ASSUME NEW t, NEW c, Edited(c), Showing(t, c)
  PROVE  /\ t \in Screens /\ t.col = 1 + c.cursor
         /\ \A k \in Nat : At(t.text, k) = CellOf(c.buffer, k)
<1> DEFINE u == Prompt \o c.buffer
<1>1. u \in Seq(Glyphs) /\ \A k \in Nat : At(u, k) = CellOf(c.buffer, k)
  BY EditedLine, PromptedLine
<1>2. t = [text |-> Trim(u), col |-> 1 + c.cursor]
  BY DEF Showing
<1> HIDE DEF u
<1>3. Trim(u) \in Seq(Glyphs) /\ \A k \in Nat : At(Trim(u), k) = At(u, k)
  BY <1>1, TrimKeeps
<1>4. 1 + c.cursor \in Nat
  BY EditedLine
<1>5. t \in Screens /\ t.col = 1 + c.cursor /\ t.text = Trim(u)
  BY <1>2, <1>3, <1>4 DEF Screens
<1> QED BY <1>1, <1>3, <1>5, Zenon

\* Writing makes the screen that of line b, if what is written and what it leaves are.
LEMMA PutsLine ==
  ASSUME NEW t \in Screens, NEW s \in Seq(Glyphs), NEW b \in Seq(Chars),
         \A k \in Nat : CellOf(b, k) = IF k \in t.col + 1 .. t.col + Len(s) THEN s[k - t.col]
                                       ELSE At(t.text, k)
  PROVE  cli_puts(t, s) = [text |-> Trim(Prompt \o b), col |-> t.col + Len(s)]
<1> DEFINE u == Prompt \o b
<1>1. u \in Seq(Glyphs) /\ \A k \in Nat : At(u, k) = CellOf(b, k)
  BY PromptedLine
<1> HIDE DEF u
<1>2. \A k \in Nat : At(u, k) = IF k \in t.col + 1 .. t.col + Len(s) THEN s[k - t.col]
                                ELSE At(t.text, k)
  BY <1>1, Zenon
<1>3. cli_puts(t, s) = [text |-> Trim(u), col |-> t.col + Len(s)]
  BY <1>1, <1>2, PutsShows, Zenon
<1> QED BY <1>3 DEF u

\* The end of a line.
LEMMA LineEnd ==
  ASSUME NEW b \in Seq(Glyphs), NEW k \in Nat, 1 <= k, k <= Len(b) + 1
  PROVE  LET s == SubSeq(b, k, Len(b))
         IN s \in Seq(Glyphs) /\ Len(s) = Len(b) - k + 1 /\ \A i \in 1 .. Len(s) : s[i] = b[k + i - 1]
<1> DEFINE s == SubSeq(b, k, Len(b))
           l == Len(b)
<1>1. l \in Nat /\ \A i \in k .. l : b[i] \in Glyphs
  OBVIOUS
<1>2. s \in Seq(Glyphs) /\ Len(s) = (IF k <= l THEN l - k + 1 ELSE 0)
      /\ \A i \in 1 .. l - k + 1 : s[i] = b[k + i - 1]
  <2>1. k \in Int /\ l \in Int
    BY <1>1
  <2> QED BY <1>1, <2>1, SubSeqProperties
<1> HIDE DEF s
<1> QED BY <1>1, <1>2 DEF s

\* The cursor back by n places.
LEMMA CursorBack ==
  ASSUME NEW x, NEW m \in Int, NEW n \in Int, n <= m
  PROVE  term_cursor_back([text |-> x, col |-> m], n) = [text |-> x, col |-> m - n]
BY DEF term_cursor_back

\* Up to place lo and after place hi the screen is that of line b.
Agrees(x, b, lo, hi) == \A p \in Nat : p <= lo \/ p > hi => At(x, p) = CellOf(b, p)

\* Redraw writes the line from place k on.
LEMMA RedrawShows ==
  ASSUME NEW t \in Screens, NEW d, Edited(d), NEW k \in Nat, 1 <= k, k <= d.len + 1, t.col = k,
         Agrees(t.text, d.buffer, k, d.len + 1)
  PROVE  Showing(Redraw(t, d, k), d)
<1> DEFINE b == d.buffer
           l == d.len
           s == SubSeq(b, k, l)
<1>1. b \in Seq(Chars) /\ b \in Seq(Glyphs) /\ l = Len(b) /\ l \in Nat /\ d.cursor \in Nat /\ d.cursor <= l
      /\ k <= l + 1
  BY EditedLine
<1>3. Agrees(t.text, b, k, l + 1)
  OBVIOUS
<1>4. Redraw(t, d, k) = term_cursor_back(cli_puts(t, s), l - d.cursor)
  BY DEF Redraw
<1> HIDE DEF b, l
<1>5. s \in Seq(Glyphs) /\ Len(s) = l - k + 1 /\ \A i \in 1 .. Len(s) : s[i] = b[k + i - 1]
  BY <1>1, LineEnd, Zenon
<1> HIDE DEF s
<1>6. ASSUME NEW p \in Nat
      PROVE  CellOf(b, p) = IF p \in t.col + 1 .. t.col + Len(s) THEN s[p - t.col] ELSE At(t.text, p)
  <2>1. t.col = k /\ t.col + Len(s) = l + 1
    BY <1>1, <1>5
  <2>2. CASE p \in k + 1 .. l + 1
    <3>1. p # 1 /\ p - 1 \in 1 .. l /\ p - k \in 1 .. Len(s) /\ k + (p - k) - 1 = p - 1
      BY <1>1, <1>5, <2>2
    <3>2. s[p - k] = b[p - 1]
      BY <1>5, <3>1
    <3>3. CellOf(b, p) = b[p - 1]
      BY <1>1, <3>1, Zenon DEF CellOf, At
    <3> QED BY <2>1, <2>2, <3>2, <3>3, Zenon
  <2>3. CASE ~(p \in k + 1 .. l + 1)
    <3>1. p <= k \/ p > l + 1
      BY <1>1, <2>3
    <3> QED BY <1>3, <2>1, <2>3, <3>1, Zenon DEF Agrees
  <2> QED BY <2>2, <2>3, Zenon
<1>7. cli_puts(t, s) = [text |-> Trim(Prompt \o b), col |-> t.col + Len(s)]
  BY <1>1, <1>5, <1>6, PutsLine, Zenon
<1>8. t.col + Len(s) = l + 1
  BY <1>1, <1>5
<1>9. Redraw(t, d, k) = [text |-> Trim(Prompt \o b), col |-> 1 + d.cursor]
  <2> DEFINE x == Trim(Prompt \o b)
  <2> HIDE DEF x
  <2> DEFINE y == l + 1
             z == l - d.cursor
  <2>1. y \in Int /\ z \in Int /\ z <= y /\ y - z = 1 + d.cursor
    <3>1. \A i, j \in Nat : LET m == i + 1
                               n == i - j
                           IN m \in Int /\ n \in Int /\ (j <= i => n <= m) /\ m - n = 1 + j
      OBVIOUS
    <3> QED BY <1>1, <3>1
  <2> HIDE DEF y, z
  <2>2. term_cursor_back([text |-> x, col |-> y], z) = [text |-> x, col |-> y - z]
    BY <2>1, CursorBack
  <2> QED BY <1>4, <1>7, <1>8, <2>1, <2>2, Zenon DEF x, y, z
<1> QED BY <1>9 DEF Showing, b

\* Rubout writes the line from the cursor on and a blank.
LEMMA RuboutShows ==
  ASSUME NEW t \in Screens, NEW d, Edited(d), t.col = 1 + d.cursor,
         Agrees(t.text, d.buffer, 1 + d.cursor, d.len + 2)
  PROVE  Showing(Rubout(t, d), d)
<1> DEFINE b == d.buffer
           l == d.len
           k == 1 + d.cursor
           r == SubSeq(b, k, l)
           s == r \o <<Blank>>
<1>1. b \in Seq(Chars) /\ b \in Seq(Glyphs) /\ l = Len(b) /\ l \in Nat /\ d.cursor \in Nat /\ d.cursor <= l
  BY EditedLine
<1>2. k \in Nat /\ 1 <= k /\ k <= l + 1 /\ k = 1 + d.cursor /\ t.col = k /\ d.cursor + 1 = k
  BY <1>1
<1>k. k \in Nat /\ l \in Nat /\ 1 <= k /\ k <= l + 1
  BY <1>1, <1>2
<1>3. Agrees(t.text, b, k, l + 2)
  OBVIOUS
<1>4. Rubout(t, d) = term_cursor_back(cli_puts(t, s), l - d.cursor + 1)
  BY <1>2 DEF Rubout
<1> HIDE DEF b, l, k
<1>5. r \in Seq(Glyphs) /\ Len(r) = l - k + 1 /\ \A i \in 1 .. Len(r) : r[i] = b[k + i - 1]
  BY <1>1, <1>2, LineEnd, Zenon
<1> DEFINE n == Len(r)
<1>n. n = l - k + 1 /\ n \in Nat
  <2>1. n = l - k + 1
    BY <1>5
  <2> HIDE DEF n
  <2> QED BY <1>k, <2>1
<1> HIDE DEF r, n
<1>6. s \in Seq(Glyphs) /\ Len(s) = n + 1
      /\ \A i \in 1 .. n + 1 : s[i] = IF i <= n THEN r[i] ELSE Blank
  <2>1. Blank \in Glyphs
    BY Zenon DEF Glyphs
  <2> DEFINE w == <<Blank>>
  <2>2. w \in Seq(Glyphs) /\ Len(w) = 1 /\ w[1] = Blank
    BY <2>1
  <2> HIDE DEF w
  <2>3. r \o w \in Seq(Glyphs) /\ Len(r \o w) = Len(r) + Len(w)
        /\ \A i \in 1 .. Len(r) + Len(w) : (r \o w)[i] = IF i <= Len(r) THEN r[i] ELSE w[i - Len(r)]
    BY <1>5, <2>2, ConcatProperties, Zenon
  <2>4. s = r \o w
    BY DEF w
  <2>5. \A i \in 1 .. n + 1 : i <= n \/ i - n = 1
    BY <1>n
  <2> HIDE DEF s
  <2> QED BY <2>2, <2>3, <2>4, <2>5, Zenon DEF n
<1> HIDE DEF s
<1>7. ASSUME NEW p \in Nat
      PROVE  CellOf(b, p) = IF p \in t.col + 1 .. t.col + Len(s) THEN s[p - t.col] ELSE At(t.text, p)
  <2>1. t.col = k /\ Len(s) = n + 1
    BY <1>2, <1>6
  <2>2. CASE p \in k + 1 .. l + 1
    <3>1. p # 1 /\ p - 1 \in 1 .. l /\ p - k \in 1 .. n /\ k + (p - k) - 1 = p - 1
          /\ p - k \in 1 .. n + 1 /\ p - k <= n /\ p \in k + 1 .. k + (n + 1)
      BY <1>k, <1>n, <2>2
    <3>2. r[p - k] = b[p - 1]
      BY <1>5, <3>1, Zenon DEF n
    <3>3. CellOf(b, p) = b[p - 1]
      BY <1>1, <3>1, Zenon DEF CellOf, At
    <3>4. s[p - k] = r[p - k]
      BY <1>6, <3>1, Zenon
    <3> QED BY <2>1, <3>1, <3>2, <3>3, <3>4, Zenon
  <2>3. CASE p = l + 2
    <3>1. p # 1 /\ ~(p - 1 \in 1 .. l) /\ p - k \in 1 .. n + 1 /\ ~(p - k <= n)
          /\ p \in k + 1 .. k + (n + 1)
      BY <1>k, <1>n, <2>3
    <3>3. CellOf(b, p) = Blank
      BY <1>1, <3>1, Zenon DEF CellOf, At
    <3>4. s[p - k] = Blank
      BY <1>6, <3>1, Zenon
    <3> QED BY <2>1, <3>1, <3>3, <3>4, Zenon
  <2>4. CASE ~(p \in k + 1 .. l + 2)
    <3>1. (p <= k \/ p > l + 2) /\ ~(p \in k + 1 .. k + (n + 1))
      BY <1>k, <1>n, <2>4
    <3> QED BY <1>3, <2>1, <3>1, Zenon DEF Agrees
  <2>5. p \in k + 1 .. l + 1 \/ p = l + 2 \/ ~(p \in k + 1 .. l + 2)
    BY <1>k
  <2> QED BY <2>2, <2>3, <2>4, <2>5, Zenon
<1>8. cli_puts(t, s) = [text |-> Trim(Prompt \o b), col |-> t.col + Len(s)]
  BY <1>1, <1>6, <1>7, PutsLine, Zenon
<1>9. t.col + Len(s) = l + 2
  <2>1. k + (n + 1) = l + 2
    BY <1>k, <1>n
  <2> QED BY <1>2, <1>6, <2>1, Zenon
<1>10. Rubout(t, d) = [text |-> Trim(Prompt \o b), col |-> 1 + d.cursor]
  <2> DEFINE x == Trim(Prompt \o b)
  <2> HIDE DEF x
  <2> DEFINE y == l + 2
             z == l - d.cursor + 1
  <2>1. y \in Int /\ z \in Int /\ z <= y /\ y - z = 1 + d.cursor
    <3>1. \A i, j \in Nat : LET m == i + 2
                               q == i - j + 1
                           IN m \in Int /\ q \in Int /\ (j <= i => q <= m) /\ m - q = 1 + j
      OBVIOUS
    <3> QED BY <1>1, <3>1
  <2> HIDE DEF y, z
  <2>2. term_cursor_back([text |-> x, col |-> y], z) = [text |-> x, col |-> y - z]
    BY <2>1, CursorBack
  <2> QED BY <1>4, <1>8, <1>9, <2>1, <2>2, Zenon DEF x, y, z
<1> QED BY <1>10 DEF Showing, b

\* The prompt alone, and a line drawn anew.
LEMMA FreshLine ==
  ASSUME NEW b \in Seq(Chars)
  PROVE  cli_puts(NewLine, Prompt \o b) = [text |-> Trim(Prompt \o b), col |-> 1 + Len(b)]
<1> DEFINE s == Prompt \o b
<1>1. s \in Seq(Glyphs) /\ Len(s) = 1 + Len(b)
  BY PromptedLine
<1>2. NewLine \in Screens /\ NewLine.text = <<>> /\ NewLine.col = 0
  BY DEF NewLine, Screens
<1> HIDE DEF s
<1>3. \A k \in Nat : At(s, k) = IF k \in NewLine.col + 1 .. NewLine.col + Len(s) THEN s[k - NewLine.col]
                                ELSE At(NewLine.text, k)
  <2> SUFFICES ASSUME NEW k \in Nat
               PROVE  At(s, k) = IF k \in 0 + 1 .. 0 + Len(s) THEN s[k - 0] ELSE At(<<>>, k)
    BY <1>2, Zenon
  <2>1. k - 0 = k /\ 0 + 1 .. 0 + Len(s) = 1 .. Len(s) /\ ~(k \in 1 .. Len(<<>>))
    BY <1>1
  <2> QED BY <2>1, Zenon DEF At
<1>4. cli_puts(NewLine, s) = [text |-> Trim(s), col |-> NewLine.col + Len(s)]
  BY <1>1, <1>2, <1>3, PutsShows, Zenon
<1>5. NewLine.col + Len(s) = 1 + Len(b)
  BY <1>1, <1>2
<1> QED BY <1>4, <1>5 DEF s

\* The prompt after an empty line.
LEMMA FreshPrompt ==
  cli_puts(NewLine, Prompt) = [text |-> Trim(Prompt \o <<>>), col |-> 1]
<1>1. <<>> \in Seq(Chars) /\ 1 + Len(<<>>) = 1
  OBVIOUS
<1>2. Prompt \o <<>> = Prompt
  BY DEF Prompt
<1>3. cli_puts(NewLine, Prompt \o <<>>) = [text |-> Trim(Prompt \o <<>>), col |-> 1 + Len(<<>>)]
  BY <1>1, FreshLine, Zenon
<1> QED BY <1>1, <1>2, <1>3, Zenon

\* A screen that shows line b agrees with line e as far as the two have the same characters.
LEMMA SamePrefix ==
  ASSUME NEW x, NEW b \in Seq(Chars), NEW e \in Seq(Chars), \A p \in Nat : At(x, p) = CellOf(b, p),
         NEW n \in Nat, n <= Len(b), n <= Len(e), \A j \in 1 .. n : b[j] = e[j],
         NEW hi \in Nat, Len(b) + 1 <= hi, Len(e) + 1 <= hi
  PROVE  Agrees(x, e, n + 1, hi)
<1>0. Len(b) \in Nat /\ Len(e) \in Nat
  OBVIOUS
<1>1. ASSUME NEW p \in Nat, p <= n + 1 \/ p > hi PROVE CellOf(b, p) = CellOf(e, p)
  <2>1. CASE p = 1
    BY <2>1, Zenon DEF CellOf
  <2>2. CASE p \in 2 .. n + 1
    <3>1. p # 1 /\ p - 1 \in 1 .. n /\ p - 1 \in 1 .. Len(b) /\ p - 1 \in 1 .. Len(e)
      BY <1>0, <2>2
    <3>2. b[p - 1] = e[p - 1]
      BY <3>1
    <3> QED BY <3>1, <3>2, Zenon DEF CellOf, At
  <2>3. CASE p = 0 \/ p > hi
    <3>1. p # 1 /\ ~(p - 1 \in 1 .. Len(b)) /\ ~(p - 1 \in 1 .. Len(e))
      BY <1>0, <2>3
    <3> QED BY <3>1, Zenon DEF CellOf, At
  <2>4. p = 1 \/ p \in 2 .. n + 1 \/ p = 0 \/ p > hi
    BY <1>1
  <2> QED BY <2>1, <2>2, <2>3, <2>4, Zenon
<1> QED BY <1>1, Zenon DEF Agrees

\* The beginning of a line is that of the line made from it.
LEMMA KeptPrefix ==
  ASSUME NEW s \in Seq(Chars), NEW k \in 0 .. Len(s), NEW r \in Seq(Chars)
  PROVE  \A j \in 1 .. k : (SubSeq(s, 1, k) \o r)[j] = s[j]
<1> DEFINE a == SubSeq(s, 1, k)
<1>1. Len(s) \in Nat /\ k \in Nat /\ k <= Len(s)
  OBVIOUS
<1>2. a \in Seq(Chars) /\ Len(a) = k
  BY LineParts
<1>3. \A j \in 1 .. k : a[j] = s[j]
  BY <1>1
<1> HIDE DEF a
<1>4. \A j \in 1 .. Len(a) + Len(r) : (a \o r)[j] = IF j <= Len(a) THEN a[j] ELSE r[j - Len(a)]
  BY <1>2, ConcatProperties, Zenon
<1>5. \A j \in 1 .. k : j \in 1 .. Len(a) + Len(r) /\ j <= Len(a)
  <2>1. Len(r) \in Nat
    OBVIOUS
  <2> QED BY <1>1, <1>2, <2>1
<1>6. \A j \in 1 .. k : (a \o r)[j] = s[j]
  BY <1>3, <1>4, <1>5, Zenon
<1> QED BY <1>6 DEF a

\* A character typed.
LEMMA InsertShows ==
  ASSUME NEW t, NEW c, Edited(c), Showing(t, c), NEW ch \in Chars,
         insert_default_char(c, ch).len # c.len
  PROVE  LET d == insert_default_char(c, ch) IN Showing(Redraw(t, d, d.cursor), d)
<1> DEFINE d == insert_default_char(c, ch)
           a == SubSeq(c.buffer, 1, c.cursor)
           b == SubSeq(c.buffer, c.cursor + 1, c.len)
<1>1. /\ c.buffer \in Seq(Chars) /\ c.len = Len(c.buffer) /\ c.len \in Nat /\ c.cursor \in Nat
      /\ c.cursor <= c.len /\ c \in Clis
  BY EditedLine
<1>2. d = [c EXCEPT !.buffer = a \o <<ch>> \o b, !.len = @ + 1, !.cursor = @ + 1]
  BY DEF insert_default_char
<1>3. Edited(d)
  BY InsertEdits
<1>4. d.buffer \in Seq(Chars) /\ d.len = Len(d.buffer)
  BY <1>3, EditedLine
<1> HIDE DEF d, a, b
<1>5. d.buffer = a \o <<ch>> \o b /\ d.len = c.len + 1 /\ d.cursor = c.cursor + 1
  BY <1>1, <1>2 DEF Clis
<1>6. \A j \in 1 .. c.cursor : c.buffer[j] = d.buffer[j]
  <2> DEFINE s == c.buffer
             k == c.cursor
             w == <<ch>>
             r == w \o b
  <2>1. s \in Seq(Chars) /\ k \in 0 .. Len(s) /\ a = SubSeq(s, 1, k)
    BY <1>1 DEF a
  <2>2. a \in Seq(Chars)
    <3> HIDE DEF s, k
    <3> QED BY <2>1, LineParts
  <2>3. b \in Seq(Chars)
    <3> HIDE DEF s, k
    <3>1. b = SubSeq(s, k + 1, Len(s))
      BY <1>1 DEF b, s, k
    <3> QED BY <2>1, <3>1, LineParts
  <2>4. w \in Seq(Chars) /\ d.buffer = a \o w \o b
    BY <1>5
  <2> HIDE DEF w
  <2>5. r \in Seq(Chars)
    BY <2>3, <2>4, ConcatProperties, Zenon
  <2>6. d.buffer = a \o r
    BY <2>2, <2>3, <2>4, ConcatAssociative
  <2> HIDE DEF s, k, r
  <2>7. \A j \in 1 .. k : (a \o r)[j] = s[j]
    BY <2>1, <2>5, KeptPrefix, Zenon
  <2> QED BY <2>6, <2>7 DEF s, k
<1>7. t \in Screens /\ t.col = 1 + c.cursor /\ \A p \in Nat : At(t.text, p) = CellOf(c.buffer, p)
  BY ShownLine
<1>8. /\ c.cursor <= Len(c.buffer) /\ c.cursor <= Len(d.buffer) /\ d.len + 1 \in Nat
      /\ Len(c.buffer) + 1 <= d.len + 1 /\ Len(d.buffer) + 1 <= d.len + 1
  BY <1>1, <1>4, <1>5
<1>9. Agrees(t.text, d.buffer, c.cursor + 1, d.len + 1)
  BY <1>1, <1>4, <1>6, <1>7, <1>8, SamePrefix, Zenon
<1>10. d.cursor \in Nat /\ 1 <= d.cursor /\ d.cursor <= d.len + 1 /\ t.col = d.cursor
  BY <1>1, <1>5, <1>7
<1>11. Showing(Redraw(t, d, d.cursor), d)
  BY <1>3, <1>5, <1>7, <1>9, <1>10, RedrawShows, Zenon
<1> QED BY <1>11 DEF d

\* A character taken out: u is the terminal with its cursor there.
LEMMA WithoutShows ==
  ASSUME NEW t, NEW c, Edited(c), Showing(t, c), NEW d, Edited(d), NEW u,
         NEW k \in Nat, k < c.len, d.buffer = Without(c, k).buffer, d.cursor = k,
         u = [text |-> t.text, col |-> 1 + k]
  PROVE  Showing(Rubout(u, d), d)
<1> DEFINE s == c.buffer
           e == d.buffer
           a == SubSeq(s, 1, k)
           b == SubSeq(s, k + 2, c.len)
<1>1. s \in Seq(Chars) /\ c.len = Len(s) /\ c.len \in Nat /\ c \in Clis
  BY EditedLine
<1>2. e \in Seq(Chars) /\ d.len = Len(e)
  BY EditedLine
<1>3. e = a \o b
  BY <1>1 DEF Without, Clis
<1>4. t \in Screens /\ \A p \in Nat : At(t.text, p) = CellOf(s, p)
  BY ShownLine
<1>5. u \in Screens /\ u.text = t.text /\ u.col = 1 + d.cursor
  BY <1>4 DEF Screens
<1>6. d.cursor = k /\ k \in Nat /\ k < c.len
  OBVIOUS
<1>7. b \in Seq(Chars) /\ Len(b) = Len(s) - (k + 1) /\ a \in Seq(Chars) /\ Len(a) = k
  <2> DEFINE j == k + 1
  <2>1. j \in 0 .. Len(s) /\ k + 2 = j + 1 /\ k \in 0 .. Len(s)
    BY <1>1
  <2> HIDE DEF j, s
  <2>2. SubSeq(s, j + 1, Len(s)) \in Seq(Chars) /\ Len(SubSeq(s, j + 1, Len(s))) = Len(s) - j
        /\ SubSeq(s, 1, k) \in Seq(Chars) /\ Len(SubSeq(s, 1, k)) = k
    BY <1>1, <2>1, LineParts
  <2> QED BY <1>1, <2>1, <2>2 DEF j
<1> HIDE DEF s, e, b
<1>8. \A j \in 1 .. k : e[j] = s[j]
  <2>1. k \in 0 .. Len(s)
    BY <1>1, <1>6
  <2> QED BY <1>1, <1>3, <1>7, <2>1, KeptPrefix, Zenon
<1> HIDE DEF a
<1>9. Len(e) = Len(s) - 1
  <2>1. Len(a \o b) = Len(a) + Len(b)
    BY <1>7, ConcatProperties, Zenon
  <2> QED BY <1>1, <1>3, <1>6, <1>7, <2>1
<1>10. /\ k <= Len(s) /\ k <= Len(e) /\ d.len + 2 \in Nat /\ Len(s) + 1 <= d.len + 2
       /\ Len(e) + 1 <= d.len + 2
  BY <1>1, <1>2, <1>6, <1>9
<1>11. Agrees(t.text, e, k + 1, d.len + 2)
  BY <1>1, <1>2, <1>4, <1>6, <1>8, <1>10, SamePrefix, Zenon
<1>12. k + 1 = 1 + d.cursor
  OBVIOUS
<1> QED BY <1>5, <1>11, <1>12, RuboutShows DEF e

\* The cursor moved within the line.
LEMMA MovedShows ==
  ASSUME NEW t, NEW c, Edited(c), Showing(t, c), NEW k \in Nat, NEW d, d.buffer = c.buffer, d.cursor = k
  PROVE  Showing(Moved(t, c, d), d)
<1> DEFINE x == Trim(Prompt \o c.buffer)
           m == c.cursor
<1>1. m \in Nat /\ 1 + m \in Int
  BY EditedLine
<1>2. t = [text |-> x, col |-> 1 + m]
  BY DEF Showing
<1>3. Moved(t, c, d) = IF k < m THEN term_cursor_back(t, m - k) ELSE term_cursor_fwd(t, k - m)
  BY DEF Moved
<1> HIDE DEF x, m
<1>4. CASE k < m
  <2> DEFINE y == 1 + m
             z == m - k
  <2>1. y \in Int /\ z \in Int /\ z <= y /\ y - z = 1 + k
    BY <1>1
  <2> HIDE DEF y, z
  <2>2. term_cursor_back([text |-> x, col |-> y], z) = [text |-> x, col |-> y - z]
    BY <2>1, CursorBack
  <2>3. Moved(t, c, d) = [text |-> x, col |-> 1 + k]
    BY <1>2, <1>3, <1>4, <2>1, <2>2, Zenon DEF y, z
  <2> QED BY <2>3 DEF Showing, x
<1>5. CASE ~(k < m)
  <2>1. 1 + m + (k - m) = 1 + k
    BY <1>1
  <2>2. term_cursor_fwd([text |-> x, col |-> 1 + m], k - m) = [text |-> x, col |-> 1 + m + (k - m)]
    BY DEF term_cursor_fwd
  <2>3. Moved(t, c, d) = [text |-> x, col |-> 1 + k]
    BY <1>2, <1>3, <1>5, <2>1, <2>2, Zenon
  <2> QED BY <2>3 DEF Showing, x
<1> QED BY <1>4, <1>5

\* The rest of the line cut off.
LEMMA CutShows ==
  ASSUME NEW t, NEW c, Edited(c), Showing(t, c), NEW d, d.cursor = c.cursor,
         d.buffer = SubSeq(c.buffer, 1, c.cursor)
  PROVE  Showing(clear_eol(t), d)
<1> DEFINE s == c.buffer
           k == c.cursor
           e == d.buffer
           u == Prompt \o e
<1>1. s \in Seq(Chars) /\ k \in Nat /\ k <= Len(s) /\ k \in 0 .. Len(s) /\ Len(s) \in Nat
  BY EditedLine
<1>2. t \in Screens /\ t.col = 1 + k /\ \A p \in Nat : At(t.text, p) = CellOf(s, p)
  BY ShownLine
<1>3. e = SubSeq(s, 1, k) /\ d.cursor = k
  OBVIOUS
<1> HIDE DEF s, k, e
<1>4. e \in Seq(Chars) /\ Len(e) = k /\ \A j \in 1 .. k : e[j] = s[j]
  <2>1. e \in Seq(Chars) /\ Len(e) = k
    BY <1>1, <1>3, LineParts
  <2>2. \A j \in 1 .. k : e[j] = s[j]
    BY <1>1, <1>3
  <2> QED BY <2>1, <2>2
<1>5. u \in Seq(Glyphs) /\ \A p \in Nat : At(u, p) = CellOf(e, p)
  BY <1>4, PromptedLine
<1> HIDE DEF u
<1>6. ASSUME NEW p \in Nat
      PROVE  At(u, p) = IF p <= t.col THEN At(t.text, p) ELSE Blank
  <2>1. CASE p \in 2 .. 1 + k
    <3>1. p # 1 /\ p - 1 \in 1 .. k /\ p - 1 \in 1 .. Len(s) /\ p - 1 \in 1 .. Len(e) /\ p <= 1 + k
      BY <1>1, <1>4, <2>1
    <3>2. e[p - 1] = s[p - 1]
      BY <1>4, <3>1
    <3>3. CellOf(e, p) = CellOf(s, p)
      BY <3>1, <3>2, Zenon DEF CellOf, At
    <3> QED BY <1>2, <1>5, <3>1, <3>3, Zenon
  <2>2. CASE p = 1
    <3>1. p <= 1 + k
      BY <1>1, <2>2
    <3>2. CellOf(e, p) = CellOf(s, p)
      BY <2>2, Zenon DEF CellOf
    <3> QED BY <1>2, <1>5, <3>1, <3>2, Zenon
  <2>3. CASE p = 0
    <3>1. p # 1 /\ p <= 1 + k /\ ~(p - 1 \in 1 .. Len(s)) /\ ~(p - 1 \in 1 .. Len(e))
      BY <1>1, <1>4, <2>3
    <3>2. CellOf(e, p) = CellOf(s, p)
      BY <3>1, Zenon DEF CellOf, At
    <3> QED BY <1>2, <1>5, <3>1, <3>2, Zenon
  <2>4. CASE p > 1 + k
    <3>1. p # 1 /\ ~(p <= 1 + k) /\ ~(p - 1 \in 1 .. Len(e))
      BY <1>1, <1>4, <2>4
    <3>2. CellOf(e, p) = Blank
      BY <3>1, Zenon DEF CellOf, At
    <3> QED BY <1>2, <1>5, <3>1, <3>2, Zenon
  <2>5. p \in 2 .. 1 + k \/ p = 1 \/ p = 0 \/ p > 1 + k
    BY <1>1
  <2> QED BY <2>1, <2>2, <2>3, <2>4, <2>5, Zenon
<1>7. clear_eol(t) = [text |-> Trim(u), col |-> t.col]
  BY <1>2, <1>5, <1>6, ClearShows, Zenon
<1> QED BY <1>2, <1>3, <1>7, Zenon DEF Showing, u, e

\* Another line written over the one shown, and the rest cleared.
LEMMA RecallShows ==
  ASSUME NEW t, NEW c, Edited(c), Showing(t, c), NEW d, Edited(d), d.cursor = d.len
  PROVE  Showing(clear_eol(cli_puts(term_cursor_back(t, c.cursor), d.buffer)), d)
<1> DEFINE x == t.text
           e == d.buffer
           n == Len(e)
           u == Prompt \o e
           v == [text |-> x, col |-> 1]
           w == cli_puts(v, e)
<1>1. t \in Screens /\ t.col = 1 + c.cursor /\ \A p \in Nat : At(x, p) = CellOf(c.buffer, p)
  BY ShownLine
<1>2. e \in Seq(Chars) /\ e \in Seq(Glyphs) /\ d.cursor = n
  BY EditedLine
<1>3. term_cursor_back(t, c.cursor) = v /\ v \in Screens
  <2> DEFINE m == c.cursor
             y == 1 + m
  <2>1. y \in Int /\ m \in Int /\ m <= y /\ y - m = 1
    BY EditedLine
  <2>2. t = [text |-> x, col |-> y] /\ x \in Seq(Glyphs)
    BY <1>1 DEF Screens
  <2> HIDE DEF m, y, x
  <2>3. term_cursor_back([text |-> x, col |-> y], m) = [text |-> x, col |-> y - m]
    BY <2>1, CursorBack
  <2>4. v \in Screens
    BY <2>2 DEF Screens
  <2> QED BY <2>1, <2>2, <2>3, <2>4, Zenon DEF m
<1>4. v.text = x /\ v.col = 1
  OBVIOUS
<1>5. u \in Seq(Glyphs) /\ \A p \in Nat : At(u, p) = CellOf(e, p)
  BY <1>2, PromptedLine
<1> HIDE DEF x, e, v
<1>6. PICK y \in Seq(Glyphs) :
           /\ w = [text |-> Trim(y), col |-> v.col + n]
           /\ \A p \in Nat : At(y, p) = IF p \in v.col + 1 .. v.col + n THEN e[p - v.col] ELSE At(v.text, p)
  BY <1>2, <1>3, PutsCells
<1>7. n \in Nat /\ n = Len(e)
  BY <1>2
<1> HIDE DEF u, w, n
<1>8. Trim(y) \in Seq(Glyphs) /\ \A p \in Nat : At(Trim(y), p) = At(y, p)
  BY TrimKeeps
<1>9. w \in Screens /\ w.text = Trim(y) /\ w.col = 1 + n
  BY <1>4, <1>6, <1>7, <1>8 DEF Screens
<1>10. ASSUME NEW p \in Nat
       PROVE  At(u, p) = IF p <= w.col THEN At(w.text, p) ELSE Blank
  <2>1. CASE p \in 1 + 1 .. 1 + n
    <3>1. p # 1 /\ p - 1 \in 1 .. Len(e) /\ p <= 1 + n
      BY <1>7, <2>1
    <3>2. At(w.text, p) = e[p - 1]
      BY <1>4, <1>6, <1>8, <1>9, <2>1, Zenon
    <3>3. CellOf(e, p) = e[p - 1]
      BY <3>1, Zenon DEF CellOf, At
    <3> QED BY <1>5, <1>9, <3>1, <3>2, <3>3, Zenon
  <2>2. CASE p <= 1
    <3>1. ~(p \in 1 + 1 .. 1 + n) /\ p <= 1 + n /\ (p = 1 \/ (p # 1 /\ ~(p - 1 \in 1 .. Len(e))))
      BY <1>7, <2>2
    <3>2. At(w.text, p) = At(x, p)
      BY <1>4, <1>6, <1>8, <1>9, <3>1, Zenon
    <3>3. p = 1 \/ (p # 1 /\ ~(p - 1 \in 1 .. Len(c.buffer)))
      BY <2>2
    <3>4. CellOf(e, p) = CellOf(c.buffer, p)
      BY <3>1, <3>3, Zenon DEF CellOf, At
    <3> QED BY <1>1, <1>5, <1>9, <3>1, <3>2, <3>4, Zenon
  <2>3. CASE p > 1 + n
    <3>1. p # 1 /\ ~(p <= 1 + n) /\ ~(p - 1 \in 1 .. Len(e))
      BY <1>7, <2>3
    <3>2. CellOf(e, p) = Blank
      BY <3>1, Zenon DEF CellOf, At
    <3> QED BY <1>5, <1>9, <3>1, <3>2, Zenon
  <2>4. p \in 1 + 1 .. 1 + n \/ p <= 1 \/ p > 1 + n
    BY <1>7
  <2> QED BY <2>1, <2>2, <2>3, <2>4, Zenon
<1>11. clear_eol(w) = [text |-> Trim(u), col |-> w.col]
  BY <1>5, <1>9, <1>10, ClearShows, Zenon
<1>12. Showing(clear_eol(w), d)
  BY <1>2, <1>9, <1>11, Zenon DEF Showing, u, e, n
<1> QED BY <1>3, <1>12, Zenon DEF w, e

\* The line found by a search is written anew; without a search the screen stays.
LEMMA FoundShows ==
  ASSUME NEW t, NEW c, Edited(c), ~c.searching => Showing(t, c)
  PROVE  Showing(ShowFound(t, c), EndSearch(c))
<1>1. CASE c.searching
  <2> DEFINE e == stop_search(c)
  <2>1. Edited(e)
    BY StopSearchEdits DEF Edited
  <2>2. e.cursor = Len(e.buffer)
    <3> DEFINE found == get_history_search(c)
               text == IF found = {} THEN <<>> ELSE CHOOSE h \in found : TRUE
               l == Len(text)
               f == [c EXCEPT !.buffer = text, !.len = l, !.cursor = l, !.searching = FALSE]
    <3>1. e = f
      BY DEF stop_search
    <3>2. c \in Clis
      BY DEF Edited
    <3> HIDE DEF text, l
    <3>3. f.buffer = text /\ f.cursor = l
      BY <3>2 DEF Clis
    <3> QED BY <3>1, <3>3 DEF l
  <2>3. ShowFound(t, c) = cli_puts(NewLine, Prompt \o e.buffer) /\ EndSearch(c) = e
    BY <1>1 DEF ShowFound, EndSearch
  <2> HIDE DEF e
  <2>4. cli_puts(NewLine, Prompt \o e.buffer) = [text |-> Trim(Prompt \o e.buffer), col |-> 1 + Len(e.buffer)]
    BY <2>1, EditedLine, FreshLine
  <2> QED BY <2>2, <2>3, <2>4, Zenon DEF Showing
<1>2. CASE ~c.searching
  BY <1>2, Zenon DEF ShowFound, EndSearch
<1> QED BY <1>1, <1>2

\* The keys of an escape sequence.
LEMMA CsiShows ==
  ASSUME NEW t, NEW c, Edited(c), NEW ch, ~c.searching => Showing(t, c),
         ~(c.searching /\ ch \in {"A", "B"}), ~CsiKey(c, ch).searching
  PROVE  Showing(CsiEcho(t, c, CsiKey(c, ch), ch), CsiKey(c, ch))
<1> DEFINE d == CsiKey(c, ch)
           n == IF c.counter = 0 THEN 1 ELSE c.counter
           e == Csi(c, ch, n)
           f == [e EXCEPT !.have_csi = FALSE, !.have_escape = FALSE, !.counter = 0]
<1>1. /\ c \in Clis /\ c.len \in Nat /\ c.cursor \in Nat /\ c.cursor <= c.len /\ c.history_pos \in Int
      /\ c.counter \in Nat
  BY DEF Edited, Clis
<1>2. CASE ch \in Digits /\ c.counter < 100
  <2>1. \E k \in Nat : d = [c EXCEPT !.counter = k]
    <3> DEFINE k == c.counter * 10 + (IF ch = "1" THEN 1 ELSE 3)
    <3>1. k \in Nat
      BY <1>1
    <3>2. d = [c EXCEPT !.counter = k]
      BY <1>2, Zenon DEF CsiKey
    <3> HIDE DEF d, k
    <3> QED BY <3>1, <3>2
  <2>2. CsiEcho(t, c, d, ch) = t
    BY <1>2 DEF CsiEcho, Digits
  <2> HIDE DEF d
  <2>3. d.buffer = c.buffer /\ d.cursor = c.cursor /\ d.searching = c.searching
    BY <1>1, <2>1 DEF Clis
  <2>4. ~d.searching
    BY DEF d
  <2> QED BY <2>2, <2>3, <2>4, Zenon DEF Showing, d
<1>3. CASE ~(ch \in Digits /\ c.counter < 100)
  <2>1. n \in Nat
    BY <1>1
  <2>2. d = f
    BY <1>3, Zenon DEF CsiKey
  <2> HIDE DEF n
  <2>3. Edited(e) /\ Edited(d)
    BY <2>1, CsiEdits, CsiKeyEdits
  <2>s. ~d.searching
    OBVIOUS
  <2> HIDE DEF d
  <2>4. /\ d.buffer = e.buffer /\ d.cursor = e.cursor /\ d.len = e.len /\ d.searching = e.searching
    <3> HIDE DEF e
    <3> QED BY <2>2, <2>3 DEF Edited, Clis
  <2>5. CASE ch \in {"A", "B"}
    <3>1. CsiEcho(t, c, d, ch) = clear_eol(cli_puts(term_cursor_back(t, c.cursor), d.buffer))
      BY <2>5 DEF CsiEcho
    <3>2. Showing(t, c)
      BY <2>5
    <3>3. \E i, j \in Int : e = Recall(c, i, j)
      <4>1. CASE ch = "A"
        <5> DEFINE i == c.history_pos + 1
                   j == c.history_pos
        <5>1. i \in Int /\ j \in Int
          BY <1>1
        <5>2. Csi(c, "A", n) = Recall(c, i, j)
          BY Zenon DEF Csi
        <5> HIDE DEF i, j
        <5> QED BY <4>1, <5>1, <5>2, Zenon
      <4>2. CASE ch = "B"
        <5> DEFINE i == c.history_pos - 1
                   j == -1
        <5>1. i \in Int /\ j \in Int
          BY <1>1
        <5>2. ch = "B" => e = Recall(c, i, j)
          BY DEF Csi
        <5> HIDE DEF i, j, e
        <5> QED BY <4>2, <5>1, <5>2, Zenon
      <4> QED BY <2>5, <4>1, <4>2
    <3> HIDE DEF e
    <3>4. e.cursor = e.len
      <4>1. PICK i \in Int, j \in Int : e = Recall(c, i, j)
        BY <3>3
      <4>2. CASE get_history(c, i) # {}
        <5> DEFINE h == CHOOSE h \in get_history(c, i) : TRUE
                   l == Len(h)
        <5>1. e = [c EXCEPT !.buffer = h, !.len = l, !.cursor = l, !.history_pos = i]
          BY <4>1, <4>2 DEF Recall, Show
        <5> HIDE DEF h, l
        <5> QED BY <1>1, <5>1 DEF Clis
      <4>3. CASE get_history(c, i) = {}
        <5> DEFINE g == [c EXCEPT !.buffer = <<>>]
                   r == reset_line(g)
        <5>1. e = [r EXCEPT !.history_pos = j]
          BY <4>1, <4>3 DEF Recall
        <5>2. <<>> \in Lines
          BY CliAssumption DEF Lines
        <5>3. g \in Clis
          BY <1>1, <5>2 DEF Clis
        <5> HIDE DEF g
        <5>4. r \in Clis /\ r.len = 0 /\ r.cursor = 0
          BY <5>3, ResetEdits
        <5> HIDE DEF r
        <5> QED BY <5>1, <5>4 DEF Clis
      <4> QED BY <4>2, <4>3
    <3>5. d.cursor = d.len
      BY <2>4, <3>4
    <3>6. Showing(clear_eol(cli_puts(term_cursor_back(t, c.cursor), d.buffer)), d)
      BY <2>3, <3>2, <3>5, RecallShows, Zenon
    <3> QED BY <3>1, <3>6 DEF d
  <2>6. CASE ch \in {"C", "D", "F", "H"}
    <3>1. CsiEcho(t, c, d, ch) = Moved(t, c, d)
      BY <2>6 DEF CsiEcho
    <3>2. e = c \/ \E k \in Nat : k <= c.len /\ e = [c EXCEPT !.cursor = k]
      <4>1. CASE ch = "C"
        <5>1. e = IF c.cursor <= c.len - n THEN [c EXCEPT !.cursor = c.cursor + n] ELSE c
          BY <4>1 DEF Csi
        <5> HIDE DEF e
        <5> QED BY <1>1, <2>1, <5>1
      <4>2. CASE ch = "D"
        <5>1. e = IF c.cursor >= n THEN [c EXCEPT !.cursor = c.cursor - n] ELSE c
          BY <4>2 DEF Csi
        <5> HIDE DEF e
        <5> QED BY <1>1, <2>1, <5>1
      <4>3. CASE ch \in {"F", "H"}
        <5>1. e = [c EXCEPT !.cursor = c.len] \/ e = [c EXCEPT !.cursor = 0]
          BY <4>3 DEF Csi
        <5> HIDE DEF e
        <5> QED BY <1>1, <5>1
      <4> QED BY <2>6, <4>1, <4>2, <4>3
    <3> HIDE DEF e
    <3>3. e.buffer = c.buffer /\ e.searching = c.searching /\ e.cursor \in Nat
      BY <1>1, <3>2 DEF Clis
    <3>4. Showing(t, c)
      BY <2>4, <2>s, <3>3
    <3>5. d.buffer = c.buffer /\ d.cursor \in Nat
      BY <2>4, <3>3
    <3>6. Showing(Moved(t, c, d), d)
      BY <3>4, <3>5, MovedShows, Zenon
    <3> QED BY <3>1, <3>6 DEF d
  <2>7. CASE ch \notin {"A", "B", "C", "D", "F", "H"}
    <3>1. e = c \/ (ch = "~" /\ c.cursor < c.len /\ e = Without(c, c.cursor))
      BY <2>7 DEF Csi
    <3>2. CsiEcho(t, c, d, ch) = IF ch = "~" /\ d.len < c.len THEN Rubout(t, d) ELSE t
      BY <2>7 DEF CsiEcho
    <3> HIDE DEF e
    <3>3. CASE e = c
      <4>1. Showing(t, c)
        BY <2>4, <2>s, <3>3
      <4>2. ~(d.len < c.len)
        BY <1>1, <2>4, <3>3
      <4> QED BY <2>4, <3>2, <3>3, <4>1, <4>2, Zenon DEF Showing, d
    <3>4. CASE ch = "~" /\ c.cursor < c.len /\ e = Without(c, c.cursor)
      <4> DEFINE k == c.cursor
                 u == [text |-> t.text, col |-> 1 + k]
                 b == SubSeq(c.buffer, 1, k) \o SubSeq(c.buffer, k + 2, c.len)
      <4>1. e = [c EXCEPT !.buffer = b, !.len = @ - 1]
        BY <3>4 DEF Without
      <4> HIDE DEF b
      <4>2. e.searching = c.searching /\ e.len = c.len - 1 /\ e.cursor = k
        BY <1>1, <4>1 DEF Clis
      <4>3. Showing(t, c) /\ d.len < c.len /\ d.cursor = k
        BY <1>1, <2>4, <2>s, <4>2
      <4>4. t \in Screens /\ t.col = 1 + k
        BY <4>3, ShownLine
      <4>5. t = u
        BY <4>4 DEF Screens
      <4>6. k \in Nat /\ k < c.len /\ d.buffer = Without(c, k).buffer
        BY <1>1, <2>4, <3>4
      <4> HIDE DEF u, k
      <4>7. Showing(Rubout(u, d), d)
        BY <2>3, <4>3, <4>6, WithoutShows, Zenon DEF u
      <4> QED BY <3>2, <3>4, <4>3, <4>5, <4>7, Zenon DEF d
    <3> QED BY <3>1, <3>3, <3>4
  <2> QED BY <2>5, <2>6, <2>7
<1> QED BY <1>2, <1>3

\* The characters and keys outside an escape sequence.
LEMMA PlainShows ==
  ASSUME NEW t, NEW c, Edited(c), NEW ch,
         ch \in Chars \cup {"^A", "^C", "^E", "^K", "^L", "^R", "bs", "esc"}
                \cup (IF c.have_escape THEN {"["} ELSE {}),
         ch # "nl", ch \notin {"^C", "^L"} /\ ~c.searching => Showing(t, c),
         ~PlainKey(c, ch).searching
  PROVE  Showing(PlainEcho(t, c, PlainKey(c, ch), ch), PlainKey(c, ch))
<1> DEFINE d == PlainKey(c, ch)
           x == PlainEcho(t, c, d, ch)
<1>1. /\ c \in Clis /\ c.len \in Nat /\ c.cursor \in Nat /\ c.cursor <= c.len
      /\ c.buffer \in Seq(Chars) /\ c.len = Len(c.buffer)
  BY EditedLine
<1>2. ~d.searching
  OBVIOUS
<1>3. CASE ch = "^A"
  <2>1. PlainKey(c, "^A") = [c EXCEPT !.cursor = 0] /\ \A e : PlainEcho(t, c, e, "^A") = Moved(t, c, e)
    BY Zenon DEF PlainKey, PlainEcho
  <2>2. d = [c EXCEPT !.cursor = 0] /\ x = Moved(t, c, d)
    BY <1>3, <2>1, Zenon
  <2> HIDE DEF d
  <2>3. d.buffer = c.buffer /\ d.cursor = 0 /\ d.searching = c.searching
    BY <1>1, <2>2 DEF Clis
  <2>4. Showing(t, c) /\ 0 \in Nat
    BY <1>2, <1>3, <2>3
  <2>5. Showing(Moved(t, c, d), d)
    BY <2>3, <2>4, MovedShows, Zenon
  <2> QED BY <2>2, <2>5 DEF d
<1>4. CASE ch = "^E"
  <2>1. PlainKey(c, "^E") = [c EXCEPT !.cursor = c.len] /\ \A e : PlainEcho(t, c, e, "^E") = Moved(t, c, e)
    BY Zenon DEF PlainKey, PlainEcho
  <2>2. d = [c EXCEPT !.cursor = c.len] /\ x = Moved(t, c, d)
    BY <1>4, <2>1, Zenon
  <2> HIDE DEF d
  <2>3. d.buffer = c.buffer /\ d.cursor = c.len /\ d.searching = c.searching
    BY <1>1, <2>2 DEF Clis
  <2>4. Showing(t, c)
    BY <1>2, <1>4, <2>3
  <2>5. Showing(Moved(t, c, d), d)
    BY <1>1, <2>3, <2>4, MovedShows, Zenon
  <2> QED BY <2>2, <2>5 DEF d
<1>5. CASE ch = "^C"
  <2>1. d = [reset_line(c) EXCEPT !.buffer = <<>>] /\ x = cli_puts(NewLine, Prompt)
    BY <1>5 DEF PlainKey, PlainEcho
  <2> DEFINE e == reset_line(c)
  <2>2. e \in Clis /\ e.cursor = 0
    BY <1>1, ResetEdits
  <2> HIDE DEF d, e, x
  <2>3. d.buffer = <<>> /\ d.cursor = 0
    BY <2>1, <2>2 DEF Clis, e
  <2>4. Showing(x, d)
    <3>1. 1 + d.cursor = 1
      BY <2>3
    <3> QED BY <2>1, <2>3, <3>1, FreshPrompt, Zenon DEF Showing
  <2> QED BY <2>4 DEF d, x
<1>6. CASE ch = "^L"
  <2>1. d = c /\ x = Redraw(cli_puts(NewLine, Prompt), d, 1)
    BY <1>6 DEF PlainKey, PlainEcho
  <2> DEFINE u == cli_puts(NewLine, Prompt)
             e == <<>>
             p == Prompt \o e
             o == 1
  <2>2. e \in Seq(Chars) /\ Len(e) = 0
    OBVIOUS
  <2>3. u = [text |-> Trim(p), col |-> o]
    BY FreshPrompt
  <2> HIDE DEF e
  <2>4. p \in Seq(Glyphs) /\ \A k \in Nat : At(p, k) = CellOf(e, k)
    BY <2>2, PromptedLine
  <2> HIDE DEF p
  <2>5. Trim(p) \in Seq(Glyphs) /\ \A k \in Nat : At(Trim(p), k) = CellOf(e, k)
    BY <2>4, TrimKeeps
  <2>6. o \in Nat /\ 1 <= o /\ o <= c.len + 1 /\ o = 0 + 1 /\ 0 \in Nat /\ 0 <= Len(c.buffer) /\ 0 <= Len(e)
        /\ c.len + 1 \in Nat /\ Len(e) + 1 <= c.len + 1 /\ Len(c.buffer) + 1 <= c.len + 1
        /\ \A j \in 1 .. 0 : e[j] = c.buffer[j]
    BY <1>1, <2>2
  <2>7. u \in Screens /\ u.col = o /\ u.text = Trim(p)
    BY <2>3, <2>5, <2>6 DEF Screens
  <2> HIDE DEF u, o
  <2>8. Agrees(Trim(p), c.buffer, 0 + 1, c.len + 1)
    BY <1>1, <2>2, <2>5, <2>6, SamePrefix, Zenon
  <2>9. Agrees(u.text, c.buffer, o, c.len + 1)
    BY <2>6, <2>7, <2>8, Zenon
  <2>10. Showing(Redraw(u, c, o), c)
    BY <2>6, <2>7, <2>9, RedrawShows, Zenon
  <2> QED BY <2>1, <2>10, Zenon DEF u, o
<1>7. CASE ch = "^K"
  <2>1. d = [c EXCEPT !.buffer = SubSeq(c.buffer, 1, c.cursor), !.len = c.cursor] /\ x = clear_eol(t)
    BY <1>7 DEF PlainKey, PlainEcho
  <2> DEFINE s == SubSeq(c.buffer, 1, c.cursor)
  <2> HIDE DEF d, s
  <2>2. d.buffer = s /\ d.cursor = c.cursor /\ d.searching = c.searching
    BY <1>1, <2>1 DEF Clis, s
  <2>3. Showing(t, c)
    BY <1>2, <1>7, <2>2 DEF d
  <2>4. Showing(clear_eol(t), d)
    BY <2>2, <2>3, CutShows, Zenon DEF s
  <2> QED BY <2>1, <2>4 DEF d
<1>8. CASE ch = "^R"
  <2>1. d = [c EXCEPT !.searching = TRUE]
    BY <1>8 DEF PlainKey
  <2> HIDE DEF d
  <2>2. d.searching
    BY <1>1, <2>1 DEF Clis
  <2> QED BY <1>2, <2>2 DEF d
<1>9. CASE ch = "bs"
  <2> DEFINE e == EndSearch(c)
             u == ShowFound(t, c)
  <2>1. d = Backspace(e)
        /\ x = IF e.cursor = 0 THEN u ELSE Rubout(term_cursor_back(u, 1), d)
    BY <1>9 DEF PlainKey, PlainEcho
  <2>2. Edited(e) /\ Showing(u, e) /\ Edited(d)
    <3>1. ~c.searching => Showing(t, c)
      BY <1>9
    <3>2. Showing(u, e)
      BY <3>1, FoundShows
    <3> QED BY <2>1, <3>2, EndSearchEdits, BackspaceEdits
  <2> HIDE DEF d, e, u, x
  <2>3. e.cursor \in Nat /\ e.len \in Nat /\ e.cursor <= e.len /\ e \in Clis
    BY <2>2, EditedLine
  <2>4. CASE e.cursor = 0
    <3>1. d = e /\ x = u
      BY <2>1, <2>4 DEF Backspace
    <3> QED BY <2>2, <3>1, Zenon DEF x, d
  <2>5. CASE e.cursor # 0
    <3> DEFINE k == e.cursor - 1
               y == 1 + e.cursor
               o == 1
               g == Without(e, k)
               v == [text |-> u.text, col |-> 1 + k]
    <3>1. k \in Nat /\ k < e.len /\ e.cursor > 0 /\ y \in Int /\ o \in Int /\ o <= y /\ y - o = 1 + k
      BY <2>3, <2>5
    <3>2. d = [g EXCEPT !.cursor = @ - 1]
      BY <2>1, <3>1 DEF Backspace
    <3>g. g = [e EXCEPT !.buffer = SubSeq(@, 1, k) \o SubSeq(@, k + 2, e.len), !.len = @ - 1]
      BY DEF Without
    <3>c. e.cursor - 1 = k
      OBVIOUS
    <3> HIDE DEF k
    <3>k. g \in Clis /\ g.cursor = e.cursor
      <4>1. k \in 0 .. e.len - 1
        BY <2>3, <3>1
      <4> QED BY <2>2, <4>1, WithoutEdits
    <3> HIDE DEF g
    <3>3. d.buffer = g.buffer /\ d.cursor = k
      BY <3>2, <3>c, <3>k DEF Clis
    <3>4. u \in Screens /\ u.col = y
      BY <2>2, ShownLine
    <3>5. u = [text |-> u.text, col |-> y]
      BY <3>4 DEF Screens
    <3> HIDE DEF y, o
    <3>6. term_cursor_back([text |-> u.text, col |-> y], o) = [text |-> u.text, col |-> y - o]
      BY <3>1, CursorBack
    <3>7. term_cursor_back(u, 1) = v
      BY <3>1, <3>5, <3>6, Zenon DEF o
    <3>8. Showing(Rubout(v, d), d)
      BY <2>2, <3>1, <3>3, WithoutShows, Zenon DEF g
    <3>9. x = Rubout(v, d)
      BY <2>1, <2>5, <3>7, Zenon
    <3> QED BY <3>8, <3>9 DEF x, d
  <2> QED BY <2>4, <2>5
<1>10. CASE ch = "esc"
  <2> DEFINE e == EndSearch(c)
             u == ShowFound(t, c)
  <2>1. d = [e EXCEPT !.have_csi = FALSE, !.have_escape = TRUE, !.counter = 0] /\ x = u
    BY <1>10 DEF PlainKey, PlainEcho
  <2>2. Edited(e) /\ Showing(u, e)
    <3>1. ~c.searching => Showing(t, c)
      BY <1>10
    <3>2. Showing(u, e)
      BY <3>1, FoundShows
    <3> QED BY <3>2, EndSearchEdits
  <2> HIDE DEF d, e, u, x
  <2>3. d.buffer = e.buffer /\ d.cursor = e.cursor
    BY <2>1, <2>2 DEF Edited, Clis
  <2>4. Showing(x, d)
    BY <2>1, <2>2, <2>3, Zenon DEF Showing
  <2> QED BY <2>4 DEF d, x
<1>11. CASE ch = "[" /\ c.have_escape
  <2>1. d = [c EXCEPT !.have_csi = TRUE] /\ x = t
    BY <1>11 DEF PlainKey, PlainEcho
  <2> HIDE DEF d, x
  <2>2. d.buffer = c.buffer /\ d.cursor = c.cursor /\ d.searching = c.searching
    BY <1>1, <2>1 DEF Clis
  <2>3. Showing(t, c)
    BY <1>2, <1>11, <2>2 DEF d
  <2>4. Showing(x, d)
    BY <2>1, <2>2, <2>3, Zenon DEF Showing
  <2> QED BY <2>4 DEF d, x
<1>12. CASE /\ ch \notin {"^A", "^C", "^E", "^K", "^L", "^R", "bs", "esc", "nl"}
            /\ ~(ch = "[" /\ c.have_escape)
  <2>1. ch \in Chars
    BY <1>12
  <2>2. d = insert_default_char(c, ch)
    BY <1>12 DEF PlainKey
  <2>3. \A e : PlainEcho(t, c, e, ch) = IF e.len = c.len THEN t ELSE Redraw(t, e, e.cursor)
    BY <1>12 DEF PlainEcho
  <2>4. x = IF d.len = c.len THEN t ELSE Redraw(t, d, d.cursor)
    BY <2>3, Zenon
  <2> DEFINE a == SubSeq(c.buffer, 1, c.cursor) \o <<ch>> \o SubSeq(c.buffer, c.cursor + 1, c.len)
  <2>5. d = c \/ d = [c EXCEPT !.buffer = a, !.len = @ + 1, !.cursor = @ + 1]
    BY <2>2 DEF insert_default_char
  <2> HIDE DEF d, x, a
  <2>6. d.searching = c.searching /\ (d.len = c.len => d = c)
    <3>1. CASE d = c
      BY <3>1
    <3>2. CASE d = [c EXCEPT !.buffer = a, !.len = @ + 1, !.cursor = @ + 1]
      <4>1. d.searching = c.searching /\ d.len = c.len + 1
        BY <1>1, <3>2 DEF Clis
      <4>2. c.len + 1 # c.len
        BY <1>1
      <4> QED BY <4>1, <4>2, Zenon
    <3> QED BY <2>5, <3>1, <3>2, Zenon
  <2>7. Showing(t, c)
    BY <1>2, <1>12, <2>6 DEF d
  <2>8. CASE d.len = c.len
    BY <2>4, <2>6, <2>7, <2>8, Zenon DEF d, x
  <2>9. CASE d.len # c.len
    <3>1. Showing(Redraw(t, d, d.cursor), d)
      BY <2>1, <2>2, <2>7, <2>9, InsertShows, Zenon
    <3> QED BY <2>4, <2>9, <3>1, Zenon DEF d, x
  <2> QED BY <2>8, <2>9
<1> QED BY <1>3, <1>4, <1>5, <1>6, <1>7, <1>8, <1>9, <1>10, <1>11, <1>12

\* The editor as the next key finds it: an entered line is gone.
Fresh(c) == [c EXCEPT !.done = FALSE, !.buffer = IF c.done THEN <<>> ELSE @]

\* A line ready for a key.
LEMMA FreshEdits ==
  ASSUME CliInv
  PROVE  /\ Edited(Fresh(cli)) /\ ~Fresh(cli).done /\ Fresh(cli).searching = cli.searching
         /\ Fresh(cli).have_csi = cli.have_csi /\ Fresh(cli).have_escape = cli.have_escape
         /\ Fresh(cli) = IF cli.done THEN [cli EXCEPT !.buffer = <<>>, !.done = FALSE] ELSE cli
<1>1. CASE cli.done
  <2> DEFINE f == [cli EXCEPT !.buffer = <<>>, !.done = FALSE]
  <2>1. cli \in Clis /\ cli.len = 0 /\ cli.cursor = 0
    BY <1>1 DEF CliInv
  <2>2. <<>> \in Lines /\ Len(<<>>) = 0
    BY CliAssumption DEF Lines
  <2>3. Fresh(cli) = f
    BY <1>1, <2>1 DEF Fresh, Clis
  <2>4. /\ f \in Clis /\ f.buffer = <<>> /\ f.len = 0 /\ f.cursor = 0 /\ ~f.done
        /\ f.have_csi = cli.have_csi /\ f.have_escape = cli.have_escape /\ f.searching = cli.searching
    BY <2>1, <2>2 DEF Clis
  <2> HIDE DEF f
  <2>5. Edited(f)
    BY <2>2, <2>4 DEF Edited
  <2> QED BY <1>1, <2>3, <2>4, <2>5, Zenon DEF f
<1>2. CASE ~cli.done
  <2>1. cli \in Clis /\ Edited(cli)
    BY <1>2 DEF CliInv
  <2>2. Fresh(cli) = cli
    BY <1>2, <2>1 DEF Fresh, Clis
  <2> QED BY <1>2, <2>1, <2>2, Zenon
<1> QED BY <1>1, <1>2

\* The terminal shows the line, between any two keys.
ScreenInv ==
  /\ quit => cli.done
  /\ ~torn /\ ~quit /\ ~cli.searching => Showing(term, Fresh(cli))

\* A key.
LEMMA KeyShows ==
  ASSUME CliInv, ScreenInv, NEW ch \in Keys(cli) \cup {"^C"}, Key(ch)
  PROVE  ScreenInv'
<1> DEFINE c == Fresh(cli)
           typed == IF c.have_csi THEN CsiKey(c, ch) ELSE PlainKey(c, ch)
           echo == IF c.have_csi THEN CsiEcho(term, c, cli', ch) ELSE PlainEcho(term, c, cli', ch)
<1>1. /\ Edited(c) /\ ~c.done /\ c.searching = cli.searching
      /\ c.have_csi = cli.have_csi /\ c.have_escape = cli.have_escape
      /\ c = IF cli.done THEN [cli EXCEPT !.buffer = <<>>, !.done = FALSE] ELSE cli
  BY FreshEdits
<1>2. CliInv'
  BY KeyStep
<1>3. /\ ~quit /\ argv' = (IF cli'.done THEN embedded_cli_argc(cli'.buffer) ELSE <<>>)
      /\ quit' = (argv' # <<>> /\ Head(argv') = QuitWord)
      /\ torn' = IF cli'.done THEN cli.have_csi /\ argv' = <<>>
                 ELSE \/ /\ torn /\ ~(ch \in {"^C", "^L"} /\ ~cli.have_csi)
                         /\ ~(ch = "^R" /\ ~cli.searching)
                      \/ cli.have_csi /\ cli.searching /\ ch \in {"A", "B"}
      /\ term' = IF cli'.searching \/ torn' THEN NewLine
                 ELSE IF ~cli'.done \/ quit' THEN echo
                 ELSE cli_puts(IF argv' = <<>> THEN echo ELSE NewLine, Prompt)
  BY Zenon DEF Key, Fresh
<1>4. ch # "nl" => cli' = typed
  BY <1>1, Zenon DEF Key, embedded_cli_insert_char
<1> HIDE DEF c
<1>5. ch # "nl" => ~typed.done
  <2> SUFFICES ASSUME ch # "nl" PROVE ~typed.done
    OBVIOUS
  <2>1. CASE c.have_csi
    BY <1>1, <2>1, CsiKeyEdits
  <2>2. CASE ~c.have_csi
    <3>1. ch \in Chars \cup {"^A", "^C", "^E", "^K", "^L", "^R", "bs", "esc", "nl"}
                 \cup (IF c.have_escape THEN {"["} ELSE {})
      BY <1>1, <2>2 DEF Keys
    <3>2. Edited(c) /\ ~c.done
      BY <1>1
    <3>3. PlainKey(c, ch).done = c.done
      BY <3>1, <3>2, PlainEdits, Zenon
    <3> QED BY <2>2, <3>2, <3>3, Zenon
  <2> QED BY <2>1, <2>2
<1>6. ch = "nl" => cli'.done /\ cli'.cursor = 0
  <2> SUFFICES ASSUME ch = "nl" PROVE cli'.done /\ cli'.cursor = 0
    OBVIOUS
  <2> DEFINE entered == [typed EXCEPT !.done = TRUE]
             ended == EndSearch(entered)
             kept == extend_history(ended)
  <2>1. cli' = reset_line(kept)
    BY <1>1, Zenon DEF Key, embedded_cli_insert_char
  <2>2. typed \in Clis
    <3>1. CASE c.have_csi
      BY <1>1, <3>1, CsiKeyEdits DEF Edited
    <3>2. CASE ~c.have_csi
      <4>1. PlainKey(c, ch) = c
        BY DEF PlainKey
      <4> QED BY <1>1, <3>2, <4>1 DEF Edited
    <3> QED BY <3>1, <3>2
  <2> HIDE DEF typed
  <2>3. entered \in Clis /\ entered.done
    BY <2>2 DEF Clis
  <2> HIDE DEF entered
  <2>4. ended \in Clis /\ ended.done
    <3>1. CASE entered.searching
      BY <2>3, <3>1, StopSearchEdits DEF EndSearch, Edited
    <3>2. CASE ~entered.searching
      BY <2>3, <3>2 DEF EndSearch
    <3> QED BY <3>1, <3>2
  <2> HIDE DEF ended
  <2>5. kept \in Clis /\ kept.done
    BY <2>4, ExtendKeeps
  <2> HIDE DEF kept
  <2> QED BY <2>1, <2>5, ResetEdits
<1>7. quit' => cli'.done
  BY <1>3, Zenon
<1>8. ASSUME ~torn', ~quit', ~cli'.searching PROVE Showing(term', Fresh(cli'))
  <2>1. CASE ch # "nl"
    <3>1. cli' = typed /\ ~cli'.done
      BY <1>4, <1>5, <2>1, Zenon
    <3>2. term' = echo
      BY <1>3, <1>8, <3>1, Zenon
    <3>3. Fresh(cli') = cli'
      <4>1. cli' \in Clis
        BY <1>2 DEF CliInv
      <4> QED BY <3>1, <4>1 DEF Fresh, Clis
    <3>4. (torn => (ch \in {"^C", "^L"} /\ ~c.have_csi) \/ (ch = "^R" /\ ~c.searching))
          /\ ~(c.have_csi /\ c.searching /\ ch \in {"A", "B"})
      BY <1>1, <1>3, <1>8, <3>1, Zenon
    <3>5. ~torn /\ ~c.searching => Showing(term, c)
      BY <1>1, <1>3, Zenon DEF ScreenInv, c
    <3>6. CASE c.have_csi
      <4>1. ch # "^R"
        BY <1>1, <3>6 DEF Keys, Digits
      <4>2. ~c.searching => Showing(term, c)
        BY <3>4, <3>5, <3>6, <4>1
      <4>3. typed = CsiKey(c, ch) /\ echo = CsiEcho(term, c, cli', ch)
        BY <3>6, Zenon
      <4> HIDE DEF typed, echo
      <4>4. cli' = CsiKey(c, ch) /\ ~CsiKey(c, ch).searching
        BY <1>8, <3>1, <4>3, Zenon
      <4>5. Showing(CsiEcho(term, c, CsiKey(c, ch), ch), CsiKey(c, ch))
        BY <1>1, <3>4, <3>6, <4>2, <4>4, CsiShows, Zenon
      <4> QED BY <3>2, <3>3, <4>3, <4>4, <4>5, Zenon
    <3>7. CASE ~c.have_csi
      <4>1. ch \in Chars \cup {"^A", "^C", "^E", "^K", "^L", "^R", "bs", "esc"}
                   \cup (IF c.have_escape THEN {"["} ELSE {})
        BY <1>1, <2>1, <3>7 DEF Keys
      <4>2. typed = PlainKey(c, ch) /\ echo = PlainEcho(term, c, cli', ch)
        BY <3>7, Zenon
      <4> HIDE DEF typed, echo
      <4>3. cli' = PlainKey(c, ch) /\ ~PlainKey(c, ch).searching
        BY <1>8, <3>1, <4>2, Zenon
      <4>4. ch # "^R"
        <5> SUFFICES ASSUME ch = "^R" PROVE FALSE
          OBVIOUS
        <5> DEFINE e == [c EXCEPT !.searching = TRUE]
        <5>1. PlainKey(c, ch) = e
          BY DEF PlainKey
        <5>2. e.searching
          BY <1>1 DEF Edited, Clis
        <5> QED BY <4>3, <5>1, <5>2, Zenon
      <4>5. ch \notin {"^C", "^L"} /\ ~c.searching => Showing(term, c)
        BY <3>4, <3>5, <4>4
      <4>6. Showing(PlainEcho(term, c, PlainKey(c, ch), ch), PlainKey(c, ch))
        BY <1>1, <2>1, <4>1, <4>3, <4>5, PlainShows, Zenon
      <4> QED BY <3>2, <3>3, <4>2, <4>3, <4>6, Zenon
    <3> QED BY <3>6, <3>7
  <2>2. CASE ch = "nl"
    <3>1. cli'.done /\ cli'.cursor = 0
      BY <1>6, <2>2
    <3>2. c.have_csi => argv' # <<>>
      BY <1>1, <1>3, <1>8, <3>1, Zenon
    <3>3. argv' = <<>> => echo = NewLine
      <4> SUFFICES ASSUME argv' = <<>> PROVE echo = NewLine
        OBVIOUS
      <4>1. ~c.have_csi
        BY <3>2
      <4>2. \A e : PlainEcho(term, c, e, "nl") = NewLine
        BY Zenon DEF PlainEcho
      <4> QED BY <2>2, <4>1, <4>2, Zenon
    <3> HIDE DEF echo
    <3>4. term' = cli_puts(NewLine, Prompt)
      BY <1>3, <1>8, <3>1, <3>3, Zenon
    <3> DEFINE d == cli'
               e == <<>>
    <3>5. d \in Clis /\ d.done /\ d.cursor = 0
      BY <1>2, <3>1 DEF CliInv
    <3> HIDE DEF d, e
    <3>6. Fresh(d).buffer = e /\ Fresh(d).cursor = 0
      BY <3>5 DEF Fresh, Clis, e
    <3>7. 1 + Fresh(d).cursor = 1
      BY <3>6
    <3> QED BY <3>4, <3>6, <3>7, FreshPrompt, Zenon DEF Showing, d, e
  <2> QED BY <2>1, <2>2
<1> QED BY <1>7, <1>8 DEF ScreenInv

\* The terminal of the line editor, for every alphabet, line length and history length and every
\* sequence of keys: outside a search it shows the prompt and the line being edited, its cursor
\* where the editor's is, unless an arrow key ended a search or an Enter an escape sequence and
\* the line was not drawn again since.
THEOREM ScreenIsLine == CliSpec => []ScreenShowsLine
<1>1. CliInit => CliInv /\ ScreenInv
  <2> SUFFICES ASSUME CliInit PROVE CliInv /\ ScreenInv
    OBVIOUS
  <2>1. CliInv
    BY CliStart
  <2>2. cli.buffer = <<>> /\ cli.cursor = 0 /\ ~cli.done /\ ~quit
    BY DEF CliInit, embedded_cli_init
  <2>3. Fresh(cli) = cli
    BY <2>1, <2>2, FreshEdits, Zenon
  <2>4. 1 + 0 = 1 /\ Len(Prompt) = 1 /\ Prompt \o <<>> = Prompt
    BY DEF Prompt
  <2>5. Trim(Prompt) = Prompt
    <3>1. <<>> \in Seq(Chars) /\ Len(<<>>) = 0
      OBVIOUS
    <3>2. Prompt \in Seq(Glyphs)
      BY <2>4, <3>1, PromptedLine, Zenon
    <3>3. PICK n \in 0 .. Len(Prompt) :
           /\ \A k \in n + 1 .. Len(Prompt) : Prompt[k] = Blank
           /\ Trim(Prompt) = [k \in 1 .. n |-> Prompt[k]]
      BY <3>2, TrimKeeps
    <3>4. Prompt[1] # Blank
      BY DEF Prompt, Blank
    <3>5. n = 1
      BY <2>4, <3>3, <3>4
    <3> QED BY <2>4, <3>2, <3>3, <3>5
  <2>6. term = [text |-> Trim(Prompt \o <<>>), col |-> 1]
    BY <2>4, <2>5, Zenon DEF CliInit
  <2> QED BY <2>1, <2>2, <2>3, <2>4, <2>6, Zenon DEF ScreenInv, Showing
<1>2. CliInv /\ ScreenInv /\ [CliNext]_cliVars => (CliInv /\ ScreenInv)'
  <2> SUFFICES ASSUME CliInv, ScreenInv, [CliNext]_cliVars PROVE (CliInv /\ ScreenInv)'
    OBVIOUS
  <2>1. CASE CliNext
    BY <2>1, KeyStep, KeyShows DEF CliNext, intHandler
  <2>2. CASE UNCHANGED cliVars
    <3>1. cli' = cli /\ quit' = quit /\ torn' = torn /\ term' = term
      BY <2>2 DEF cliVars
    <3> QED BY <3>1 DEF CliInv, HistoryKept, ScreenInv
  <2> QED BY <2>1, <2>2
<1>3. CliInv /\ ScreenInv => ScreenShowsLine
  <2> SUFFICES ASSUME CliInv, ScreenInv, ~cli.done, ~cli.searching, ~torn
               PROVE  term.text = Trim(Prompt \o cli.buffer) /\ term.col = Len(Prompt) + cli.cursor
    BY DEF ScreenShowsLine
  <2>1. Fresh(cli) = cli
    BY FreshEdits, Zenon
  <2>2. term = [text |-> Trim(Prompt \o cli.buffer), col |-> 1 + cli.cursor]
    BY <2>1, Zenon DEF ScreenInv, Showing
  <2>3. Len(Prompt) = 1
    BY DEF Prompt
  <2> QED BY <2>2, <2>3, Zenon
<1> QED BY <1>1, <1>2, <1>3, PTL DEF CliSpec

\* The line editor, for every alphabet, line length, history length and number of arguments and
\* every sequence of keys: the line is kept whole, the history begins with the last line entered,
\* the arguments are the words and the terminal shows the line.
THEOREM EditorIsCorrect == CliSpec => []CliCorrect
<1>1. LineConsistent /\ HistoryKept /\ ArgsAreWords /\ ScreenShowsLine => CliCorrect
  BY DEF CliCorrect
<1> QED BY <1>1, EditorKeepsLine, EditorWords, ScreenIsLine, PTL
=============================================================================
