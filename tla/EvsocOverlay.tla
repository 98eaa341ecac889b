---------------------------- MODULE EvsocOverlay ----------------------------
(***************************************************************************)
(* The pixels of the EVSoC module: text written into the overlay and the   *)
(* title by ioctl, merged into each camera frame by the receive thread,    *)
(* copied whole or at half size for a capture, and turned into a picture   *)
(* by evsoc_app.  Evsoc models the thread's synchronisation; here each of  *)
(* its passes over a buffer is one step.                                   *)
(*                                                                         *)
(* A pixel of a text buffer is 0 (transparent) or a colour, a pixel of a   *)
(* frame a colour or Cam, the camera's.  Colours and glyphs are data.      *)
(***************************************************************************)
EXTENDS Integers, Sequences

CONSTANTS
  FrameWidth, FrameHeight,   \* 1280 and 720
  TitleHigh,                 \* TITLE_HIGH (18)
  Glyph,                     \* width and height of a character (8)
  Font,                      \* console_font_8x8: per row, the columns that are lit
  Places,                    \* rows and columns the programs print at
  Printed,                   \* characters they print
  MaxIoctls                  \* bound on the ioctls

ASSUME OverlayAssumption ==
  /\ {FrameWidth, FrameHeight, TitleHigh, Glyph} \subseteq Nat \ {0} /\ MaxIoctls \in Nat
  /\ TitleHigh + 3 < FrameHeight /\ Font \in Seq(SUBSET Nat) /\ Printed \subseteq 0 .. 255
  /\ Places \subseteq (0 .. 127) \X (0 .. 127)

VARIABLES
  layer0, title_buf,      \* the text buffers
  lay0_is_ready, title_is_ready, capture_mode,
  rframe, rpass,          \* the frame the thread works on; its next pass over it
  capture_array,
  text, ttext,            \* history: what was printed at which place since the last clear
  used, shot,             \* history: the text in the frame; the text and kind of the capture
  ioctls                  \* number of ioctls

overlayVars == <<layer0, title_buf, lay0_is_ready, title_is_ready, capture_mode, rframe, rpass,
                 capture_array, text, ttext, used, shot, ioctls>>
textVars == <<layer0, title_buf, lay0_is_ready, title_is_ready, text, ttext, ioctls>>

Cam == 9
Pixels(height) == 0 .. FrameWidth * height - 1
NoText == [at |-> <<>>, spilled |-> FALSE]     \* spilled: printed past an edge

OverlayInit ==
  /\ layer0 = [p \in Pixels(FrameHeight) |-> 0] /\ title_buf = [p \in Pixels(TitleHigh) |-> 0]
  /\ lay0_is_ready = 0 /\ title_is_ready = 0 /\ capture_mode = "none"
  /\ rframe = [p \in Pixels(FrameHeight) |-> Cam] /\ rpass = "layer"
  /\ capture_array = [p \in Pixels(FrameHeight) |-> 0]
  /\ text = NoText /\ ttext = NoText /\ used = NoText
  /\ shot = [kind |-> "none", text |-> NoText] /\ ioctls = 0

\* A glyph is scan times as large as in the font; a code past the font is blank.
is_ch_show(ch, y, x, scan) ==
  LET base == ch * Glyph + y \div scan
  IN base < Len(Font) /\ x \div scan \in Font[base + 1]

Colour(type) == IF type \in 1 .. 3 THEN type + 1 ELSE 1

\* The argument of CMD_SET_CHAR and CMD_SET_MSG as prt_char and title_msg put it together.
CharArg(ch, type, row, col) ==
  (ch % 256) + (type % 256) * \h100 + (row % 256) * \h10000 + (col % 256) * \h1000000

\* What the module takes out of it.
CharOf(arg) == arg % 256
TypeOf(arg) == (arg \div \h100) % 256
RowOf(arg) == (arg \div \h10000) % 256
ColOf(arg) == (arg \div \h1000000) % 256

\* Mutant: what is not lit keeps what was there.
Draw_mutant(buf, arg, pitch, size, scan) ==
  LET first == RowOf(arg) * pitch * FrameWidth + ColOf(arg) * pitch
  IN [p \in DOMAIN buf |->
       LET y == (p - first) \div FrameWidth
           x == (p - first) % FrameWidth
       IN IF p >= first /\ y < size /\ x < size /\ is_ch_show(CharOf(arg), y, x, scan)
            THEN Colour(TypeOf(arg)) ELSE buf[p]]

\* A character is drawn row by row from its first pixel; pixels past the end of the buffer are
\* left out, but not those past the right edge.
Draw(buf, arg, pitch, size, scan) ==
  LET first == RowOf(arg) * pitch * FrameWidth + ColOf(arg) * pitch
  IN [p \in DOMAIN buf |->
       LET y == (p - first) \div FrameWidth
           x == (p - first) % FrameWidth
       IN IF p >= first /\ y < size /\ x < size
            THEN IF is_ch_show(CharOf(arg), y, x, scan) THEN Colour(TypeOf(arg)) ELSE 0
            ELSE buf[p]]

\* History: what is printed at a place replaces what was there.
WithChar(txt, ch, type, row, col, pitch, size, height) ==
  IF col * pitch + size <= FrameWidth /\ row * pitch + size <= height
    THEN [at |-> [a \in DOMAIN txt.at \cup {<<row, col>>} |->
                    IF a = <<row, col>> THEN <<ch, type>> ELSE txt.at[a]],
          spilled |-> txt.spilled]
    ELSE [at |-> txt.at, spilled |-> TRUE]

\* CMD_SET_CHAR, from prt_char.
SetChar ==
  /\ \E ch \in Printed, type \in {0, 3}, at \in Places :
       /\ layer0' = Draw(layer0, CharArg(ch, type, at[1], at[2]), Glyph + 1, Glyph, 1)
       /\ text' = WithChar(text, ch, type, at[1], at[2], Glyph + 1, Glyph, FrameHeight)
  /\ UNCHANGED <<title_buf, lay0_is_ready, title_is_ready, capture_mode, ttext>>

\* CMD_SET_LAYER: hide, show, or clear and hide.
SetLayer ==
  /\ \E arg \in {0, 1, 3} :
       /\ lay0_is_ready' = IF arg = 3 THEN 0 ELSE arg
       /\ layer0' = IF arg = 3 THEN [p \in DOMAIN layer0 |-> 0] ELSE layer0
       /\ text' = IF arg = 3 THEN NoText ELSE text
  /\ UNCHANGED <<title_buf, title_is_ready, capture_mode, ttext>>

\* CMD_SET_MSG, from title_msg: the title is one row, in glyphs of double size.
SetMsg ==
  /\ \E ch \in Printed, at \in Places :
       /\ title_buf' = Draw(title_buf, CharArg(ch, 0, 0, at[2]), 2 * Glyph, 2 * Glyph, 2)
       /\ ttext' = WithChar(ttext, ch, 0, 0, at[2], 2 * Glyph, 2 * Glyph, TitleHigh)
  /\ UNCHANGED <<layer0, lay0_is_ready, title_is_ready, capture_mode, text>>

\* CMD_CLR_MSG: show, or clear and hide.
ClrMsg ==
  /\ \E arg \in {1, 3} :
       /\ title_is_ready' = IF arg = 3 THEN 0 ELSE arg
       /\ title_buf' = IF arg = 3 THEN [p \in DOMAIN title_buf |-> 0] ELSE title_buf
       /\ ttext' = IF arg = 3 THEN NoText ELSE ttext
  /\ UNCHANGED <<layer0, lay0_is_ready, capture_mode, text>>

SetCapture ==
  /\ capture_mode' \in {"full", "part"}
  /\ UNCHANGED <<layer0, title_buf, lay0_is_ready, title_is_ready, text, ttext>>

evsoc_ioctl ==
  /\ ioctls < MaxIoctls /\ ioctls' = ioctls + 1
  /\ SetChar \/ SetLayer \/ SetMsg \/ ClrMsg \/ SetCapture
  /\ UNCHANGED <<rframe, rpass, capture_array, used, shot>>

(***************************************************************************)
(* do_rx_proc, after the camera has filled the buffer.                     *)
(***************************************************************************)
MergeLayer ==
  /\ rpass = "layer" /\ rpass' = "capture"
  /\ IF lay0_is_ready > 0
       THEN /\ rframe' = [p \in DOMAIN rframe |-> IF layer0[p] # 0 THEN layer0[p] ELSE rframe[p]]
            /\ used' = text
       ELSE UNCHANGED rframe /\ used' = NoText
  /\ UNCHANGED <<textVars, capture_mode, capture_array, shot>>

\* A capture at half size takes every other pixel of every other row.
CopyCapture ==
  /\ rpass = "capture" /\ rpass' = "title"
  /\ LET w == FrameWidth \div 2 IN
     capture_array' =
       CASE capture_mode = "full" -> rframe
         [] capture_mode = "part" ->
              [p \in DOMAIN rframe |-> IF p < w * (FrameHeight \div 2)
                                         THEN rframe[(p \div w) * 2 * FrameWidth + (p % w) * 2]
                                         ELSE capture_array[p]]
         [] OTHER -> capture_array
  /\ shot' = IF capture_mode = "none" THEN shot ELSE [kind |-> capture_mode, text |-> used]
  /\ capture_mode' = "none"
  /\ UNCHANGED <<textVars, rframe, used>>

\* The title goes three pixels down and to the right; the frame is then shown.
MergeTitle ==
  /\ rpass = "title" /\ rpass' = "next"
  /\ LET from(p) == p - 3 * FrameWidth - 3
         lit(p) == from(p) \in DOMAIN title_buf /\ title_buf[from(p)] # 0
     IN rframe' = IF title_is_ready > 0
                    THEN [p \in DOMAIN rframe |-> IF lit(p) THEN title_buf[from(p)] ELSE rframe[p]]
                    ELSE rframe
  /\ UNCHANGED <<textVars, capture_mode, capture_array, used, shot>>

\* The camera fills the next buffer.
NextFrame ==
  /\ rpass = "next" /\ rpass' = "layer"
  /\ rframe' = [p \in DOMAIN rframe |-> Cam] /\ used' = NoText
  /\ UNCHANGED <<textVars, capture_mode, capture_array, shot>>

OverlayNext == evsoc_ioctl \/ MergeLayer \/ CopyCapture \/ MergeTitle \/ NextFrame

OverlaySpec == OverlayInit /\ [][OverlayNext]_overlayVars

(***************************************************************************)
(* The programs read the captured pixels row by row.                       *)
(***************************************************************************)
\* A saved photo has the size of the frame; one of another type is refused.
crt_pic(buf) ==
  [at \in (0 .. FrameHeight - 1) \X (0 .. FrameWidth - 1) |-> buf[at[1] * FrameWidth + at[2]]]

\* A picture of a video has half of it.
fill_mat(buf) ==
  LET w == FrameWidth \div 2
  IN [at \in (0 .. FrameHeight \div 2 - 1) \X (0 .. w - 1) |-> buf[at[1] * w + at[2]]]

(***************************************************************************)
(* Properties.                                                             *)
(***************************************************************************)
\* What the text looks like at row y, column x of its buffer, found from the pixel.
Seen(txt, y, x, pitch, size, scan) ==
  LET at == <<y \div pitch, x \div pitch>>
  IN IF at \in DOMAIN txt.at /\ y % pitch < size /\ x % pitch < size
          /\ is_ch_show(txt.at[at][1], y % pitch, x % pitch, scan)
       THEN Colour(txt.at[at][2]) ELSE 0

\* As long as nothing is printed past an edge, the overlay and the title buffer show at each
\* place the last character printed there and nothing else.
BuffersShowText ==
  /\ ~text.spilled => \A p \in DOMAIN layer0 :
       layer0[p] = Seen(text, p \div FrameWidth, p % FrameWidth, Glyph + 1, Glyph, 1)
  /\ ~ttext.spilled => \A p \in DOMAIN title_buf :
       title_buf[p] = Seen(ttext, p \div FrameWidth, p % FrameWidth, 2 * Glyph, 2 * Glyph, 2)

\* The picture a program makes of a capture is the camera's with the overlay as it was merged
\* into that frame and without the title, pixel for pixel or at half size.
PictureShowsText ==
  ~shot.text.spilled =>
    LET pixel(y, x) == LET s == Seen(shot.text, y, x, Glyph + 1, Glyph, 1)
                       IN IF s # 0 THEN s ELSE Cam
    IN /\ shot.kind = "full" =>
            \A at \in DOMAIN crt_pic(capture_array) : crt_pic(capture_array)[at] = pixel(at[1], at[2])
       /\ shot.kind = "part" =>
            \A at \in DOMAIN fill_mat(capture_array) :
              fill_mat(capture_array)[at] = pixel(2 * at[1], 2 * at[2])

\* The text on the screen and in the pictures is the text that was printed, while ioctls,
\* captures and the passes of the receive thread interleave.
OverlayCorrect == BuffersShowText /\ PictureShowsText
=============================================================================
