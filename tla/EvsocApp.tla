------------------------------ MODULE EvsocApp ------------------------------
(***************************************************************************)
(* The EVSoC application (evsoc_app): the main thread with its commands,   *)
(* the signal handler that runs on it, the worker that turns key presses   *)
(* into pictures and videos, the second worker that records videos, and    *)
(* the title message all of them put on the display.                       *)
(*                                                                         *)
(* The three threads share cap_vid_len, the key queue and the title delay  *)
(* without a lock, but for the queue's own operations.  /dev/evsoc, OpenCV *)
(* and the files are external: a picture is data, a video a number of      *)
(* frames.  The device is open once at a time, so that any open may fail:  *)
(* another thread or another program has it.  Nobody looks.  Only key      *)
(* presses are queued: the handler returns at once for the other signal.   *)
(* Editing of command lines is in EmbeddedCli.                             *)
(***************************************************************************)
EXTENDS Integers

CONSTANTS
  Typed,           \* lengths given to capvideo, seconds
  MaxVideo,        \* longest video (30 s)
  AutoVideo,       \* length of a video started by the key (10 s)
  FrameRate,       \* frames per second (5)
  TitleDelay,      \* poll rounds a title stays (1500)
  MaxKeys,         \* bound on the queued key presses
  Enums            \* values of the words of a command

ASSUME AppAssumption ==
  /\ Typed \subseteq Nat /\ MaxVideo \in Nat \ {0} /\ AutoVideo \in 1 .. MaxVideo
  /\ FrameRate \in Nat \ {0} /\ TitleDelay \in Nat \ {0} /\ MaxKeys \in Nat /\ Enums \subseteq Nat

VARIABLES
  request,         \* last ioctl of a command
  mainpc,          \* main thread: in cli_main, between the steps of capture_video, exited, dead
  keys,            \* worker_queue: key presses waiting
  ignored,         \* ignored_key_event
  wpc,             \* worker_run
  cap_vid_len, cap_vid_name,
  lCapTimer,       \* worker2_run: ticks left
  writer, asked,   \* the video being recorded and its length when its ticks were set
  mCapVect,        \* frames held for it
  saved,           \* the last video saved: its length and its frames
  shown, delay,    \* a title is on the display; title_msg_delay
  titling,         \* threads in title_msg, before it sets the delay
  missed           \* the title should have been cleared and the device could not be opened

recVars == <<lCapTimer, writer, asked, mCapVect, saved>>
videoVars == <<cap_vid_len, cap_vid_name, recVars>>
titleVars == <<shown, delay, titling, missed>>
appVars == <<request, mainpc, keys, ignored, wpc, videoVars, titleVars>>

AppInit ==
  /\ request = <<"none", 0>> /\ mainpc = "cli" /\ keys = 0 /\ ignored = FALSE /\ wpc = "loop"
  /\ cap_vid_len = 0 /\ cap_vid_name = "none" /\ lCapTimer = 0 /\ writer = "none" /\ asked = 0
  /\ mCapVect = 0 /\ saved = [len |-> 0, frames |-> 0]
  /\ shown = FALSE /\ delay = 0 /\ titling = {} /\ missed = FALSE

AppRuns == mainpc \notin {"exit", "crash"}

\* External: whether open("/dev/evsoc") succeeds.
open_evsoc == BOOLEAN

(***************************************************************************)
(* Titles.                                                                 *)
(***************************************************************************)
title_msg(t) ==
  /\ \E opened \in open_evsoc : shown' = (shown \/ opened) /\ missed' = (missed /\ ~opened)
  /\ titling' = titling \cup {t} /\ UNCHANGED delay

SetDelay(t) ==
  /\ AppRuns /\ t \in titling
  /\ titling' = titling \ {t} /\ delay' = TitleDelay
  /\ UNCHANGED <<request, mainpc, keys, ignored, wpc, videoVars, shown, missed>>

\* Mutant: the title is not cleared when its time has passed.
poll_title_msg_mutant(force) ==
  /\ delay' = IF delay = 0 THEN 0 ELSE IF force THEN 0 ELSE delay - 1
  /\ UNCHANGED <<shown, titling, missed>>

\* The delay has been counted down when the device turns out to be busy.
poll_title_msg(force) ==
  /\ delay' = IF delay = 0 THEN 0 ELSE IF force THEN 0 ELSE delay - 1
  /\ IF delay # 0 /\ delay' = 0
       THEN \E opened \in open_evsoc : shown' = (shown /\ ~opened) /\ missed' = (shown /\ ~opened)
       ELSE UNCHANGED <<shown, missed>>
  /\ UNCHANGED titling

(***************************************************************************)
(* The main thread.                                                        *)
(***************************************************************************)
\* Commands that call the driver and nothing else.  Their words are looked up in one table
\* for all commands, so that binning may be given the value of a colour.  When the open fails
\* the call fails on -1 and nothing changes.
Command(cmd, val) ==
  /\ mainpc = "cli" /\ TRUE \in open_evsoc /\ request' = <<cmd, val>>
  /\ UNCHANGED <<mainpc, keys, ignored, wpc, videoVars, titleVars>>

set_hwacc == \E v \in Enums : v < 3 /\ Command("SET_MODE", v)
capture_view == Command("SET_CAPTURE", 1)
prt_char == Command("SET_LAYER", 1)           \* 0, the characters, 1
clr_disp == Command("SET_LAYER", 3)
set_binning == \E v \in Enums : Command("SET_CAM_BINNING", v)

DeviceCommand == set_hwacc \/ capture_view \/ prt_char \/ clr_disp \/ set_binning

\* capvideo: refused while a video is under way; then the name, then the length.
capture_video ==
  /\ mainpc = "cli" /\ cap_vid_len = 0 /\ mainpc' = "length" /\ cap_vid_name' = "typed"
  /\ UNCHANGED <<request, keys, ignored, wpc, cap_vid_len, recVars, titleVars>>

\* Letters A to F pass for digits, and then the length is whatever the stack holds; that is
\* left out.
SetLength ==
  /\ mainpc = "length" /\ mainpc' = "cli"
  /\ \/ \E n \in Typed : cap_vid_len' = IF n > MaxVideo THEN MaxVideo ELSE n
     \/ UNCHANGED cap_vid_len                            \* not a number
  /\ UNCHANGED <<request, keys, ignored, wpc, cap_vid_name, recVars, titleVars>>

\* The driver's signal for a key press, on the main thread at any time.
signal_handler ==
  /\ AppRuns /\ keys < MaxKeys
  /\ keys' = IF ignored THEN keys ELSE keys + 1
  /\ UNCHANGED <<request, mainpc, ignored, wpc, videoVars, titleVars>>

\* The memory of the process goes with it; a saved video and the display stay.
MemoryGone ==
  /\ request' = <<"none", 0>> /\ keys' = 0 /\ ignored' = FALSE /\ wpc' = "loop"
  /\ cap_vid_len' = 0 /\ cap_vid_name' = "none" /\ lCapTimer' = 0 /\ writer' = "none"
  /\ asked' = 0 /\ mCapVect' = 0 /\ UNCHANGED saved

\* quit: the title is cleared, the driver told, and the process ends under its workers.
AppExit ==
  /\ mainpc = "cli" /\ mainpc' = "exit" /\ poll_title_msg(TRUE) /\ MemoryGone

(***************************************************************************)
(* worker_run.                                                             *)
(***************************************************************************)
InWorker(pc) == AppRuns /\ wpc = pc /\ "worker" \notin titling

WorkerLoop ==
  /\ InWorker("loop") /\ poll_title_msg(FALSE)
  /\ \/ keys = 0 /\ ignored' = FALSE /\ UNCHANGED <<keys, wpc>>
     \/ keys > 0 /\ keys' = keys - 1 /\ wpc' = "wait" /\ UNCHANGED ignored
  /\ UNCHANGED <<request, mainpc, videoVars>>

\* Half a second later: a second press makes it a video; further ones are ignored meanwhile.
WorkerDecide ==
  /\ InWorker("wait") /\ ignored' = TRUE
  /\ \/ keys = 0 /\ wpc' = "pic" /\ UNCHANGED keys
     \/ keys > 0 /\ wpc' = "video" /\ keys' = keys - 1
  /\ UNCHANGED <<request, mainpc, videoVars, titleVars>>

capture_auto_pic ==
  /\ InWorker("pic") /\ wpc' = "saving" /\ title_msg("worker")
  /\ UNCHANGED <<request, mainpc, keys, ignored, videoVars>>

AutoPicSaved ==
  /\ InWorker("saving") /\ wpc' = "loop" /\ title_msg("worker") /\ ignored' = FALSE
  /\ UNCHANGED <<request, mainpc, keys, videoVars>>

capture_auto_video ==
  /\ InWorker("video")
  /\ \/ cap_vid_len # 0 /\ wpc' = "loop" /\ ignored' = FALSE /\ UNCHANGED cap_vid_name
     \/ cap_vid_len = 0 /\ wpc' = "auto" /\ cap_vid_name' = "auto" /\ UNCHANGED ignored
  /\ UNCHANGED <<request, mainpc, keys, cap_vid_len, recVars, titleVars>>

AutoLength ==
  /\ InWorker("auto") /\ wpc' = "loop" /\ ignored' = FALSE /\ cap_vid_len' = AutoVideo
  /\ UNCHANGED <<request, mainpc, keys, cap_vid_name, recVars, titleVars>>

(***************************************************************************)
(* worker2_run: one tick every 200 ms.  The first opens the file, each     *)
(* later one takes a frame, the last one saves them.                       *)
(***************************************************************************)
Recording == AppRuns /\ cap_vid_len # 0 /\ "worker2" \notin titling

\* Mutant: no tick for the opening of the file.
VideoArm_mutant ==
  /\ Recording /\ lCapTimer = 0
  /\ lCapTimer' = cap_vid_len * FrameRate /\ asked' = cap_vid_len
  /\ UNCHANGED <<request, mainpc, keys, ignored, wpc, cap_vid_len, cap_vid_name, writer, mCapVect,
                 saved, titleVars>>

\* The ticks are set when a length is seen, up to 200 ms before the first.
VideoArm ==
  /\ Recording /\ lCapTimer = 0
  /\ lCapTimer' = cap_vid_len * FrameRate + 1 /\ asked' = cap_vid_len
  /\ UNCHANGED <<request, mainpc, keys, ignored, wpc, cap_vid_len, cap_vid_name, writer, mCapVect,
                 saved, titleVars>>

\* The file is opened, or is not; whether the first frame is asked for does not matter.
VideoOpen ==
  /\ Recording /\ lCapTimer # 0 /\ writer = "none" /\ title_msg("worker2")
  /\ \/ lCapTimer' = lCapTimer - 1 /\ writer' = cap_vid_name /\ UNCHANGED <<cap_vid_len, asked>>
     \/ lCapTimer' = 0 /\ cap_vid_len' = 0 /\ asked' = 0 /\ UNCHANGED writer
  /\ UNCHANGED <<request, mainpc, keys, ignored, wpc, cap_vid_name, mCapVect, saved>>

VideoFrame ==
  /\ Recording /\ writer # "none" /\ lCapTimer > 1
  /\ lCapTimer' = lCapTimer - 1 /\ mCapVect' = mCapVect + 1
  /\ \/ lCapTimer' % FrameRate = 0 /\ title_msg("worker2")
     \/ lCapTimer' % FrameRate # 0 /\ UNCHANGED titleVars
  /\ UNCHANGED <<request, mainpc, keys, ignored, wpc, cap_vid_len, cap_vid_name, writer, asked,
                 saved>>

VideoSave ==
  /\ Recording /\ writer # "none" /\ lCapTimer = 1
  /\ saved' = [len |-> asked, frames |-> mCapVect + 1]
  /\ mCapVect' = 0 /\ writer' = "none" /\ asked' = 0 /\ lCapTimer' = 0 /\ cap_vid_len' = 0
  /\ title_msg("worker2")
  /\ UNCHANGED <<request, mainpc, keys, ignored, wpc, cap_vid_name>>

\* A command, a key press or the recorder wants the picture and the device cannot be opened:
\* the copy from the mapping that failed ends the process.
CopyFault ==
  /\ mainpc = "cli" \/ InWorker("saving") \/ (Recording /\ writer # "none")
  /\ AppRuns /\ FALSE \in open_evsoc /\ mainpc' = "crash" /\ MemoryGone /\ UNCHANGED titleVars

Worker ==
  \/ WorkerLoop \/ WorkerDecide \/ capture_auto_pic \/ AutoPicSaved \/ capture_auto_video
  \/ AutoLength \/ SetDelay("worker")

Worker2 == VideoArm \/ VideoOpen \/ VideoFrame \/ VideoSave \/ SetDelay("worker2")

AppNext ==
  \/ DeviceCommand \/ capture_video \/ SetLength \/ signal_handler \/ AppExit
  \/ Worker \/ Worker2 \/ CopyFault

AppSpec == AppInit /\ [][AppNext]_appVars

(***************************************************************************)
(* Properties.                                                             *)
(***************************************************************************)
\* A video is saved with FrameRate frames for each second of the length it was started
\* with, although both other threads may write cap_vid_len while it is recorded.
VideoWhole == saved.frames = FrameRate * saved.len

\* While the application runs, a requested video comes to an end (saved or not opened), so
\* that the next is not refused for ever; a queued key press is taken from the queue; and a
\* title is cleared from the display, unless newer ones keep replacing it or the device could
\* not be opened when its time had passed (nobody tries again).
AppServes ==
  /\ []<>(cap_vid_len = 0 \/ ~AppRuns)
  /\ []<>(keys < MaxKeys \/ ~AppRuns)
  /\ []<>(~shown \/ delay = TitleDelay \/ missed \/ ~AppRuns)
=============================================================================
