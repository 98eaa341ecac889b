---------------------------- MODULE EvsocCamera ----------------------------
(***************************************************************************)
(* The camera web server (package/evsoc_camera): main.c, its camera        *)
(* settings over I2C, and the part of Mongoose 7.2 it runs on: the event   *)
(* manager with its connection list, timers, HTTP messages and files.      *)
(*                                                                         *)
(* main polls; two threads only set up the listener and the frame timer.   *)
(* One poll: sample the sockets, run the timer, then for each connection   *)
(* the POLL event, read, write, close.  Bytes are data: a request is its   *)
(* endpoint and number, output is a sequence of parts, a file is a number  *)
(* of blocks of MG_IO_SIZE.  Browsers, the file system, the I2C bus and    *)
(* /dev/evsoc are external.                                                *)
(***************************************************************************)
EXTENDS Naturals, Sequences, FiniteSets

LOCAL INSTANCE Functions

CONSTANTS
  Clients,         \* browser connections
  Endpoints,       \* endpoints the browsers use
  LastNum,         \* highest photo number (9999)
  MaxPhotos,       \* bound on the photo list
  ImagePerPage,    \* IMAGE_PER_PAGE (4)
  FileSizes,       \* sizes of the files served, in blocks
  MaxOut,          \* bound on the parts waiting in a connection's send buffer
  MaxFds           \* descriptors the process may have for clients and I2C devices

ASSUME CameraAssumption ==
  /\ LastNum \in Nat /\ MaxPhotos \in Nat /\ ImagePerPage \in Nat \ {0}
  /\ FileSizes \subseteq Nat \ {0} /\ MaxOut \in Nat /\ MaxFds \in Nat
  /\ "listener" \notin Clients

VARIABLES
  main, todo, stop,        \* main: pc, or what it died of; rest of its list; SIGINT seen
  lpc, timer,              \* listen_thread: pc; the timer is in g_timers
  conns, conn,             \* mgr->conns, newest first; the connections
  readable, writable,      \* what select reported
  files,                   \* connections whose FILE is open
  i2cfds,                  \* descriptors of I2C devices left open
  sock, inbox, pend,       \* a browser's socket, request under way, answer awaited
  head, capture,           \* dev->head, the photos newest first; dev->capture
  misled                   \* a browser was sent a reply it had not asked for

loopVars   == <<main, todo, stop>>
setupVars  == <<lpc, timer>>
ioVars     == <<readable, writable>>
clientVars == <<sock, inbox, pend>>
photoVars  == <<head, capture>>
camVars ==
  <<loopVars, setupVars, conns, conn, ioVars, files, i2cfds, clientVars, photoVars, misled>>

Listener == "listener"
Ids == Clients \cup {Listener}
NoReq == [ep |-> "none", num |-> 0, whole |-> FALSE]
Requests == {r \in [ep : Endpoints, num : 0 .. 1, whole : BOOLEAN] :
               /\ r.ep \in {"file", "camera", "bad"} => r.whole
               /\ r.num = 1 => r.ep = "btn_capture"}
NoPend == [ep |-> "none", blocks |-> 0]
NewConn == [pfn |-> "none", fn |-> FALSE, stream |-> FALSE, closing |-> FALSE,
            recv |-> NoReq, out |-> <<>>, left |-> 0]
IoSize == 2                          \* the send buffer of a served file: 2 * MG_IO_SIZE
InList(c) == \E k \in 1 .. Len(conns) : conns[k] = c
Replies == {"load", "page", "file"}      \* endpoints whose request is answered

CamInit ==
  /\ main = "poll" /\ todo = <<>> /\ stop = "no" /\ lpc = "open" /\ timer = FALSE
  /\ conns = <<>> /\ conn = [c \in Ids |-> NewConn] /\ readable = {} /\ writable = {}
  /\ files = {} /\ i2cfds = 0
  /\ sock = [c \in Clients |-> "off"] /\ inbox = [c \in Clients |-> NoReq]
  /\ pend = [c \in Clients |-> NoPend]
  /\ head = <<>> /\ capture \in {0, 1}      \* main does not initialise dev.capture
  /\ misled = FALSE

(***************************************************************************)
(* The photo list and its pages.                                           *)
(***************************************************************************)
\* Mutant: the last, partial page is not counted.
get_total_pages_mutant(list) == IF list = <<>> THEN 1 ELSE Len(list) \div ImagePerPage

get_total_pages(list) ==
  IF list = <<>> THEN 1
  ELSE Len(list) \div ImagePerPage + (IF Len(list) % ImagePerPage > 0 THEN 1 ELSE 0)

\* Positions shown on a page, counted from 0.
get_page(list, page) ==
  {k \in 0 .. Len(list) - 1 :
     k + ImagePerPage >= page * ImagePerPage /\ k < page * ImagePerPage}

\* The first page, after a capture.
update_page(list) == {k \in 0 .. Len(list) - 1 : k < ImagePerPage}

\* get_list: the photos of the directory, in the order readdir happens to have.
Listings ==
  UNION {{s \in [1 .. Cardinality(d) -> d] : \A a, b \in DOMAIN s : a # b => s[a] # s[b]} :
           d \in SUBSET (0 .. LastNum)}

NextNum == IF head = <<>> THEN 0 ELSE IF Head(head) >= LastNum THEN 0 ELSE Head(head) + 1

(***************************************************************************)
(* The threads that set up, and the signal.                                *)
(***************************************************************************)
\* mg_listen: the listener is in the list before its handlers are set.
ListenOpen ==
  /\ lpc = "open"
  /\ \/ lpc' = "fn" /\ conns' = <<Listener>> \o conns
     \/ lpc' = "done" /\ UNCHANGED conns                 \* bind or listen failed
  /\ UNCHANGED <<loopVars, timer, conn, ioVars, files, i2cfds, clientVars, photoVars, misled>>

ListenFn ==
  /\ lpc = "fn"
  /\ lpc' = "pfn" /\ conn' = [conn EXCEPT ![Listener].fn = TRUE]
  /\ UNCHANGED <<loopVars, timer, conns, ioVars, files, i2cfds, clientVars, photoVars, misled>>

ListenPfn ==
  /\ lpc = "pfn"
  /\ lpc' = "done" /\ conn' = [conn EXCEPT ![Listener].pfn = "http"]
  /\ UNCHANGED <<loopVars, timer, conns, ioVars, files, i2cfds, clientVars, photoVars, misled>>

\* The timer lies in the stack of stream_thread, which returns.
StreamThread ==
  /\ ~timer /\ timer' = TRUE
  /\ UNCHANGED <<loopVars, lpc, conns, conn, ioVars, files, i2cfds, clientVars, photoVars, misled>>

Sigint ==
  /\ stop = "no" /\ stop' = "yes"
  /\ UNCHANGED <<main, todo, setupVars, conns, conn, ioVars, files, i2cfds, clientVars, photoVars,
                 misled>>

(***************************************************************************)
(* The HTTP handler.  cn is conn after the request was taken from recv.    *)
(***************************************************************************)
\* mg_send: into the connection's buffer.
mg_send(cn, c, part) == [cn EXCEPT ![c].out = Append(@, part)]

mg_http_reply(cn, c) == mg_send(cn, c, "reply")

\* get_json_value_int; the number is anything when the body was cut short ...
Num(r) == IF r.whole THEN {r.num} ELSE 0 .. 1

\* ... and the search for its colon may leave the buffer and end the process.
get_json_value(r) ==
  IF ~r.whole /\ r.ep \in {"page", "btn_capture", "btn_filter", "setting"}
    THEN {"conn", "wild"} ELSE {"conn"}

\* What a request does to the server's own state.
LoadList(r) ==
  /\ r.ep = "load" /\ head = <<>> /\ head' \in Listings
  /\ UNCHANGED <<i2cfds, capture>>

Button(r) ==
  /\ r.ep = "btn_capture"
  /\ \E num \in Num(r) : capture' = IF num = 1 THEN 1 ELSE capture
  /\ UNCHANGED <<i2cfds, head>>

\* In use: sockets of clients, files being sent, I2C devices.
Descriptors == Cardinality({c \in Clients : InList(c)}) + Cardinality(files) + i2cfds

\* The bus is opened and the chip tried; it is closed again unless the chip answers.
i2c_start(answers) == i2cfds' = i2cfds + (IF answers /\ Descriptors < MaxFds THEN 1 ELSE 0)

\* Three buses at most; the one the camera answers on stays open, whatever becomes of the write.
set_camera_setting(r) ==
  /\ r.ep = "setting"
  /\ \E answers \in BOOLEAN : i2c_start(answers)
  /\ UNCHANGED photoVars

Effect(r) ==
  \/ LoadList(r) \/ Button(r) \/ set_camera_setting(r)
  \/ /\ r.ep \in {"camera", "page", "btn_filter", "file", "bad"} \/ (r.ep = "load" /\ head # <<>>)
     /\ UNCHANGED <<i2cfds, photoVars>>

\* An error or "not modified", or the head of the file that static_cb is to send.
mg_http_serve_file(c, cn) ==
  \/ conn' = mg_http_reply(cn, c) /\ UNCHANGED <<files, pend>>
  \/ \E n \in FileSizes :
       /\ conn' = mg_send([cn EXCEPT ![c].pfn = "static", ![c].left = n], c, "head")
       /\ files' = files \cup {c}
       /\ pend' = [pend EXCEPT ![c].blocks = n]

\* The path is refused, is not there, or is a file.
mg_http_serve_dir(c, cn) ==
  \/ conn' = mg_http_reply(cn, c) /\ UNCHANGED <<files, pend>>
  \/ mg_http_serve_file(c, cn)

\* What it sends.  A page past the last becomes page 1, so "load" shows some page.
Output(c, r, cn) ==
  \/ r.ep = "file" /\ mg_http_serve_dir(c, cn)
  \/ /\ r.ep # "file"
     /\ conn' = CASE r.ep = "camera" -> mg_send([cn EXCEPT ![c].stream = TRUE], c, "hdr")
                  [] r.ep \in {"load", "page"} -> mg_http_reply(cn, c)
                  [] OTHER -> cn
     /\ UNCHANGED <<files, pend>>

handle_request(c, r, cn) == Effect(r) /\ Output(c, r, cn)

(***************************************************************************)
(* The timer: a frame to every stream, and the photo that was asked for.   *)
(***************************************************************************)
Streams == {c \in Ids : InList(c) /\ conn[c].stream}

send_frame == [c \in Ids |-> IF c \in Streams THEN [conn[c] EXCEPT !.out = Append(@, "frame")]
                             ELSE conn[c]]

\* A browser awaits a photo's page (what is sent to the listener stays in its buffer).
Awaits(c) == c = Listener \/ (pend[c].ep = "btn_capture" /\ "reply" \notin Range(conn[c].out))

\* The page goes to the first connection of the list, whoever asked.
capture_photo ==
  \/ /\ Len(head) < MaxPhotos /\ head' = <<NextNum>> \o head
     /\ IF conns = <<>>
          THEN conn' = send_frame /\ main' = "crash" /\ UNCHANGED misled    \* mg_http_reply(NULL)
          ELSE /\ conn' = mg_http_reply(send_frame, Head(conns)) /\ main' = "conn"
               /\ misled' = (misled \/ ~Awaits(Head(conns)))
  \/ /\ head = <<>> /\ conn' = send_frame /\ main' = "conn"              \* mkdir fails
     /\ UNCHANGED <<head, misled>>

\* The frame is read through a mapping of /dev/evsoc, whose open fails when the descriptors are
\* used up, and at any time because the module is not there or somebody else has the device.
\* Then there is no mapping, and the copy faults.
video_capture_stream == IF Descriptors < MaxFds THEN {"frame", "nodev"} ELSE {"nofds"}

timer_callback ==
  /\ \A c \in Ids : Len(conn[c].out) < MaxOut
  /\ \E got \in video_capture_stream :
       \/ got # "frame" /\ main' = got /\ UNCHANGED <<conn, photoVars, misled>>
       \/ got = "frame" /\ capture = 1 /\ capture_photo /\ capture' = 0
       \/ /\ got = "frame" /\ capture # 1 /\ conn' = send_frame /\ main' = "conn"
          /\ UNCHANGED <<photoVars, misled>>

\* mg_timer_poll: the timer has expired, or not yet; or what has become of the stack it lies in
\* is no timer any more.
mg_timer_poll ==
  \/ timer /\ timer_callback
  \/ main' = "conn" /\ UNCHANGED <<conn, head, capture, misled>>
  \/ timer /\ main' = "notimer" /\ UNCHANGED <<conn, head, capture, misled>>

(***************************************************************************)
(* mg_mgr_poll.                                                            *)
(***************************************************************************)
PollStart ==
  /\ main = "poll" /\ stop # "yes"
  /\ readable' = {c \in Clients : InList(c) /\ ~conn[c].closing
                                  /\ (sock[c] = "shut" \/ inbox[c] # NoReq)}
                 \cup {c \in {Listener} : \E d \in Clients : sock[d] = "syn"}
  /\ writable' = {c \in Clients : InList(c) /\ ~conn[c].closing /\ conn[c].out # <<>>}
  /\ todo' = conns
  /\ mg_timer_poll
  /\ UNCHANGED <<stop, setupVars, conns, files, i2cfds, clientVars>>

Blocks(out) == Cardinality({k \in 1 .. Len(out) : out[k] = "block"})

\* static_cb: fill the send buffer; a short read ends the file.
Fills(c, cn) == cn[c].pfn = "static" /\ Blocks(cn[c].out) < IoSize

\* Mutant: http_cb is restored after the first read.
static_cb_mutant(c, cn) ==
  LET space == IoSize - Blocks(cn[c].out)
      n == IF cn[c].left < space THEN cn[c].left ELSE space
  IN [cn EXCEPT ![c].out = @ \o [k \in 1 .. n |-> "block"], ![c].left = @ - n, ![c].pfn = "http"]

static_cb(c, cn) ==
  LET space == IoSize - Blocks(cn[c].out)
      n == IF cn[c].left < space THEN cn[c].left ELSE space
  IN [cn EXCEPT ![c].out = @ \o [k \in 1 .. n |-> "block"], ![c].left = @ - n,
                ![c].pfn = IF n < space THEN "http" ELSE "static"]

Static(c, cn) ==
  /\ conn' = IF Fills(c, cn) THEN static_cb(c, cn) ELSE cn
  /\ files' = IF cn[c].pfn = "static" /\ conn'[c].pfn = "http" THEN files \ {c} ELSE files

EvPoll ==
  /\ main = "conn" /\ todo # <<>>
  /\ Static(Head(todo), conn) /\ main' = "read"
  /\ UNCHANGED <<todo, stop, setupVars, conns, ioVars, i2cfds, clientVars, photoVars, misled>>

Accept ==
  /\ main = "read" /\ Head(todo) = Listener /\ main' = "close"
  /\ LET syn == {d \in Clients : sock[d] = "syn"}
     IN \/ /\ Listener \in readable /\ ~conn[Listener].closing /\ syn # {}
           /\ \E d \in syn :
                IF Descriptors < MaxFds
                  THEN /\ conns' = <<d>> \o conns /\ sock' = [sock EXCEPT ![d] = "up"]
                       /\ conn' = [conn EXCEPT ![d] = [NewConn EXCEPT !.fn = conn[Listener].fn,
                                                               !.pfn = conn[Listener].pfn]]
                  ELSE sock' = [sock EXCEPT ![d] = "off"] /\ UNCHANGED <<conns, conn>>
        \/ /\ ~(Listener \in readable /\ ~conn[Listener].closing /\ syn # {})
           /\ UNCHANGED <<sock, conns, conn>>
  /\ UNCHANGED <<todo, stop, setupVars, ioVars, files, i2cfds, inbox, pend, photoVars, misled>>

\* What recv gives: a request or a piece of one, or nothing at the end of the stream, which
\* is a failure.
mg_sock_recv(c) == inbox[c]

\* The READ event: a whole request is handled and taken from the buffer, a malformed one closes
\* the connection, a piece waits for the rest.
http_cb(c, r) ==
  \/ /\ r.ep = "bad" /\ conn' = [conn EXCEPT ![c].closing = TRUE]
     /\ UNCHANGED <<files, i2cfds, pend, photoVars>>
  \/ r.ep # "bad" /\ r.whole /\ handle_request(c, r, [conn EXCEPT ![c].recv = NoReq])
  \/ /\ r.ep # "bad" /\ ~r.whole /\ conn' = [conn EXCEPT ![c].recv = r]
     /\ UNCHANGED <<files, i2cfds, pend, photoVars>>

ReadConn ==
  LET c == Head(todo) IN
  /\ main = "read" /\ c # Listener /\ main' = "write"
  /\ IF c \notin readable \/ conn[c].closing
       THEN UNCHANGED <<conn, inbox, files, i2cfds, pend, photoVars>>
     ELSE IF mg_sock_recv(c) = NoReq
       THEN /\ conn' = [conn EXCEPT ![c].closing = TRUE]
            /\ UNCHANGED <<inbox, files, i2cfds, pend, photoVars>>
     ELSE /\ inbox' = [inbox EXCEPT ![c] = NoReq]
          /\ IF conn[c].pfn = "http" THEN http_cb(c, mg_sock_recv(c))
             ELSE /\ conn' = [conn EXCEPT ![c].recv = mg_sock_recv(c)]
                  /\ UNCHANGED <<files, i2cfds, pend, photoVars>>
  /\ UNCHANGED <<todo, stop, setupVars, conns, ioVars, sock, misled>>

\* What the browser makes of the parts it receives.
Received(p, parts) ==
  LET n == Blocks(parts)
  IN IF (\E k \in 1 .. Len(parts) : parts[k] \in {"reply", "hdr"}) \/ (n > 0 /\ n >= p.blocks)
       THEN NoPend ELSE [p EXCEPT !.blocks = @ - n]

\* send takes any part of the buffer, or fails when the peer has gone.
mg_sock_send(c) == IF sock[c] = "up" THEN 1 .. Len(conn[c].out) ELSE {}

mg_iobuf_delete(buf, n) == SubSeq(buf, n + 1, Len(buf))

\* write_conn: what was sent leaves the buffer, then the WRITE event.
WriteConn ==
  LET c == Head(todo) IN
  /\ main = "write" /\ main' = "close"
  /\ IF c \notin writable \/ conn[c].out = <<>> THEN UNCHANGED <<conn, files, pend>>
     ELSE \/ \E n \in mg_sock_send(c) :
               /\ Static(c, [conn EXCEPT ![c].out = mg_iobuf_delete(@, n)])
               /\ pend' = [pend EXCEPT ![c] = Received(@, SubSeq(conn[c].out, 1, n))]
          \/ /\ mg_sock_send(c) = {}
             /\ conn' = [conn EXCEPT ![c].closing = TRUE] /\ UNCHANGED <<files, pend>>
  /\ UNCHANGED <<todo, stop, setupVars, conns, ioVars, i2cfds, sock, inbox, photoVars, misled>>

\* The CLOSE event ends a file.
CloseFile(c) == IF conn[c].pfn = "static" THEN files \ {c} ELSE files

\* The connection leaves the list.
LIST_DELETE(list, c) ==
  LET k == CHOOSE k \in 1 .. Len(list) : list[k] = c
  IN SubSeq(list, 1, k - 1) \o SubSeq(list, k + 1, Len(list))

\* close_conn.  On the CLOSE event http_cb takes what was received of a request
\* for all of it, and its answer is freed with the connection.
CloseConn ==
  LET c == Head(todo) IN
  /\ main = "close" /\ todo' = Tail(todo)
  /\ \/ ~conn[c].closing /\ main' = "conn" /\ UNCHANGED <<conns, conn, files, i2cfds, clientVars, photoVars>>
     \/ /\ conn[c].closing
        /\ conns' = LIST_DELETE(conns, c)
        /\ conn' = [conn EXCEPT ![c] = NewConn]
        /\ files' = CloseFile(c)
        /\ IF conn[c].pfn = "http" /\ conn[c].recv # NoReq
             THEN Effect(conn[c].recv) /\ main' \in get_json_value(conn[c].recv)
             ELSE main' = "conn" /\ UNCHANGED <<i2cfds, photoVars>>
        /\ sock' = [d \in Clients |-> IF d = c THEN "off" ELSE sock[d]]
        /\ inbox' = [d \in Clients |-> IF d = c THEN NoReq ELSE inbox[d]]
        /\ pend' = [d \in Clients |-> IF d = c THEN NoPend ELSE pend[d]]
  /\ UNCHANGED <<stop, setupVars, ioVars, misled>>

\* The list is walked: poll again, or leave (free_list).
PollEnd ==
  /\ main = "conn" /\ todo = <<>>
  /\ \/ stop # "last" /\ main' = "poll" /\ UNCHANGED head
     \/ stop = "last" /\ main' = "exit" /\ head' = <<>>
  /\ UNCHANGED <<todo, stop, setupVars, conns, conn, ioVars, files, i2cfds, clientVars,
                 capture, misled>>

\* mg_mgr_free marks every connection.
\* Mutant: a stream is left to its browser.
MarkClosing_mutant(c) ==
  IF InList(c) /\ ~conn[c].stream THEN [conn[c] EXCEPT !.closing = TRUE] ELSE conn[c]

MarkClosing(c) == IF InList(c) THEN [conn[c] EXCEPT !.closing = TRUE] ELSE conn[c]

\* After the loop: join both threads, mark, poll once more.
MgrFree ==
  /\ main = "poll" /\ stop = "yes" /\ lpc = "done" /\ timer
  /\ stop' = "last"
  /\ conn' = [c \in Ids |-> MarkClosing(c)]
  /\ UNCHANGED <<main, todo, setupVars, conns, ioVars, files, i2cfds, clientVars, photoVars,
                 misled>>

(***************************************************************************)
(* The browsers, one request at a time on a connection.  They connect once *)
(* the listener is set up; what a browser does after it was sent a page it *)
(* had not asked for is not modelled.                                      *)
(***************************************************************************)
serverVars == <<loopVars, setupVars, conns, conn, ioVars, files, i2cfds, photoVars, misled>>

Connect(c) ==
  /\ sock[c] = "off" /\ lpc = "done" /\ InList(Listener)
  /\ sock' = [sock EXCEPT ![c] = "syn"]
  /\ UNCHANGED <<serverVars, inbox, pend>>

Request(c) ==
  /\ sock[c] = "up" /\ pend[c] = NoPend /\ inbox[c] = NoReq /\ ~conn[c].stream /\ ~misled
  /\ \E r \in Requests :
       inbox' = [inbox EXCEPT ![c] = r] /\ pend' = [pend EXCEPT ![c].ep = r.ep]
  /\ UNCHANGED <<serverVars, sock>>

RequestRest(c) ==
  /\ sock[c] = "up" /\ inbox[c] = NoReq /\ conn[c].recv # NoReq /\ ~conn[c].recv.whole
  /\ inbox' = [inbox EXCEPT ![c] = [conn[c].recv EXCEPT !.whole = TRUE]]
  /\ UNCHANGED <<serverVars, sock, pend>>

Shut(c) ==
  /\ sock[c] = "up" /\ sock' = [sock EXCEPT ![c] = "shut"]
  /\ UNCHANGED <<serverVars, inbox, pend>>

CamServer ==
  \/ PollStart \/ EvPoll \/ Accept \/ ReadConn \/ WriteConn \/ CloseConn \/ PollEnd \/ MgrFree

CamSetup == ListenOpen \/ ListenFn \/ ListenPfn \/ StreamThread

CamNext ==
  \/ CamServer \/ CamSetup \/ Sigint
  \/ \E c \in Clients : Connect(c) \/ Request(c) \/ RequestRest(c) \/ Shut(c)

\* The threads run; a browser that began a request completes it.
CamSpec == CamInit /\ [][CamNext]_camVars /\ WF_camVars(CamServer) /\ WF_camVars(CamSetup)
             /\ \A c \in Clients : WF_camVars(RequestRest(c))

(***************************************************************************)
(* Properties.                                                             *)
(***************************************************************************)
\* A file being sent is closed when its connection goes, however it goes: an open FILE belongs
\* to a listed connection that static_cb still serves.  And mg_mgr_free leaves nothing behind:
\* at exit no connection is listed and no file is open ("All connections closed").
NothingLeftOpen ==
  /\ \A c \in Ids : c \in files <=> InList(c) /\ conn[c].pfn = "static"
  /\ main = "exit" => conns = <<>> /\ files = {} /\ \A c \in Clients : sock[c] # "up"

\* Every photo in the list is on exactly one of the pages 1 .. total_pages, and the page
\* sent after a capture is page 1.
PagesPartition ==
  LET total == get_total_pages(head)
  IN /\ \A k \in 0 .. Len(head) - 1 :
          Cardinality({p \in 1 .. total : k \in get_page(head, p)}) = 1
     /\ update_page(head) = get_page(head, 1)

\* A request whose endpoint is answered gets its whole answer, or its connection ends:
\* nothing is left in a buffer that no later event would look at.  Otherwise the server has
\* died, and only because /dev/evsoc could not be opened (absent or busy, or a camera setting
\* has kept the last descriptor), because the timer's stack was overwritten or because a
\* number was looked for in a body that had been cut short.
RequestsAnswered ==
  \A c \in Clients :
    pend[c].ep \in Replies ~> \/ pend[c].ep \notin Replies
                              \/ main \in {"nodev", "notimer", "wild"}
                              \/ main = "nofds" /\ i2cfds > 0
=============================================================================
