---------------------------- MODULE CameraProofs ----------------------------
(***************************************************************************)
(* Theorems about EvsocCamera for every number of browsers, endpoints,     *)
(* photos and descriptors: the files and connections the server leaves     *)
(* open, and the pages of the photo list.                                  *)
(***************************************************************************)
EXTENDS EvsocCamera, FiniteSetTheorems, TLAPS

(***************************************************************************)
(* Lists.                                                                  *)
(***************************************************************************)
In(s, c) == \E k \in 1 .. Len(s) : s[k] = c

Distinct(s) == \A a, b \in 1 .. Len(s) : s[a] = s[b] => a = b

\* What LIST_DELETE leaves: the other elements of a list without repetitions.
LEMMA DeleteLemma ==
  ASSUME NEW S, NEW s \in Seq(S), Distinct(s), NEW c, In(s, c)
  PROVE  /\ LIST_DELETE(s, c) \in Seq(S)
         /\ Distinct(LIST_DELETE(s, c))
         /\ \A d : In(LIST_DELETE(s, c), d) <=> In(s, d) /\ d # c
<1> DEFINE k == CHOOSE k \in 1 .. Len(s) : s[k] = c
<1> DEFINE t == SubSeq(s, 1, k - 1) \o SubSeq(s, k + 1, Len(s))
<1>1. k \in 1 .. Len(s) /\ s[k] = c
  BY DEF In
<1> HIDE DEF k
<1>2. Len(s) \in Nat /\ k \in Nat
  BY <1>1
<1>3. /\ SubSeq(s, 1, k - 1) \in Seq(S) /\ SubSeq(s, k + 1, Len(s)) \in Seq(S)
      /\ Len(SubSeq(s, 1, k - 1)) = k - 1
      /\ Len(SubSeq(s, k + 1, Len(s))) = Len(s) - k
      /\ \A a \in 1 .. k - 1 : SubSeq(s, 1, k - 1)[a] = s[a]
      /\ \A a \in 1 .. Len(s) - k : SubSeq(s, k + 1, Len(s))[a] = s[k + a]
  <2>1. \A a \in 1 .. Len(s) : s[a] \in S
    OBVIOUS
  <2> QED BY <1>1, <1>2, <2>1
<1>4. /\ t \in Seq(S) /\ Len(t) = Len(s) - 1
      /\ \A a \in 1 .. Len(t) : t[a] = IF a < k THEN s[a] ELSE s[a + 1]
  <2> DEFINE u == SubSeq(s, 1, k - 1)
             v == SubSeq(s, k + 1, Len(s))
  <2>0. u \in Seq(S) /\ v \in Seq(S) /\ Len(u) = k - 1 /\ Len(v) = Len(s) - k
    BY <1>3
  <2>a. /\ \A a \in 1 .. k - 1 : u[a] = s[a]
        /\ \A a \in 1 .. Len(s) - k : v[a] = s[k + a]
    BY <1>3
  <2> HIDE DEF u, v
  <2>1. u \o v \in Seq(S) /\ Len(u \o v) = Len(s) - 1
    BY <1>2, <2>0
  <2>2. \A a \in 1 .. Len(u \o v) : (u \o v)[a] = IF a < k THEN s[a] ELSE s[a + 1]
    <3> SUFFICES ASSUME NEW a \in 1 .. Len(u \o v)
                 PROVE  (u \o v)[a] = IF a < k THEN s[a] ELSE s[a + 1]
      OBVIOUS
    <3>1. CASE a < k
      <4>1. (u \o v)[a] = u[a] /\ a \in 1 .. k - 1
        BY <1>1, <1>2, <2>0, <2>1, <3>1
      <4> QED BY <2>a, <3>1, <4>1
    <3>2. CASE ~(a < k)
      <4>1. (u \o v)[a] = v[a - (k - 1)] /\ a - (k - 1) \in 1 .. Len(s) - k
        BY <1>1, <1>2, <2>0, <2>1, <3>2
      <4>2. k + (a - (k - 1)) = a + 1
        BY <1>2, <2>1
      <4> QED BY <2>a, <3>2, <4>1, <4>2
    <3> QED BY <3>1, <3>2
  <2> QED BY <2>1, <2>2 DEF u, v
<1>5. LIST_DELETE(s, c) = t
  BY DEF LIST_DELETE, k
<1> HIDE DEF t
<1>6. Distinct(t)
  BY <1>1, <1>2, <1>4 DEF Distinct
<1>7. ASSUME NEW d
      PROVE  In(t, d) <=> In(s, d) /\ d # c
  <2>1. ASSUME NEW a \in 1 .. Len(t), t[a] = d
        PROVE  In(s, d) /\ d # c
    <3>1. CASE a < k
      BY <1>1, <1>2, <1>4, <2>1, <3>1 DEF In, Distinct
    <3>2. CASE ~(a < k)
      <4>1. a + 1 \in 1 .. Len(s) /\ s[a + 1] = d /\ a + 1 # k
        BY <1>1, <1>2, <1>4, <2>1, <3>2
      <4> QED BY <1>1, <4>1 DEF In, Distinct
    <3> QED BY <3>1, <3>2
  <2>2. ASSUME NEW a \in 1 .. Len(s), s[a] = d, d # c
        PROVE  In(t, d)
    <3>1. CASE a < k
      <4>1. a \in 1 .. Len(t) /\ t[a] = d
        BY <1>1, <1>2, <1>4, <2>2, <3>1
      <4> QED BY <4>1 DEF In
    <3>2. CASE a > k
      <4>1. a - 1 \in 1 .. Len(t) /\ t[a - 1] = d
        BY <1>1, <1>2, <1>4, <2>2, <3>2
      <4> QED BY <4>1 DEF In
    <3> QED BY <1>1, <1>2, <2>2, <3>1, <3>2
  <2> QED BY <2>1, <2>2 DEF In
<1> QED BY <1>4, <1>5, <1>6, <1>7

\* What LIST_ADD_HEAD makes of a list without c.
LEMMA AddLemma ==
  ASSUME NEW S, NEW s \in Seq(S), Distinct(s), NEW c \in S, ~In(s, c)
  PROVE  /\ <<c>> \o s \in Seq(S)
         /\ Distinct(<<c>> \o s)
         /\ \A d : In(<<c>> \o s, d) <=> In(s, d) \/ d = c
<1> DEFINE t == <<c>> \o s
<1>1. /\ t \in Seq(S) /\ Len(t) = Len(s) + 1 /\ t[1] = c
      /\ \A a \in 1 .. Len(s) : t[a + 1] = s[a]
      /\ Len(s) \in Nat
  OBVIOUS
<1> HIDE DEF t
<1>2. \A a \in 1 .. Len(t) : a = 1 \/ (a - 1 \in 1 .. Len(s) /\ t[a] = s[a - 1])
  <2> SUFFICES ASSUME NEW a \in 1 .. Len(t), a # 1
               PROVE  a - 1 \in 1 .. Len(s) /\ t[a] = s[a - 1]
    OBVIOUS
  <2>1. a - 1 \in 1 .. Len(s) /\ (a - 1) + 1 = a
    BY <1>1
  <2> QED BY <1>1, <2>1
<1>3. Distinct(t)
  <2> SUFFICES ASSUME NEW a \in 1 .. Len(t), NEW b \in 1 .. Len(t), t[a] = t[b], a # 1
               PROVE  a = b
    BY <1>1 DEF Distinct
  <2>1. a - 1 \in 1 .. Len(s) /\ t[a] = s[a - 1]
    BY <1>2
  <2>2. b # 1
    BY <1>1, <2>1 DEF In
  <2>3. b - 1 \in 1 .. Len(s) /\ t[b] = s[b - 1]
    BY <1>2, <2>2
  <2>4. a - 1 = b - 1
    BY <2>1, <2>3 DEF Distinct
  <2> QED BY <1>1, <2>4
<1>4. ASSUME NEW d
      PROVE  In(t, d) <=> In(s, d) \/ d = c
  <2>1. In(t, d) => In(s, d) \/ d = c
    <3> SUFFICES ASSUME NEW a \in 1 .. Len(t), t[a] = d, d # c PROVE In(s, d)
      BY DEF In
    <3>1. a - 1 \in 1 .. Len(s) /\ t[a] = s[a - 1]
      BY <1>1, <1>2
    <3> QED BY <3>1 DEF In
  <2>2. In(s, d) => In(t, d)
    <3> SUFFICES ASSUME NEW a \in 1 .. Len(s), s[a] = d
                 PROVE  In(t, d)
      BY DEF In
    <3>1. a + 1 \in 1 .. Len(t) /\ t[a + 1] = d
      BY <1>1
    <3> QED BY <3>1 DEF In
  <2>3. d = c => In(t, d)
    <3>1. 1 \in 1 .. Len(t)
      BY <1>1
    <3> QED BY <1>1, <3>1 DEF In
  <2> QED BY <2>1, <2>2, <2>3
<1> QED BY <1>1, <1>3, <1>4 DEF t

\* The rest of the list that is walked.
LEMMA TailLemma ==
  ASSUME NEW S, NEW s \in Seq(S), Distinct(s), s # <<>>
  PROVE  /\ Head(s) \in S /\ In(s, Head(s))
         /\ Tail(s) \in Seq(S) /\ Distinct(Tail(s))
         /\ \A d : In(Tail(s), d) <=> In(s, d) /\ d # Head(s)
<1> DEFINE t == Tail(s)
<1>1. /\ Len(s) \in Nat /\ Len(s) > 0 /\ Head(s) = s[1] /\ Head(s) \in S
      /\ t \in Seq(S) /\ Len(t) = Len(s) - 1
      /\ \A a \in 1 .. Len(t) : t[a] = s[a + 1]
  OBVIOUS
<1> HIDE DEF t
<1>2. In(s, Head(s))
  <2>1. 1 \in 1 .. Len(s)
    BY <1>1
  <2> QED BY <1>1, <2>1 DEF In
<1>3. Distinct(t)
  <2> SUFFICES ASSUME NEW a \in 1 .. Len(t), NEW b \in 1 .. Len(t), t[a] = t[b]
               PROVE  a = b
    BY DEF Distinct
  <2>1. a + 1 \in 1 .. Len(s) /\ b + 1 \in 1 .. Len(s) /\ s[a + 1] = s[b + 1]
    BY <1>1
  <2>2. a + 1 = b + 1
    BY <2>1 DEF Distinct
  <2> QED BY <1>1, <2>2
<1>4. ASSUME NEW d
      PROVE  In(t, d) <=> In(s, d) /\ d # Head(s)
  <2>1. ASSUME NEW a \in 1 .. Len(t), t[a] = d
        PROVE  In(s, d) /\ d # Head(s)
    <3>1. a + 1 \in 1 .. Len(s) /\ 1 \in 1 .. Len(s) /\ s[a + 1] = d /\ a + 1 # 1
      BY <1>1, <2>1
    <3> QED BY <1>1, <3>1 DEF In, Distinct
  <2>2. ASSUME NEW a \in 1 .. Len(s), s[a] = d, d # Head(s)
        PROVE  In(t, d)
    <3>1. a - 1 \in 1 .. Len(t) /\ t[a - 1] = d
      BY <1>1, <2>2
    <3> QED BY <3>1 DEF In
  <2> QED BY <2>1, <2>2 DEF In
<1> QED BY <1>1, <1>2, <1>3, <1>4 DEF t

(***************************************************************************)
(* NothingLeftOpen.                                                        *)
(***************************************************************************)
\* The list has no repetitions; what is left of the walk is still listed (a connection leaves
\* only at its own turn); a browser's connection is listed while its socket is connected.
ListInv ==
  /\ conns \in Seq(Ids) /\ Distinct(conns) /\ todo \in Seq(Ids) /\ Distinct(todo)
  /\ \A c \in Ids : In(todo, c) => In(conns, c)
  /\ main \in {"read", "write", "close"} => todo # <<>>
  /\ main = "write" => Head(todo) # Listener
  /\ lpc = "open" => ~In(conns, Listener)

SockInv ==
  /\ DOMAIN sock = Clients
  /\ \A c \in Clients : In(conns, c) <=> sock[c] \in {"up", "shut"}

Fields == {"pfn", "fn", "stream", "closing", "recv", "out", "left"}

Shape(cn) == DOMAIN cn = Ids /\ \A c \in Ids : DOMAIN cn[c] = Fields

ConnInv == Shape(conn) /\ conn[Listener].pfn # "static"

FileInv ==
  /\ files \subseteq Ids
  /\ \A c \in Ids : c \in files <=> In(conns, c) /\ conn[c].pfn = "static"

\* After mg_mgr_free has marked them, every listed connection is closing and no listener is
\* set up any more; in the last walk every one of them still has its turn.
LastInv ==
  /\ stop = "last" => lpc = "done" /\ \A c \in Ids : In(conns, c) => conn[c].closing
  /\ stop = "last" /\ main \in {"conn", "read", "write", "close"} =>
       \A c \in Ids : In(conns, c) => In(todo, c)
  /\ main = "exit" => stop = "last" /\ conns = <<>>

CamInv == ListInv /\ SockInv /\ ConnInv /\ FileInv /\ LastInv

\* Nothing is in an empty list, and only in an empty one.
LEMMA EmptyLemma ==
  ASSUME NEW S, NEW s \in Seq(S), \A d \in S : ~In(s, d)
  PROVE  s = <<>>
<1> SUFFICES ASSUME s # <<>> PROVE FALSE
  OBVIOUS
<1>1. 1 \in 1 .. Len(s) /\ s[1] \in S
  OBVIOUS
<1> QED BY <1>1 DEF In

\* InList is membership of mgr->conns.
LEMMA InListLemma == \A c : InList(c) <=> In(conns, c)
BY DEF InList, In

\* How one event of connection c changes its handler and its file, from the connections cn.
Serves(c, cn) ==
  /\ Shape(conn')
  /\ \A d \in Ids : conn'[d].closing = cn[d].closing
  /\ \A d \in Ids : d # c => conn'[d].pfn = cn[d].pfn
  /\ \/ files' = files /\ conn'[c].pfn = cn[c].pfn
     \/ files' = files \cup {c} /\ conn'[c].pfn = "static" /\ c # Listener
     \/ files' = files \ {c} /\ conn'[c].pfn = "http"

\* static_cb gives the file up exactly when it gives the connection back to http_cb.
LEMMA StaticLemma ==
  ASSUME NEW c \in Ids, NEW cn, Shape(cn), Static(c, cn)
  PROVE  Serves(c, cn)
<1>1. CASE ~Fills(c, cn)
  BY <1>1 DEF Static, Serves, Shape, Fields
<1>2. CASE Fills(c, cn)
  <2>1. conn' = static_cb(c, cn)
    BY <1>2 DEF Static
  <2> DEFINE space == IoSize - Blocks(cn[c].out)
             n == IF cn[c].left < space THEN cn[c].left ELSE space
             h == IF n < space THEN "http" ELSE "static"
             o == cn[c].out \o [k \in 1 .. n |-> "block"]
             l == cn[c].left - n
  <2>2. conn' = [cn EXCEPT ![c].out = o, ![c].left = l, ![c].pfn = h]
    BY <2>1 DEF static_cb
  <2>3. h \in {"http", "static"}
    OBVIOUS
  <2> HIDE DEF o, l, h, n, space
  <2>4. /\ Shape(conn') /\ conn'[c].pfn = h
        /\ \A d \in Ids : conn'[d].closing = cn[d].closing
        /\ \A d \in Ids : d # c => conn'[d].pfn = cn[d].pfn
    BY <2>2 DEF Shape, Fields
  <2>5. cn[c].pfn = "static"
    BY <1>2 DEF Fills
  <2> QED BY <2>3, <2>4, <2>5 DEF Static, Serves
<1> QED BY <1>1, <1>2

\* A request opens a file only for the connection whose handler becomes static_cb.
LEMMA OutputLemma ==
  ASSUME NEW c \in Clients, NEW r, NEW cn, Shape(cn), Output(c, r, cn)
  PROVE  Serves(c, cn)
<1>0. c \in Ids /\ c # Listener
  BY CameraAssumption DEF Ids, Listener
<1>1. ASSUME NEW d, NEW part, Shape(d)
      PROVE  /\ Shape(mg_send(d, c, part))
             /\ \A e \in Ids : /\ mg_send(d, c, part)[e].pfn = d[e].pfn
                               /\ mg_send(d, c, part)[e].closing = d[e].closing
  <2> DEFINE o == Append(d[c].out, part)
  <2>1. mg_send(d, c, part) = [d EXCEPT ![c].out = o]
    BY DEF mg_send
  <2> HIDE DEF o
  <2> QED BY <1>0, <1>1, <2>1 DEF Shape, Fields
<1>2. CASE conn' = mg_http_reply(cn, c) /\ UNCHANGED <<files, pend>>
  BY <1>0, <1>1, <1>2 DEF mg_http_reply, Serves
<1>3. CASE mg_http_serve_file(c, cn)
  <2>1. CASE conn' = mg_http_reply(cn, c) /\ UNCHANGED <<files, pend>>
    BY <1>2, <2>1
  <2>2. ASSUME NEW n \in FileSizes,
               conn' = mg_send([cn EXCEPT ![c].pfn = "static", ![c].left = n], c, "head"),
               files' = files \cup {c}
        PROVE  Serves(c, cn)
    <3> DEFINE d == [cn EXCEPT ![c].pfn = "static", ![c].left = n]
    <3>1. /\ Shape(d) /\ d[c].pfn = "static"
          /\ \A e \in Ids : d[e].closing = cn[e].closing
          /\ \A e \in Ids : e # c => d[e].pfn = cn[e].pfn
      BY <1>0 DEF Shape, Fields
    <3>2. conn' = mg_send(d, c, "head")
      BY <2>2
    <3>3. files' = files \cup {c}
      BY <2>2
    <3> HIDE DEF d
    <3> QED BY <1>0, <1>1, <3>1, <3>2, <3>3 DEF Serves
  <2> QED BY <1>3, <2>1, <2>2 DEF mg_http_serve_file
<1>4. CASE r.ep = "file"
  BY <1>2, <1>3, <1>4 DEF Output, mg_http_serve_dir
<1>5. CASE r.ep # "file"
  <2>0. files' = files
    BY <1>5 DEF Output
  <2>1. CASE conn' = cn
    BY <1>0, <2>0, <2>1 DEF Serves
  <2>2. CASE conn' = mg_http_reply(cn, c)
    BY <1>0, <1>1, <2>0, <2>2 DEF mg_http_reply, Serves
  <2>3. CASE conn' = mg_send([cn EXCEPT ![c].stream = TRUE], c, "hdr")
    <3> DEFINE d == [cn EXCEPT ![c].stream = TRUE]
    <3>1. /\ Shape(d)
          /\ \A e \in Ids : d[e].closing = cn[e].closing /\ d[e].pfn = cn[e].pfn
      BY <1>0 DEF Shape, Fields
    <3>2. conn' = mg_send(d, c, "hdr")
      BY <2>3
    <3> HIDE DEF d
    <3> QED BY <1>0, <1>1, <2>0, <3>1, <3>2 DEF Serves
  <2> QED BY <1>5, <2>1, <2>2, <2>3 DEF Output
<1> QED BY <1>4, <1>5

\* An event of a listed connection keeps handlers and files in step.
LEMMA ServeStep ==
  ASSUME ConnInv, FileInv, NEW c \in Ids, In(conns, c), NEW cn, Shape(cn),
         \A d \in Ids : cn[d].pfn = conn[d].pfn, Serves(c, cn), UNCHANGED conns
  PROVE  ConnInv' /\ FileInv'
<1>0. Listener \in Ids
  BY DEF Ids
<1>1. CASE files' = files /\ conn'[c].pfn = cn[c].pfn
  <2>1. \A d \in Ids : conn'[d].pfn = conn[d].pfn
    BY <1>1 DEF Serves
  <2> QED BY <1>0, <1>1, <2>1 DEF ConnInv, FileInv, Serves
<1>2. CASE files' = files \cup {c} /\ conn'[c].pfn = "static" /\ c # Listener
  <2>1. \A d \in Ids : d # c => conn'[d].pfn = conn[d].pfn
    BY DEF Serves
  <2> QED BY <1>0, <1>2, <2>1 DEF ConnInv, FileInv, Serves
<1>3. CASE files' = files \ {c} /\ conn'[c].pfn = "http"
  <2>1. \A d \in Ids : d # c => conn'[d].pfn = conn[d].pfn
    BY DEF Serves
  <2> QED BY <1>0, <1>3, <2>1 DEF ConnInv, FileInv, Serves
<1> QED BY <1>1, <1>2, <1>3 DEF Serves

\* The setting up of the listener, the signal and the browsers.
LEMMA OutsideStep ==
  ASSUME CamInv,
         \/ CamSetup \/ Sigint
         \/ \E c \in Clients : Connect(c) \/ Request(c) \/ RequestRest(c) \/ Shut(c)
  PROVE  CamInv'
<1> USE DEF CamInv
<1>0. Listener \in Ids /\ Listener \notin Clients /\ Clients \subseteq Ids
  BY CameraAssumption DEF Ids, Listener
<1>1. CASE ListenOpen
  <2>1. CASE UNCHANGED conns
    BY <1>1, <2>1 DEF ListenOpen, ListInv, SockInv, ConnInv, FileInv, LastInv, loopVars,
       clientVars
  <2>2. CASE conns' = <<Listener>> \o conns /\ lpc' = "fn"
    <3>1. ~In(conns, Listener) /\ conns \in Seq(Ids) /\ Distinct(conns)
      BY <1>1 DEF ListenOpen, ListInv
    <3>2. /\ conns' \in Seq(Ids) /\ Distinct(conns')
          /\ \A d : In(conns', d) <=> In(conns, d) \/ d = Listener
      BY <1>0, <2>2, <3>1, AddLemma
    <3>3. UNCHANGED <<main, todo, stop, conn, files, sock>>
      BY <1>1 DEF ListenOpen, loopVars, clientVars
    <3>4. stop # "last" /\ main # "exit"
      BY <1>1 DEF ListenOpen, LastInv
    <3>5. ListInv'
      BY <2>2, <3>2, <3>3 DEF ListInv
    <3>6. SockInv' /\ ConnInv' /\ FileInv' /\ LastInv'
      BY <1>0, <3>2, <3>3, <3>4 DEF SockInv, ConnInv, FileInv, LastInv
    <3> QED BY <3>5, <3>6
  <2> QED BY <1>1, <2>1, <2>2 DEF ListenOpen
<1>2. CASE ListenFn \/ ListenPfn
  <2>1. UNCHANGED <<main, todo, stop, conns, files, sock>> /\ lpc # "open" /\ lpc' # "open"
        /\ (lpc = "done" => lpc' = "done")
    BY <1>2 DEF ListenFn, ListenPfn, loopVars, clientVars
  <2>2. /\ Shape(conn') /\ conn'[Listener].pfn # "static"
        /\ \A d \in Ids : conn'[d].closing = conn[d].closing
        /\ \A d \in Ids : d # Listener => conn'[d].pfn = conn[d].pfn
    <3>1. CASE ListenFn
      <4>1. conn' = [conn EXCEPT ![Listener].fn = TRUE]
        BY <3>1 DEF ListenFn
      <4> QED BY <1>0, <4>1 DEF ConnInv, Shape, Fields
    <3>2. CASE ListenPfn
      <4>1. conn' = [conn EXCEPT ![Listener].pfn = "http"]
        BY <3>2 DEF ListenPfn
      <4> QED BY <1>0, <4>1 DEF ConnInv, Shape, Fields
    <3> QED BY <1>2, <3>1, <3>2
  <2>3. ListInv' /\ SockInv' /\ ConnInv'
    BY <2>1, <2>2 DEF ListInv, SockInv, ConnInv
  <2>4. FileInv'
    BY <1>0, <2>1, <2>2 DEF FileInv, ConnInv
  <2>5. LastInv'
    BY <2>1, <2>2 DEF LastInv
  <2> QED BY <2>3, <2>4, <2>5
<1>3. CASE StreamThread
  BY <1>3 DEF StreamThread, ListInv, SockInv, ConnInv, FileInv, LastInv, loopVars, clientVars
<1>4. CASE Sigint
  BY <1>4 DEF Sigint, ListInv, SockInv, ConnInv, FileInv, LastInv, setupVars, clientVars
<1>5. ASSUME NEW c \in Clients, Connect(c) \/ Request(c) \/ RequestRest(c) \/ Shut(c)
      PROVE  CamInv'
  <2>1. UNCHANGED <<main, todo, stop, lpc, conns, conn, files>>
    BY <1>5, Zenon DEF Connect, Request, RequestRest, Shut, serverVars, loopVars, setupVars
  <2>2. SockInv'
    <3>1. CASE Connect(c)
      BY <2>1, <3>1 DEF Connect, SockInv
    <3>2. CASE Request(c) \/ RequestRest(c)
      <4>1. sock' = sock
        BY <3>2, Zenon DEF Request, RequestRest
      <4> QED BY <2>1, <4>1 DEF SockInv
    <3>3. CASE Shut(c)
      BY <2>1, <3>3 DEF Shut, SockInv
    <3> QED BY <1>5, <3>1, <3>2, <3>3
  <2> QED BY <2>1, <2>2 DEF ListInv, ConnInv, FileInv, LastInv
<1> QED BY <1>1, <1>2, <1>3, <1>4, <1>5 DEF CamSetup

\* The start of a poll: the timer only adds to send buffers.
LEMMA PollStep ==
  ASSUME CamInv, PollStart
  PROVE  CamInv'
<1> USE DEF CamInv
<1>0. Listener \in Ids /\ Clients \subseteq Ids
  BY DEF Ids
<1>1. /\ UNCHANGED <<stop, lpc, conns, files, sock>> /\ todo' = conns
      /\ main' \in {"conn", "crash", "nodev", "nofds", "notimer"}
  BY DEF PollStart, setupVars, clientVars, mg_timer_poll, timer_callback, capture_photo,
         video_capture_stream
<1>2. Shape(conn') /\ \A d \in Ids : conn'[d].pfn = conn[d].pfn /\ conn'[d].closing = conn[d].closing
  <2>1. Shape(conn)
    BY DEF ConnInv
  <2>2. /\ Shape(send_frame)
        /\ \A d \in Ids : /\ send_frame[d].pfn = conn[d].pfn
                          /\ send_frame[d].closing = conn[d].closing
    <3> DEFINE o(d) == Append(conn[d].out, "frame")
    <3>1. send_frame = [d \in Ids |-> IF d \in Streams THEN [conn[d] EXCEPT !.out = o(d)]
                                      ELSE conn[d]]
      BY DEF send_frame
    <3> HIDE DEF o
    <3> QED BY <2>1, <3>1 DEF Shape, Fields
  <2>3. CASE conn' = conn
    BY <2>1, <2>3
  <2>4. CASE conn' = send_frame
    BY <2>2, <2>4
  <2>5. CASE conns # <<>> /\ conn' = mg_http_reply(send_frame, Head(conns))
    <3> DEFINE c == Head(conns)
               o == Append(send_frame[c].out, "reply")
    <3>1. c \in Ids
      BY <2>5 DEF ListInv
    <3>2. conn' = [send_frame EXCEPT ![c].out = o]
      BY <2>5 DEF mg_http_reply, mg_send
    <3> HIDE DEF c, o
    <3> QED BY <2>2, <3>1, <3>2 DEF Shape, Fields
  <2> QED BY <2>3, <2>4, <2>5 DEF PollStart, mg_timer_poll, timer_callback, capture_photo
<1>3. ListInv' /\ SockInv'
  BY <1>1 DEF ListInv, SockInv
<1>4. ConnInv' /\ FileInv'
  BY <1>0, <1>1, <1>2 DEF ConnInv, FileInv
<1>5. LastInv'
  BY <1>1, <1>2 DEF LastInv
<1> QED BY <1>3, <1>4, <1>5

\* The POLL, READ and WRITE events of the connection whose turn it is.
LEMMA EventStep ==
  ASSUME CamInv, EvPoll \/ ReadConn \/ WriteConn
  PROVE  CamInv'
<1> USE DEF CamInv
<1> DEFINE c == Head(todo)
<1>0. Listener \in Ids /\ Clients \subseteq Ids /\ Ids = Clients \cup {Listener}
  BY DEF Ids
<1>1. /\ UNCHANGED <<todo, stop, lpc, conns, sock>>
      /\ main \in {"conn", "read", "write"} /\ main' \in {"read", "write", "close"}
      /\ todo # <<>>
      /\ main' = "write" => c # Listener
  <2>1. UNCHANGED <<todo, stop, lpc, conns, sock>>
    BY Zenon DEF EvPoll, ReadConn, WriteConn, setupVars, clientVars
  <2>2. /\ main \in {"conn", "read", "write"} /\ main' \in {"read", "write", "close"}
        /\ (main' = "write" => c # Listener) /\ (main = "conn" => todo # <<>>)
    <3>1. CASE EvPoll
      BY <3>1 DEF EvPoll
    <3>2. CASE ReadConn
      BY <3>2 DEF ReadConn
    <3>3. CASE WriteConn
      BY <3>3 DEF WriteConn
    <3> QED BY <3>1, <3>2, <3>3
  <2> QED BY <2>1, <2>2 DEF ListInv
<1>2. c \in Ids /\ In(todo, c) /\ In(conns, c)
  BY <1>1, TailLemma DEF ListInv
<1>3. Shape(conn)
  BY DEF ConnInv
<1>4. /\ ConnInv' /\ FileInv'
      /\ \A d \in Ids : conn[d].closing => conn'[d].closing
  <2> HIDE DEF c
  <2>1. ASSUME NEW cn, Shape(cn), Serves(c, cn), \A d \in Ids : cn[d].pfn = conn[d].pfn,
               \A d \in Ids : cn[d].closing = conn[d].closing
        PROVE  /\ ConnInv' /\ FileInv'
               /\ \A d \in Ids : conn[d].closing => conn'[d].closing
    <3>1. ConnInv' /\ FileInv'
      BY <1>1, <1>2, <2>1, ServeStep
    <3> QED BY <2>1, <3>1 DEF Serves
  <2>2. CASE conn' = [conn EXCEPT ![c].closing = TRUE] /\ files' = files
    <3>1. Shape(conn') /\ \A d \in Ids : conn'[d].pfn = conn[d].pfn
      BY <1>2, <1>3, <2>2 DEF Shape, Fields
    <3>2. \A d \in Ids : conn[d].closing => conn'[d].closing
      BY <1>2, <1>3, <2>2 DEF Shape, Fields
    <3>3. files' = files
      BY <2>2
    <3>4. ConnInv' /\ FileInv'
      BY <1>0, <1>1, <3>1, <3>3 DEF ConnInv, FileInv
    <3> QED BY <3>2, <3>4
  <2>3. CASE conn' = conn /\ files' = files
    BY <1>1, <2>3 DEF ConnInv, FileInv
  <2>4. ASSUME NEW v, conn' = [conn EXCEPT ![c].recv = v], files' = files
        PROVE  /\ ConnInv' /\ FileInv'
               /\ \A d \in Ids : conn[d].closing => conn'[d].closing
    <3>1. Shape(conn') /\ \A d \in Ids : conn'[d].pfn = conn[d].pfn /\ conn'[d].closing = conn[d].closing
      BY <1>2, <1>3, <2>4 DEF Shape, Fields
    <3>2. files' = files
      BY <2>4
    <3> QED BY <1>0, <1>1, <3>1, <3>2 DEF ConnInv, FileInv
  <2>5. CASE EvPoll
    <3>1. Static(c, conn)
      BY <2>5 DEF EvPoll, c
    <3>2. Serves(c, conn)
      BY <1>2, <1>3, <3>1, StaticLemma
    <3> QED BY <1>3, <2>1, <3>2
  <2>6. CASE ReadConn
    <3>0. c \in Clients
      BY <1>0, <1>2, <2>6 DEF ReadConn, c
    <3>1. ASSUME NEW r, handle_request(c, r, [conn EXCEPT ![c].recv = NoReq])
          PROVE  /\ ConnInv' /\ FileInv'
                 /\ \A d \in Ids : conn[d].closing => conn'[d].closing
      <4> DEFINE cn == [conn EXCEPT ![c].recv = NoReq]
      <4>1. Shape(cn) /\ \A d \in Ids : cn[d].pfn = conn[d].pfn /\ cn[d].closing = conn[d].closing
        BY <1>2, <1>3 DEF Shape, Fields
      <4>2. Output(c, r, cn)
        BY <3>1 DEF handle_request
      <4> HIDE DEF cn
      <4>3. Serves(c, cn)
        BY <3>0, <4>1, <4>2, OutputLemma
      <4> QED BY <2>1, <4>1, <4>3
    <3>2. ASSUME NEW r, http_cb(c, r)
          PROVE  /\ ConnInv' /\ FileInv'
                 /\ \A d \in Ids : conn[d].closing => conn'[d].closing
      BY <2>2, <2>4, <3>1, <3>2, Zenon DEF http_cb
    <3> QED BY <2>2, <2>3, <2>4, <2>6, <3>2, Zenon DEF ReadConn, c
  <2>7. CASE WriteConn
    <3>1. ASSUME NEW n, Static(c, [conn EXCEPT ![c].out = mg_iobuf_delete(@, n)])
          PROVE  /\ ConnInv' /\ FileInv'
                 /\ \A d \in Ids : conn[d].closing => conn'[d].closing
      <4> DEFINE o == mg_iobuf_delete(conn[c].out, n)
      <4> DEFINE cn == [conn EXCEPT ![c].out = o]
      <4>1. Static(c, cn)
        BY <3>1
      <4> HIDE DEF o
      <4>2. Shape(cn) /\ \A d \in Ids : cn[d].pfn = conn[d].pfn /\ cn[d].closing = conn[d].closing
        BY <1>2, <1>3 DEF Shape, Fields
      <4> HIDE DEF cn
      <4>3. Serves(c, cn)
        BY <1>2, <4>1, <4>2, StaticLemma
      <4> QED BY <2>1, <4>2, <4>3
    <3> QED BY <2>2, <2>3, <2>7, <3>1, Zenon DEF WriteConn, c
  <2> QED BY <2>5, <2>6, <2>7
<1>5. ListInv' /\ SockInv'
  BY <1>1 DEF ListInv, SockInv
<1>6. LastInv'
  BY <1>1, <1>4 DEF LastInv
<1> QED BY <1>4, <1>5, <1>6

\* accept_conn: a connection that was not listed, with the listener's handlers.
LEMMA AcceptStep ==
  ASSUME CamInv, Accept
  PROVE  CamInv'
<1> USE DEF CamInv
<1>0. Listener \in Ids /\ Listener \notin Clients /\ Clients \subseteq Ids
  BY CameraAssumption DEF Ids, Listener
<1>1. /\ UNCHANGED <<todo, stop, lpc, files>> /\ main = "read" /\ main' = "close"
      /\ Head(todo) = Listener
  BY DEF Accept, setupVars
<1>2. todo # <<>> /\ In(todo, Listener) /\ In(conns, Listener)
  BY <1>0, <1>1, TailLemma DEF ListInv
<1>3. CASE UNCHANGED <<sock, conns, conn>>
  BY <1>1, <1>2, <1>3 DEF ListInv, SockInv, ConnInv, FileInv, LastInv
<1>4. ASSUME NEW d \in Clients, sock' = [sock EXCEPT ![d] = "off"], UNCHANGED <<conns, conn>>,
             sock[d] = "syn"
      PROVE  CamInv'
  <2>1. SockInv'
    BY <1>4 DEF SockInv
  <2> QED BY <1>1, <1>2, <1>4, <2>1 DEF ListInv, ConnInv, FileInv, LastInv
<1>5. ASSUME NEW d \in Clients, sock[d] = "syn", ~conn[Listener].closing,
             conns' = <<d>> \o conns, sock' = [sock EXCEPT ![d] = "up"],
             conn' = [conn EXCEPT ![d] = [NewConn EXCEPT !.fn = conn[Listener].fn,
                                                 !.pfn = conn[Listener].pfn]]
      PROVE  CamInv'
  <2>1. ~In(conns, d) /\ d \in Ids /\ d # Listener
    BY <1>0, <1>5 DEF SockInv
  <2>2. /\ conns' \in Seq(Ids) /\ Distinct(conns')
        /\ \A e : In(conns', e) <=> In(conns, e) \/ e = d
    BY <1>5, <2>1, AddLemma DEF ListInv
  <2>3. stop # "last"
    BY <1>0, <1>2, <1>5 DEF LastInv
  <2>4. /\ Shape(conn') /\ conn'[d].pfn # "static"
        /\ \A e \in Ids : e # d => conn'[e] = conn[e]
    BY <1>0, <1>5, <2>1 DEF ConnInv, Shape, Fields, NewConn
  <2>5. ListInv'
    BY <1>0, <1>1, <1>2, <2>1, <2>2 DEF ListInv
  <2>6. SockInv'
    BY <1>5, <2>2 DEF SockInv
  <2>7. ConnInv' /\ FileInv'
    BY <1>0, <1>1, <2>1, <2>2, <2>4 DEF ConnInv, FileInv
  <2>8. LastInv'
    BY <1>1, <2>3 DEF LastInv
  <2> QED BY <2>5, <2>6, <2>7, <2>8
<1> QED BY <1>3, <1>4, <1>5, Zenon DEF Accept

\* close_conn: a closing connection leaves the list with its file.
LEMMA CloseStep ==
  ASSUME CamInv, CloseConn
  PROVE  CamInv'
<1> USE DEF CamInv
<1> DEFINE c == Head(todo)
<1>0. Listener \in Ids /\ Clients \subseteq Ids
  BY DEF Ids
<1>1. UNCHANGED <<stop, lpc>> /\ main = "close" /\ main' \in {"conn", "wild"} /\ todo' = Tail(todo)
  BY DEF CloseConn, setupVars, get_json_value
<1>2. /\ c \in Ids /\ In(todo, c) /\ In(conns, c)
      /\ todo' \in Seq(Ids) /\ Distinct(todo')
      /\ \A d : In(todo', d) <=> In(todo, d) /\ d # c
  <2>1. todo # <<>>
    BY <1>1 DEF ListInv
  <2> QED BY <1>1, <2>1, TailLemma DEF ListInv
<1>3. CASE ~conn[c].closing
  <2>1. UNCHANGED <<conns, conn, files, sock>>
    BY <1>3 DEF CloseConn, clientVars
  <2>2. stop # "last"
    BY <1>2, <1>3 DEF LastInv
  <2> HIDE DEF c
  <2>3. ListInv'
    BY <1>1, <1>2, <2>1 DEF ListInv
  <2> QED BY <1>1, <2>1, <2>2, <2>3 DEF SockInv, ConnInv, FileInv, LastInv
<1>4. CASE conn[c].closing
  <2>1. /\ conns' = LIST_DELETE(conns, c)
        /\ conn' = [conn EXCEPT ![c] = NewConn]
        /\ files' = IF conn[c].pfn = "static" THEN files \ {c} ELSE files
        /\ sock' = [d \in Clients |-> IF d = c THEN "off" ELSE sock[d]]
    BY <1>4 DEF CloseConn, CloseFile
  <2>2. /\ conns' \in Seq(Ids) /\ Distinct(conns')
        /\ \A d : In(conns', d) <=> In(conns, d) /\ d # c
    BY <1>2, <2>1, DeleteLemma DEF ListInv
  <2> HIDE DEF c
  <2>3. /\ Shape(conn') /\ conn'[c].pfn # "static"
        /\ \A e \in Ids : e # c => conn'[e] = conn[e]
    BY <1>2, <2>1 DEF ConnInv, Shape, Fields, NewConn
  <2>4. ListInv'
    BY <1>0, <1>1, <1>2, <2>2 DEF ListInv
  <2>5. SockInv'
    BY <2>1, <2>2 DEF SockInv
  <2>6. ConnInv' /\ FileInv'
    BY <1>0, <1>2, <2>1, <2>2, <2>3 DEF ConnInv, FileInv
  <2>7. LastInv'
    BY <1>1, <1>2, <2>2, <2>3 DEF LastInv
  <2> QED BY <2>4, <2>5, <2>6, <2>7
<1> QED BY <1>3, <1>4

\* The end of a poll, and mg_mgr_free.
LEMMA EndStep ==
  ASSUME CamInv, PollEnd \/ MgrFree
  PROVE  CamInv'
<1> USE DEF CamInv
<1>0. Listener \in Ids
  BY DEF Ids
<1>1. UNCHANGED <<todo, lpc, conns, files, sock>>
  BY Zenon DEF PollEnd, MgrFree, setupVars, clientVars
<1>2. CASE PollEnd
  <2>1. conn' = conn /\ stop' = stop /\ main = "conn" /\ todo = <<>>
        /\ main' \in {"poll", "exit"} /\ (main' = "exit" => stop = "last")
    BY <1>2 DEF PollEnd
  <2>2. stop = "last" => conns = <<>>
    <3> SUFFICES ASSUME stop = "last" PROVE conns = <<>>
      OBVIOUS
    <3>1. \A d \in Ids : ~In(conns, d)
      BY <2>1 DEF LastInv, In
    <3> QED BY <3>1, EmptyLemma DEF ListInv
  <2>3. ListInv' /\ SockInv' /\ ConnInv' /\ FileInv'
    BY <1>1, <2>1 DEF ListInv, SockInv, ConnInv, FileInv
  <2>4. LastInv'
    BY <1>1, <2>1, <2>2 DEF LastInv
  <2> QED BY <2>3, <2>4
<1>3. CASE MgrFree
  <2>1. main' = main /\ main = "poll" /\ lpc = "done"
        /\ conn' = [c \in Ids |-> MarkClosing(c)]
    BY <1>3 DEF MgrFree
  <2>2. /\ Shape(conn') /\ \A d \in Ids : conn'[d].pfn = conn[d].pfn
        /\ \A d \in Ids : In(conns, d) => conn'[d].closing
    BY <2>1, InListLemma DEF MarkClosing, ConnInv, Shape, Fields
  <2>3. ListInv' /\ SockInv'
    BY <1>1, <2>1 DEF ListInv, SockInv
  <2>4. ConnInv' /\ FileInv'
    BY <1>0, <1>1, <2>2 DEF ConnInv, FileInv
  <2>5. LastInv'
    BY <1>1, <2>1, <2>2 DEF LastInv
  <2> QED BY <2>3, <2>4, <2>5
<1> QED BY <1>2, <1>3

\* The file and connection invariant holds throughout.
LEMMA CamInvariant == CamSpec => []CamInv
<1>1. CamInit => CamInv
  <2> SUFFICES ASSUME CamInit PROVE CamInv
    OBVIOUS
  <2>1. \A d : ~In(<<>>, d)
    BY DEF In
  <2>2. ListInv /\ SockInv
    BY <2>1 DEF CamInit, ListInv, SockInv, Distinct
  <2>3. ConnInv /\ FileInv /\ LastInv
    BY <2>1 DEF CamInit, ConnInv, FileInv, LastInv, Shape, Fields, NewConn, Ids
  <2> QED BY <2>2, <2>3 DEF CamInv
<1>2. CamInv /\ [CamNext]_camVars => CamInv'
  <2> SUFFICES ASSUME CamInv, [CamNext]_camVars PROVE CamInv'
    OBVIOUS
  <2>1. CASE UNCHANGED camVars
    <3>1. UNCHANGED <<main, todo, stop, lpc, conns, conn, files, sock>>
      BY <2>1, Zenon DEF camVars, loopVars, setupVars, clientVars
    <3> QED BY <3>1 DEF CamInv, ListInv, SockInv, ConnInv, FileInv, LastInv
  <2>2. CASE CamNext
    BY <2>2, OutsideStep, PollStep, EventStep, AcceptStep, CloseStep, EndStep, Zenon
    DEF CamNext, CamServer
  <2> QED BY <2>1, <2>2
<1> QED BY <1>1, <1>2, PTL DEF CamSpec

\* For every number of browsers: an open FILE belongs to a listed connection that static_cb
\* serves, however the connection ends, and when the server leaves there
\* are no connections and no files left.
THEOREM CameraLeavesNothing == CamSpec => []NothingLeftOpen
<1>1. CamInv => NothingLeftOpen
  <2> SUFFICES ASSUME CamInv PROVE NothingLeftOpen
    OBVIOUS
  <2>1. \A c \in Ids : c \in files <=> InList(c) /\ conn[c].pfn = "static"
    BY InListLemma DEF CamInv, FileInv
  <2>2. ASSUME main = "exit"
        PROVE  conns = <<>> /\ files = {} /\ \A c \in Clients : sock[c] # "up"
    <3>1. conns = <<>>
      BY <2>2 DEF CamInv, LastInv
    <3>2. \A c : ~In(conns, c)
      BY <3>1 DEF In
    <3>3. \A c \in Clients : sock[c] # "up"
      BY <3>2 DEF CamInv, SockInv
    <3>4. files = {}
      BY <3>2 DEF CamInv, FileInv
    <3> QED BY <3>1, <3>3, <3>4
  <2> QED BY <2>1, <2>2 DEF NothingLeftOpen
<1> QED BY <1>1, CamInvariant, PTL

(***************************************************************************)
(* PagesPartition.                                                         *)
(***************************************************************************)
\* The photo list is a sequence: what get_list reads, with a photo before it for each capture.
LEMMA PhotoStep ==
  ASSUME head \in Seq(Nat), [CamNext]_camVars
  PROVE  head' \in Seq(Nat)
<1>1. ASSUME NEW r, Effect(r)
      PROVE  head' \in Seq(Nat)
  <2>1. CASE LoadList(r)
    <3>1. PICK d \in SUBSET (0 .. LastNum) : head' \in [1 .. Cardinality(d) -> d]
      BY <2>1 DEF LoadList, Listings
    <3>2. Cardinality(d) \in Nat
      <4>1. IsFiniteSet(0 .. LastNum)
        BY FS_Interval, CameraAssumption
      <4> QED BY <4>1, FS_Subset, FS_CardinalityType
    <3> DEFINE n == Cardinality(d)
    <3>3. d \subseteq Nat /\ n \in Nat /\ head' \in [1 .. n -> d]
      BY <3>1, <3>2, CameraAssumption
    <3> HIDE DEF n
    <3>4. head' \in [1 .. n -> Nat]
      BY <3>3
    <3> QED BY <3>3, <3>4
  <2>2. CASE head' = head
    BY <2>2
  <2> QED BY <1>1, <2>1, <2>2 DEF Effect, Button, set_camera_setting, photoVars
<1>2. CASE UNCHANGED head
  BY <1>2
<1>3. CASE PollStart
  <2>1. NextNum \in Nat
    BY CameraAssumption DEF NextNum
  <2>2. CASE head' = <<NextNum>> \o head
    BY <2>1, <2>2
  <2> QED BY <1>2, <1>3, <2>2
      DEF PollStart, mg_timer_poll, timer_callback, capture_photo, photoVars
<1>4. CASE ReadConn
  BY <1>1, <1>2, <1>4, Zenon DEF ReadConn, http_cb, handle_request, photoVars
<1>5. CASE CloseConn
  BY <1>1, <1>2, <1>5, Zenon DEF CloseConn, photoVars
<1>6. CASE PollEnd
  <2>1. head' = head \/ head' = <<>>
    BY <1>6, Zenon DEF PollEnd
  <2>2. <<>> \in Seq(Nat)
    OBVIOUS
  <2> QED BY <2>1, <2>2, Zenon
<1>7. CASE EvPoll \/ Accept \/ WriteConn \/ MgrFree \/ CamSetup \/ Sigint
  <2>1. head' = head
    BY <1>7, Zenon DEF EvPoll, Accept, WriteConn, MgrFree, CamSetup, ListenOpen, ListenFn,
       ListenPfn, StreamThread, Sigint, photoVars
  <2> QED BY <1>2, <2>1
<1>8. CASE \E c \in Clients : Connect(c) \/ Request(c) \/ RequestRest(c) \/ Shut(c)
  <2>1. head' = head
    BY <1>8, Zenon DEF Connect, Request, RequestRest, Shut, serverVars, photoVars
  <2> QED BY <1>2, <2>1
<1>9. CASE UNCHANGED camVars
  <2>1. head' = head
    BY <1>9, Zenon DEF camVars, photoVars
  <2> QED BY <1>2, <2>1
<1> QED BY <1>3, <1>4, <1>5, <1>6, <1>7, <1>8, <1>9, Zenon DEF CamNext, CamServer

\* Division with remainder.
LEMMA CameraDivMod ==
  ASSUME NEW n \in Nat \ {0}, NEW x \in Nat
  PROVE  x \div n \in Nat /\ x % n \in 0 .. n-1 /\ x = n * (x \div n) + (x % n)
OBVIOUS

\* A product decides the order of its factors.
LEMMA TimesOrder ==
  ASSUME NEW n \in Nat \ {0}, NEW a \in Nat, NEW b \in Nat, n * a < n * b
  PROVE  a < b
<1> SUFFICES ASSUME a >= b PROVE FALSE
  OBVIOUS
<1> DEFINE d == a - b
<1>1. d \in Nat /\ n * a = n * b + n * d
  OBVIOUS
<1>2. n * d >= 0
  BY <1>1
<1> HIDE DEF d
<1>3. n * a \in Nat /\ n * b \in Nat /\ n * d \in Nat
  BY <1>1
<1> QED BY <1>1, <1>2, <1>3

\* Position k is on page k \div IMAGE_PER_PAGE + 1 and on no other.
LEMMA PageOf ==
  ASSUME NEW list \in Seq(Nat), NEW k \in 0 .. Len(list) - 1, NEW p \in Nat
  PROVE  k \in get_page(list, p) <=> p = (k \div ImagePerPage) + 1
<1> DEFINE n == ImagePerPage
           q == k \div n
           m == k % n
<1>0. n \in Nat \ {0} /\ k \in Nat
  BY CameraAssumption
<1>1. q \in Nat /\ m \in 0 .. n-1 /\ k = n * q + m
  BY <1>0, CameraDivMod
<1>2. k \in get_page(list, p) <=> k + n >= p * n /\ k < p * n
  BY DEF get_page
<1> HIDE DEF n, q, m
<1>3. /\ p * n = n * p /\ n * (q + 1) = n * q + n /\ n * (q + 2) = n * q + (n + n)
      /\ n * p \in Nat /\ n * q \in Nat
  BY <1>0, <1>1
<1>4. p = q + 1 => k + n >= p * n /\ k < p * n
  BY <1>0, <1>1, <1>3
<1>5. ASSUME k + n >= p * n, k < p * n
      PROVE  p = q + 1
  <2>1. n * q < n * p
    BY <1>0, <1>1, <1>3, <1>5
  <2>2. n * p < n * (q + 2)
    BY <1>0, <1>1, <1>3, <1>5
  <2>3. q < p /\ p < q + 2
    BY <1>0, <1>1, <2>1, <2>2, TimesOrder
  <2> QED BY <1>1, <2>3
<1>6. k \in get_page(list, p) <=> p = q + 1
  BY <1>2, <1>4, <1>5
<1> QED BY <1>6 DEF q, n

\* The page of every photo is among the pages that get_total_pages counts.
LEMMA TotalCoversAll ==
  ASSUME NEW list \in Seq(Nat), NEW k \in 0 .. Len(list) - 1
  PROVE  (k \div ImagePerPage) + 1 \in 1 .. get_total_pages(list)
<1> DEFINE n == ImagePerPage
           q == k \div n
           m == k % n
           l == Len(list)
           Q == l \div n
           M == l % n
<1>0. n \in Nat \ {0} /\ k \in Nat /\ l \in Nat /\ k < l /\ list # <<>>
  BY CameraAssumption
<1>1. q \in Nat /\ m \in 0 .. n-1 /\ k = n * q + m
  BY <1>0, CameraDivMod
<1>2. Q \in Nat /\ M \in 0 .. n-1 /\ l = n * Q + M
  BY <1>0, CameraDivMod
<1>3. get_total_pages(list) = Q + (IF M > 0 THEN 1 ELSE 0)
  BY <1>0 DEF get_total_pages
<1> HIDE DEF n, q, m, l, Q, M
<1>4. n * q \in Nat /\ n * Q \in Nat /\ n * (Q + 1) = n * Q + n
  BY <1>0, <1>1, <1>2
<1>5. CASE M > 0
  <2>1. n * q < n * (Q + 1)
    BY <1>0, <1>1, <1>2, <1>4
  <2>2. q < Q + 1
    BY <1>0, <1>1, <1>2, <2>1, TimesOrder
  <2>3. q + 1 \in 1 .. get_total_pages(list)
    BY <1>1, <1>2, <1>3, <1>5, <2>2
  <2> QED BY <2>3 DEF q, n
<1>6. CASE ~(M > 0)
  <2>1. n * q < n * Q
    BY <1>0, <1>1, <1>2, <1>4, <1>6
  <2>2. q < Q
    BY <1>0, <1>1, <1>2, <2>1, TimesOrder
  <2>3. q + 1 \in 1 .. get_total_pages(list)
    BY <1>1, <1>2, <1>3, <1>6, <2>2
  <2> QED BY <2>3 DEF q, n
<1> QED BY <1>5, <1>6

\* For every page size and every number of photos: a photo is on exactly one of the pages that
\* are counted, and a capture sends page 1.
THEOREM PagesShowEveryPhoto == CamSpec => []PagesPartition
<1> DEFINE PhotoInv == head \in Seq(Nat)
<1>1. CamInit => PhotoInv
  BY DEF CamInit
<1>2. PhotoInv /\ [CamNext]_camVars => PhotoInv'
  BY PhotoStep
<1>3. PhotoInv => PagesPartition
  <2> SUFFICES ASSUME head \in Seq(Nat) PROVE PagesPartition
    OBVIOUS
  <2> DEFINE total == get_total_pages(head)
  <2>1. ASSUME NEW k \in 0 .. Len(head) - 1
        PROVE  Cardinality({p \in 1 .. total : k \in get_page(head, p)}) = 1
    <3> DEFINE h == (k \div ImagePerPage) + 1
    <3>1. h \in 1 .. total
      BY <2>1, TotalCoversAll
    <3>2. \A p \in 1 .. total : k \in get_page(head, p) <=> p = h
      BY <2>1, PageOf
    <3> HIDE DEF h, total
    <3>3. {p \in 1 .. total : k \in get_page(head, p)} = {h}
      BY <3>1, <3>2
    <3> QED BY <3>3, FS_Singleton
  <2>2. update_page(head) = get_page(head, 1)
    BY CameraAssumption DEF update_page, get_page
  <2> QED BY <2>1, <2>2 DEF PagesPartition
<1> QED BY <1>1, <1>2, <1>3, PTL DEF CamSpec
=============================================================================
