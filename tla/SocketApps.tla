----------------------------- MODULE SocketApps -----------------------------
(***************************************************************************)
(* The socket programs: socket_hello_world in its TCP and UDP modes        *)
(* (package/socket_hello_world) and the TCP transfer of package/tcp.  Each *)
(* is one exchange: the client sends, the server receives once and sends   *)
(* once, the client receives once.                                         *)
(*                                                                         *)
(* The network is external: TCP delivers in segments, so that one receive  *)
(* may see part of a message; a UDP datagram may be dropped, and one sent  *)
(* to a port nobody has bound is answered by an ICMP error.                *)
(*                                                                         *)
(* The message of socket_hello_world is the user's (-m) and may be empty:  *)
(* TCP then sends nothing, UDP its 1000 bytes all the same.                *)
(***************************************************************************)
EXTENDS Integers

CONSTANTS
  Segments,        \* most segments of a TCP message
  UdpLoss          \* TRUE: datagrams may be dropped

ASSUME SocketAssumption == Segments \in Nat \ {0} /\ UdpLoss \in BOOLEAN

VARIABLES
  sproto,          \* hello_tcp, hello_udp or bulk (package/tcp)
  msg,             \* segments or datagrams of the client's message
  cpc, spc,        \* client and server
  connected,       \* the connection of the client is in the backlog of the server or taken from it
  cwire, swire,    \* segments or datagrams under way from the client, from the server
  crecv, srecv,    \* those waiting in the receive queue of the client, of the server
  cclosed, sclosed,   \* the end of the stream has been sent by the client, by the server
  dropped, refused    \* a datagram was lost; an ICMP error came back

sockVars ==
  <<sproto, msg, cpc, spc, connected, cwire, swire, crecv, srecv, cclosed, sclosed, dropped,
    refused>>
prog == <<sproto, msg>>
flow == <<cwire, swire, crecv, srecv, dropped, refused>>

SockInit ==
  /\ \/ sproto = "hello_tcp" /\ msg \in 0 .. Segments
     \/ sproto = "hello_udp" /\ msg = 1
     \/ sproto = "bulk" /\ msg \in 1 .. Segments
  /\ cpc = "connect" /\ spc = "bind" /\ connected = FALSE
  /\ cwire = 0 /\ swire = 0 /\ crecv = 0 /\ srecv = 0 /\ cclosed = FALSE /\ sclosed = FALSE
  /\ dropped = FALSE /\ refused = FALSE

Udp == sproto = "hello_udp"
Answer == IF Udp THEN 1 ELSE Segments
Ended == {"done", "failed"}

(***************************************************************************)
(* The server.  A failed socket, bind or listen ends it.                   *)
(***************************************************************************)
Bind ==
  /\ spc = "bind" /\ spc' \in {IF Udp THEN "recv" ELSE "accept", "failed"}
  /\ UNCHANGED <<prog, connected, cpc, flow, cclosed, sclosed>>

\* A client that came before the listen was refused: the server waits for another.
ServerAccept ==
  /\ spc = "accept" /\ connected /\ spc' = "recv"
  /\ UNCHANGED <<prog, connected, cpc, flow, cclosed, sclosed>>

\* Mutant: the server waits for the whole message.
ServerReady_mutant == srecv = msg

\* A receive returns what is there, or 0 at the end of the stream.
ServerReady == srecv > 0 \/ (~Udp /\ cclosed /\ cwire = 0)

ServerRecv ==
  /\ spc = "recv" /\ ServerReady /\ srecv' = 0 /\ spc' = "send"
  /\ UNCHANGED <<prog, connected, cpc, cwire, swire, crecv, dropped, refused, cclosed, sclosed>>

\* The answer, close and shutdown; the rest of the client's message is not read.
ServerSend ==
  /\ spc = "send" /\ spc' = "done" /\ sclosed' = ~Udp /\ swire' = Answer
  /\ UNCHANGED <<prog, connected, cpc, cwire, crecv, srecv, dropped, refused, cclosed>>

(***************************************************************************)
(* The client.                                                             *)
(***************************************************************************)
\* connect on a UDP socket always succeeds; a TCP one needs the server's listen.
ClientConnect ==
  /\ cpc = "connect" /\ connected' = (~Udp /\ spc = "accept")
  /\ \/ (Udp \/ connected') /\ cpc' = "send" /\ UNCHANGED cclosed
     \/ ~(Udp \/ connected') /\ cpc' = "failed" /\ cclosed' = TRUE
  /\ UNCHANGED <<prog, spc, flow, sclosed>>

ClientSend ==
  /\ cpc = "send" /\ cpc' = "recv" /\ cwire' = msg
  /\ UNCHANGED <<prog, connected, spc, swire, crecv, srecv, dropped, refused, cclosed, sclosed>>

ClientReady == crecv > 0 \/ (~Udp /\ sclosed /\ swire = 0) \/ refused

ClientRecv ==
  /\ cpc = "recv" /\ ClientReady /\ cpc' = "done" /\ crecv' = 0 /\ cclosed' = TRUE
  /\ UNCHANGED <<prog, connected, spc, cwire, swire, srecv, dropped, refused, sclosed>>

\* The client is killed, or a failed send ends it (package/tcp): the kernel ends the stream.
ClientDies ==
  /\ cpc \in {"send", "recv"} /\ cpc' = "failed" /\ cclosed' = TRUE
  /\ UNCHANGED <<prog, connected, spc, flow, sclosed>>

(***************************************************************************)
(* The network.                                                            *)
(***************************************************************************)
ToServer ==
  /\ cwire > 0 /\ cwire' = cwire - 1
  /\ \/ srecv' = srecv + 1 /\ (Udp => spc = "recv") /\ UNCHANGED <<dropped, refused>>
     \/ Udp /\ spc # "recv" /\ refused' = TRUE /\ UNCHANGED <<srecv, dropped>>
     \/ Udp /\ UdpLoss /\ dropped' = TRUE /\ UNCHANGED <<srecv, refused>>
  /\ UNCHANGED <<prog, connected, cpc, spc, swire, crecv, cclosed, sclosed>>

ToClient ==
  /\ swire > 0 /\ swire' = swire - 1
  /\ \/ crecv' = crecv + 1 /\ UNCHANGED dropped
     \/ Udp /\ UdpLoss /\ dropped' = TRUE /\ UNCHANGED crecv
  /\ UNCHANGED <<prog, connected, cpc, spc, cwire, srecv, cclosed, sclosed, refused>>

SockServer == Bind \/ ServerAccept \/ ServerRecv \/ ServerSend
SockClient == ClientConnect \/ ClientSend \/ ClientRecv
SockNext == SockServer \/ SockClient \/ ClientDies \/ ToServer \/ ToClient

(***************************************************************************)
(* Properties.                                                             *)
(***************************************************************************)
\* Once the server has a client (a TCP connection, or a UDP request received) both processes
\* end, whatever the segmentation and also when the client dies, unless a datagram is dropped
\* or the message is empty: then no byte and no end of the stream is sent, and each waits in
\* its receive for the other.
SocketsFinish ==
  ((IF Udp THEN spc = "send" ELSE spc = "recv") /\ msg # 0)
    ~> (({cpc, spc} \subseteq Ended) \/ dropped)
=============================================================================
