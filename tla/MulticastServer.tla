--------------------------- MODULE MulticastServer ---------------------------
(***************************************************************************)
(* MulticastServer and create_socket (common/network/socket): the socket   *)
(* datagrams leave by, and the buffer they are put together in.            *)
(*                                                                         *)
(* One thread creates the socket, sends, and another destroys the server.  *)
(* This module has the state of the server and its operations; the thread  *)
(* that calls them is added by the module that uses the server, which is   *)
(* why the control point spc of that thread is here.                       *)
(*                                                                         *)
(* A message is whatever the caller sends; a datagram is the sequence of   *)
(* messages that were in the buffer.  The bytes are left out, and with     *)
(* them the size of the buffer (64 MB, a message has some kilobytes).      *)
(*                                                                         *)
(* Operators introduced by "Slip:" are wrong on purpose, as in OrderBook.  *)
(***************************************************************************)
EXTENDS Integers, Sequences

CONSTANTS
  Descriptors,    \* the numbers socket() may return
  MaxCandidates   \* bound: how many addresses getaddrinfo finds

ASSUME DescriptorsAssumption == Descriptors \subseteq Nat
ASSUME MaxCandidatesAssumption == MaxCandidates \in Nat

VARIABLES
  alive,          \* FALSE once the process has ended before its time
  spc,            \* where the thread that uses the server is
  config,         \* config_, the SocketConfig
  socket_fd,      \* socket_fd_
  sockfd,         \* the local sockfd of create_udp_socket
  left,           \* how many candidates its loop has not tried
  open,           \* the descriptors it has opened and nobody has closed
  outgoing,       \* send_buffer_ up to send_next_valid_index_
  wire            \* the datagrams the network has taken

socketVars == <<config, socket_fd, sockfd, left, open>>
serverVars == <<socketVars, outgoing, wire>>

None == -1

Configs ==
  [type : {"UDP", "TCP", "UNIX"}, is_listening : BOOLEAN, need_so_timestamp : BOOLEAN]

\* Any configuration; the program has a UDP socket that neither listens nor
\* asks for timestamps.
ServerInit ==
  /\ config \in Configs
  /\ socket_fd = None
  /\ sockfd = None
  /\ left = 0
  /\ open = {}
  /\ outgoing = << >>
  /\ wire = {}

At(here) == alive /\ spc = here

------------------------------------------------------------------------------
(* create_socket *)

\* TCP and UNIX sockets are not implemented, or getaddrinfo fails.
NoAddress ==
  /\ At("create")
  /\ socket_fd' = None
  /\ spc' = "started"
  /\ UNCHANGED <<alive, config, sockfd, left, open, outgoing, wire>>

\* getaddrinfo finds some addresses.
Resolve ==
  /\ At("create")
  /\ config.type = "UDP"
  /\ left' \in 1 .. MaxCandidates
  /\ spc' = "candidates"
  /\ UNCHANGED <<alive, config, socket_fd, sockfd, open, outgoing, wire>>

\* Slip: the end of the list counts as a candidate.
CandidateOrEnd == left >= 0

Candidate == left > 0

\* socket() fails.
SocketFails ==
  /\ At("candidates")
  /\ Candidate
  /\ left' = left - 1
  /\ UNCHANGED <<alive, spc, config, socket_fd, sockfd, open, outgoing, wire>>

\* bind() fails, or the timestamp option is set on sockfd, which is still -1.
\* What is closed then is sockfd too: the new descriptor stays open.
Unusable ==
  /\ At("candidates")
  /\ Candidate
  /\ config.is_listening \/ config.need_so_timestamp
  /\ \E fd \in Descriptors \ open : open' = open \cup {fd}
  /\ left' = left - 1
  /\ UNCHANGED <<alive, spc, config, socket_fd, sockfd, outgoing, wire>>

\* Slip: without the break.
ChosenAndOn(fd) == sockfd' = fd /\ left' = left - 1

\* The first usable socket ends the loop.
Chosen(fd) == sockfd' = fd /\ left' = 0

Usable ==
  /\ At("candidates")
  /\ Candidate
  /\ ~config.need_so_timestamp
  /\ \E fd \in Descriptors \ open : open' = open \cup {fd} /\ Chosen(fd)
  /\ UNCHANGED <<alive, spc, config, socket_fd, outgoing, wire>>

\* No candidate gave a socket.
NoSocket ==
  /\ At("candidates")
  /\ left = 0 /\ sockfd = None
  /\ socket_fd' = None
  /\ spc' = "started"
  /\ UNCHANGED <<alive, config, sockfd, left, open, outgoing, wire>>

\* configure_multicast_lo_sender.
Configure ==
  /\ At("candidates")
  /\ left = 0 /\ sockfd # None
  /\ socket_fd' = sockfd
  /\ sockfd' = None
  /\ spc' = "started"
  /\ UNCHANGED <<alive, config, left, open, outgoing, wire>>

\* It fails, and the socket is closed.
ConfigureFails ==
  /\ At("candidates")
  /\ left = 0 /\ sockfd # None
  /\ open' = open \ {sockfd}
  /\ socket_fd' = None
  /\ sockfd' = None
  /\ spc' = "started"
  /\ UNCHANGED <<alive, config, left, outgoing, wire>>

CreateSocket ==
  \/ NoAddress \/ Resolve \/ SocketFails \/ Unusable \/ Usable \/ NoSocket
  \/ Configure \/ ConfigureFails

------------------------------------------------------------------------------
(* The other operations. *)

\* send(): the message is put behind what the buffer holds.
Put(message) == outgoing' = Append(outgoing, message)

\* send_next_valid_index_ = 0, whatever became of the datagram.
ResetBuffer == outgoing' = << >>

\* sendto(): the network takes the buffer as one datagram, or it does not; the
\* result is ignored.
Sendto ==
  \/ socket_fd # None /\ outgoing # << >> /\ wire' = wire \cup {outgoing}
  \/ UNCHANGED wire

\* stop(), which the destructor calls too.
CloseSocket ==
  /\ open' = open \ {socket_fd}
  /\ socket_fd' = None

ServerTypeOK ==
  /\ alive \in BOOLEAN
  /\ config \in Configs
  /\ socket_fd \in Descriptors \cup {None} /\ sockfd \in Descriptors \cup {None}
  /\ left \in 0 .. MaxCandidates
  /\ open \subseteq Descriptors
=============================================================================
