------------------------------- MODULE Server -------------------------------
(***************************************************************************)
(* The socket server (utl_net.c): one thread that waits in select for any  *)
(* of its sockets and serves the ready ones, while peers connect, send and *)
(* leave when they like.                                                   *)
(*                                                                         *)
(* A peer is away, in the backlog of the listening socket, or the owner of *)
(* a socket.  A request is a number of chunks of the size the server reads *)
(* at once; a peer sends the next one when the last was read.              *)
(***************************************************************************)
EXTENDS Integers, Sequences, Functions

CONSTANTS
  Peers,
  srvsock,     \* the listening socket; smaller numbers may be free
  MaxSock,     \* bound: the socket numbers are 1 .. MaxSock
  MaxChunks,   \* bound: the chunks of a request
  NoPeer

ASSUME SocketAssumption ==
  /\ MaxSock \in Nat /\ MaxChunks \in Nat
  /\ srvsock \in 1 .. MaxSock /\ NoPeer \notin Peers

VARIABLES
  serving,     \* "select", "round", "sending", "stopped", "killed"; "none"
               \* without a server
  maxsock, socksfd,
  rdsocks,     \* the sockets of this round; {} between rounds
  sock,        \* s: the sockets below are done in this round; 1 between rounds
  goon,        \* run >= 0
  backlog,     \* the connections to be accepted
  owner,       \* socket -> the peer at its other end
  unread,      \* peer -> chunks that have come and were not read
  gone         \* peer -> "no", "closed" or "reset"

server == << serving, maxsock, socksfd, rdsocks, sock, goon >>
peers == << backlog, owner, unread, gone >>
netvars == << server, peers >>

Socks == 1 .. MaxSock
Running == serving \in {"select", "round", "sending"}
Owners == {owner[f] : f \in Socks} \ {NoPeer}
Connected(c) == c \in Owners \/ \E i \in 1 .. Len(backlog) : backlog[i] = c

\* A read of the socket, or an accept, would not block.
Ready(f) ==
  IF f = srvsock THEN backlog # <<>>
  ELSE owner[f] # NoPeer /\ (unread[owner[f]] > 0 \/ gone[owner[f]] # "no")

-----------------------------------------------------------------------------
(* The peers *)

Connect(c) ==
  /\ ~ Connected(c)
  /\ backlog' = Append(backlog, c)
  /\ UNCHANGED << owner, unread, gone >>

Send(c) ==
  /\ Connected(c) /\ gone[c] = "no" /\ unread[c] = 0
  /\ \E n \in 1 .. MaxChunks : unread' = [unread EXCEPT ![c] = n]
  /\ UNCHANGED << backlog, owner, gone >>

\* What a peer sent can still be read after it closed, and not after a reset.
Leave(c) ==
  /\ Connected(c) /\ gone[c] = "no"
  /\ \/ gone' = [gone EXCEPT ![c] = "closed"] /\ UNCHANGED unread
     \/ gone' = [gone EXCEPT ![c] = "reset"] /\ unread' = [unread EXCEPT ![c] = 0]
  /\ UNCHANGED << backlog, owner >>

PeerMoves ==
  /\ Running
  /\ \E c \in Peers : Connect(c) \/ Send(c) \/ Leave(c)
  /\ UNCHANGED server

-----------------------------------------------------------------------------
(* The server *)

\* select with a ready socket.  It looks at the sockets up to maxsock.
Select ==
  /\ serving = "select"
  /\ rdsocks' = {f \in socksfd : f <= maxsock /\ Ready(f)}
  /\ rdsocks' # {}
  /\ serving' = "round" /\ sock' = 1
  /\ UNCHANGED << maxsock, socksfd, goon, peers >>

\* select returns 0: the handler of timeouts says whether to go on.
Timeout ==
  /\ serving = "select"
  /\ \A f \in socksfd : ~ Ready(f)
  /\ \E g \in BOOLEAN : goon' = g /\ serving' = IF g THEN "select" ELSE "stopped"
  /\ UNCHANGED << maxsock, socksfd, rdsocks, sock, peers >>

\* select returns -1: a signal has come.
Interrupted ==
  /\ serving = "select"
  /\ serving' = "stopped"
  /\ UNCHANGED << maxsock, socksfd, rdsocks, sock, goon, peers >>

Left == {f \in rdsocks : sock <= f /\ f <= maxsock}
Current == CHOOSE f \in Left : \A g \in Left : f <= g

Forgotten(c) == /\ unread' = [unread EXCEPT ![c] = 0]
                /\ gone' = [gone EXCEPT ![c] = "no"]

\* Seeded fault: maxsock is that of the listening socket for ever.
NewMaxSame(f) == maxsock

NewMax(f) == IF f > maxsock THEN f ELSE maxsock

\* newconn.  The number of a new socket is the lowest free one.  accept may fail
\* for a connection that was reset.
NewConn ==
  /\ Current = srvsock /\ backlog # <<>>
  /\ backlog' = Tail(backlog)
  /\ \/ \E f \in Socks :
          /\ f # srvsock /\ owner[f] = NoPeer
          /\ \A g \in 1 .. f - 1 : g = srvsock \/ owner[g] # NoPeer
          /\ owner' = [owner EXCEPT ![f] = Head(backlog)]
          /\ socksfd' = socksfd \cup {f}
          /\ maxsock' = NewMax(f)
          /\ UNCHANGED << unread, gone >>
     \/ /\ gone[Head(backlog)] = "reset"
        /\ Forgotten(Head(backlog))
        /\ UNCHANGED << owner, socksfd, maxsock >>
  /\ UNCHANGED << serving, rdsocks, goon >>

\* Seeded fault: the socket of a peer that left stays in the set.
WatchedAll(f) == socksfd

Watched(f) == socksfd \ {f}

\* gotbytes.  The caller's handler answers (n > 0), says nothing (0) or asks to
\* stop (n < 0).  The answer is sent at once where the connection has room for it;
\* where it has not, the server waits in send for this peer.  An answer to a peer
\* that has left may raise SIGPIPE.  A read of 0 bytes or -1 closes the socket,
\* and -1 is taken for a request to stop.  (For -1 the code also clears the byte
\* before its buffer, which is no part of the model.)
GotBytes ==
  /\ Current # srvsock /\ owner[Current] # NoPeer
  /\ LET c == owner[Current]
     IN IF unread[c] > 0
        THEN /\ unread' = [unread EXCEPT ![c] = @ - 1]
             /\ \/ goon' \in BOOLEAN /\ UNCHANGED serving
                \/ goon' = TRUE /\ gone[c] = "no" /\ serving' = "sending"
                \/ goon' = TRUE /\ gone[c] # "no" /\ serving' = "killed"
             /\ UNCHANGED << socksfd, owner, gone >>
        ELSE /\ gone[c] # "no"
             /\ goon' = (gone[c] = "closed")
             /\ socksfd' = Watched(Current)
             /\ owner' = [owner EXCEPT ![Current] = NoPeer]
             /\ Forgotten(c)
             /\ UNCHANGED serving
  /\ UNCHANGED << maxsock, rdsocks, backlog >>

\* The next ready socket of the round.
Serve ==
  /\ serving = "round" /\ Left # {}
  /\ NewConn \/ GotBytes
  /\ sock' = Current + 1

\* The answer is out: the peer has read enough of it, or has left and send fails
\* or raises SIGPIPE.  When this happens is up to the peer.
Sent ==
  /\ serving = "sending"
  /\ \/ serving' = "round"
     \/ gone[owner[sock - 1]] # "no" /\ serving' = "killed"
  /\ UNCHANGED << maxsock, socksfd, rdsocks, sock, goon, peers >>

\* The end of the round: only what the last socket served left in run counts.
EndRound ==
  /\ serving = "round" /\ Left = {}
  /\ serving' = IF goon THEN "select" ELSE "stopped"
  /\ rdsocks' = {} /\ sock' = 1
  /\ UNCHANGED << maxsock, socksfd, goon, peers >>

ServerStep == Select \/ Timeout \/ Interrupted \/ Serve \/ Sent \/ EndRound

NetFresh ==
  /\ goon = TRUE /\ maxsock = srvsock /\ socksfd = {srvsock}
  /\ rdsocks = {} /\ sock = 1
  /\ backlog = <<>> /\ owner = [f \in Socks |-> NoPeer]
  /\ unread = [c \in Peers |-> 0] /\ gone = [c \in Peers |-> "no"]

NetInit == serving = "select" /\ NetFresh

NetNext == PeerMoves \/ ServerStep

\* The thread of the server runs, and select returns when a socket is ready.
\* Nothing is said of Sent: a peer need never read.
NetFairness == WF_netvars(Select \/ Serve \/ EndRound)

NetSpec == NetInit /\ [][NetNext]_netvars /\ NetFairness

-----------------------------------------------------------------------------
(* Properties *)

NetTypeOK ==
  /\ serving \in {"none", "select", "round", "sending", "stopped", "killed"}
  /\ maxsock \in Socks /\ socksfd \subseteq Socks /\ rdsocks \subseteq Socks
  /\ sock \in 1 .. MaxSock + 1 /\ goon \in BOOLEAN
  /\ backlog \in Seq(Peers) /\ owner \in [Socks -> Peers \cup {NoPeer}]
  /\ unread \in [Peers -> 0 .. MaxChunks] /\ gone \in [Peers -> {"no", "closed", "reset"}]

\* The server never waits in recv or accept: every socket that is still to be
\* served in a round can be read, or accepted from, without blocking, whatever
\* was closed, accepted and numbered anew earlier in the round.  (It may wait in
\* send, for the peer it answers.)
NeverBlocks == serving \in {"round", "sending"} => \A f \in Left : Ready(f)

\* The set given to select and the connections the server has accepted are the
\* same, none of them beyond maxsock: no socket is forgotten and no closed one
\* is watched (select would fail and end the server).
WatchesAll ==
  /\ socksfd = {srvsock} \cup {f \in Socks : owner[f] # NoPeer}
  /\ \A f \in socksfd : f <= maxsock
  /\ IsInjective(backlog)
  /\ \A f, g \in Socks : owner[f] = owner[g] /\ owner[f] # NoPeer => f = g
  /\ \A i \in 1 .. Len(backlog) : backlog[i] \notin Owners

ServesOnlyReady == serving # "none" => NetTypeOK /\ NeverBlocks /\ WatchesAll

Waiting(c) == Running /\ Connected(c) /\ (unread[c] > 0 \/ gone[c] # "no")

\* Asked of the peers, not of the code: no answer waits for ever for its peer to
\* read or to leave.
AnswersAreRead == []<>(serving # "sending")

\* No peer is left waiting: what it sent is read and when it leaves its socket
\* is closed, however busy the other peers are, unless the server ends or some
\* peer never takes its answer: send blocks the one thread.
EveryPeerIsServed == AnswersAreRead => \A c \in Peers : []<> ~ Waiting(c)
=============================================================================
