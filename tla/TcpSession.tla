----------------------------- MODULE TcpSession -----------------------------
(***************************************************************************)
(* One TCP connection of the guest through the user-mode network           *)
(* (UserNetDevice._handleTcp and _pollTcpSessions, tcp_session.dart,       *)
(* NativeTcpConnection of net_backend_native.dart), between the guest's    *)
(* own TCP and the peer behind the host's socket.                          *)
(*                                                                         *)
(* A segment of the guest is handled inside the store that notifies the    *)
(* network device; segments for the guest wait in _rxQueue and the receive *)
(* ring, one queue here; the host's socket runs callbacks between two      *)
(* steps of the machine.  Sequence numbers count from each side's SYN (the *)
(* proxy compares none of them); connections are told apart by the random  *)
(* number their SYN-ACK starts from, here the number of the connection.    *)
(***************************************************************************)
EXTENDS Integers, Sequences

CONSTANTS Mss,        \* TcpSession._maxSegmentSize
          Window,     \* receive window of the guest
          Features,   \* what the guest's TCP and program do besides
          MaxGuest,   \* bound: bytes the guest writes
          MaxPeer,    \* bound: bytes the peer writes
          MaxConns,   \* bound: connections opened, by SYNs sent again
          MaxResent   \* bound: segments the guest sends again

ASSUME TcpAssumption ==
  /\ Mss \in Nat \ {0} /\ Window \in Nat
  /\ Features \subseteq {"retransmit", "piggyback", "close", "refuse"}
  /\ MaxGuest \in Nat /\ MaxPeer \in Nat
  /\ MaxConns \in Nat \ {0} /\ MaxResent \in Nat

VARIABLES
  session,      \* TcpSession.state; "none" when not in _tcpSessions
  conn,         \* TcpSession.handle
  hostSeq,      \* TcpSession._hostSeq
  guestAcked,   \* TcpSession._guestAcked
  sock,         \* of each handle: _socket and _closed
  remoteClosed, \* of each handle: _remoteClosed
  sendBuffer,   \* of each handle: _sendBuffer, guest bytes by number
  receiveBuffer,\* of each handle: _receiveBuffer, as a number of bytes
  rxQueue,      \* segments on their way to the guest
  peerSent,     \* bytes each peer has sent
  relayed,      \* guest bytes given to each socket
  gst, gconn,   \* guest: its socket's state, the connection it accepted
  written, una, \* guest: bytes sent, lowest number not acknowledged
  rcvNxt, got,  \* guest: number expected next, peer bytes received
  unread,       \* guest: bytes its program has not read
  owe,          \* guest: something is to be acknowledged
  finSent, finRcvd,  \* guest: has sent, has received a FIN
  resent        \* guest: segments sent again, for the bound

sessionVars == <<session, conn, hostSeq, guestAcked>>
handleVars  == <<sock, remoteClosed, sendBuffer, receiveBuffer>>
hostVars    == <<peerSent, relayed>>
streamVars  == <<rcvNxt, got, unread, finRcvd>>
sendVars    == <<written, una, finSent, resent>>
guestVars   == <<gst, gconn, streamVars, sendVars, owe>>
vars == <<sessionVars, handleVars, hostVars, rxQueue, guestVars>>

Conns == 1 .. MaxConns

Segment(kind, seq, first, len) ==
  [kind |-> kind, conn |-> conn, seq |-> seq, first |-> first, len |-> len,
   ack |-> guestAcked]

Init ==
  /\ session = "none" /\ conn = 0 /\ hostSeq = 0 /\ guestAcked = 0
  /\ sock = [c \in Conns |-> "idle"]
  /\ remoteClosed = [c \in Conns |-> FALSE]
  /\ sendBuffer = [c \in Conns |-> <<>>]
  /\ receiveBuffer = [c \in Conns |-> 0]
  /\ rxQueue = <<>>
  /\ peerSent = [c \in Conns |-> 0] /\ relayed = [c \in Conns |-> <<>>]
  /\ gst = "closed" /\ gconn = 0
  /\ written = 0 /\ una = 0 /\ finSent = FALSE /\ resent = 0
  /\ rcvNxt = 0 /\ got = <<>> /\ unread = 0 /\ finRcvd = FALSE
  /\ owe = FALSE

----------------------------------------------------------------------------
(* Segments from the guest: UserNetDevice._handleTcp.                      *)

(* A SYN opens a host connection, whatever the table holds for it, and the *)
(* session's numbers start anew.                                           *)
HandleSyn ==
  /\ conn < MaxConns
  /\ conn' = conn + 1
  /\ sock' = [sock EXCEPT ![conn + 1] = "connecting"]
  /\ session' = "synReceived"
  /\ guestAcked' = 1 /\ hostSeq' = 1
  /\ rxQueue' = Append(rxQueue, [kind |-> "synack", conn |-> conn + 1, seq |-> 0,
                                 first |-> 0, len |-> 0, ack |-> 1])
  /\ UNCHANGED <<remoteClosed, sendBuffer, receiveBuffer, hostVars>>

(* openTcpConnection returns null, or no session is known.                 *)
Rst == [kind |-> "rst", conn |-> 0, seq |-> 0, first |-> 0, len |-> 0, ack |-> 0]

RefuseSyn ==
  /\ "refuse" \in Features
  /\ rxQueue' = Append(rxQueue, Rst)
  /\ UNCHANGED <<sessionVars, handleVars, hostVars>>

AckOf(n) == [Segment("ack", hostSeq, 0, 0) EXCEPT !.ack = n]

(* Mutant of Send: nothing is kept for a socket that is not connected yet. *)
Send_NotKept(payload) ==
  /\ relayed' = IF sock[conn] = "connected"
                THEN [relayed EXCEPT ![conn] = @ \o payload] ELSE relayed
  /\ UNCHANGED sendBuffer

(* NativeTcpConnection.send: to the socket, or kept until it is connected; *)
(* dropped when the connection failed.                                     *)
Send(payload) ==
  /\ relayed' = IF sock[conn] = "connected"
                THEN [relayed EXCEPT ![conn] = @ \o payload] ELSE relayed
  /\ sendBuffer' = IF sock[conn] = "connecting"
                   THEN [sendBuffer EXCEPT ![conn] = @ \o payload] ELSE sendBuffer

(* Mutant of Acked: one is counted for every segment, as for a FIN.        *)
Acked_CountsOne(payload) == guestAcked + Len(payload) + 1

Acked(payload) == guestAcked + Len(payload)

(* _handleEstablished: no number is looked at; data is handed on and       *)
(* acknowledged, a FIN destroys the host's socket and ends the session.    *)
HandleEstablished(payload, fin) ==
  /\ Send(payload)
  /\ sock' = IF fin THEN [sock EXCEPT ![conn] = "closed"] ELSE sock
  /\ guestAcked' = Acked(payload) + (IF fin THEN 1 ELSE 0)
  /\ session' = IF fin THEN "none" ELSE session
  /\ rxQueue' = rxQueue \o (IF payload # <<>> THEN <<AckOf(Acked(payload))>> ELSE <<>>)
                        \o (IF fin THEN <<AckOf(guestAcked')>> ELSE <<>>)
  /\ UNCHANGED <<conn, hostSeq, remoteClosed, receiveBuffer, peerSent>>

(* _handleFinWait: whatever comes ends the session; only a FIN is          *)
(* acknowledged, and data that comes with it is dropped.                   *)
HandleFinWait(fin) ==
  /\ session' = "none"
  /\ guestAcked' = IF fin THEN guestAcked + 1 ELSE guestAcked
  /\ rxQueue' = IF fin THEN Append(rxQueue, AckOf(guestAcked + 1)) ELSE rxQueue
  /\ UNCHANGED <<conn, hostSeq, handleVars, hostVars>>

(* A segment without SYN; every one of them has the ACK flag.              *)
HandleTcp(payload, fin) ==
  \/ /\ session = "none"
     /\ rxQueue' = Append(rxQueue, Rst)
     /\ UNCHANGED <<sessionVars, handleVars, hostVars>>
  \/ /\ session = "synReceived"
     /\ session' = "established"
     /\ UNCHANGED <<conn, hostSeq, guestAcked, handleVars, hostVars, rxQueue>>
  \/ session = "established" /\ HandleEstablished(payload, fin)
  \/ session = "finWait" /\ HandleFinWait(fin)

----------------------------------------------------------------------------
(* The host's event loop.                                                  *)

(* Mutant of Connected: what was kept is not sent.                         *)
Connected_NoFlush(c) ==
  /\ sock[c] = "connecting"
  /\ sock' = [sock EXCEPT ![c] = "connected"]
  /\ sendBuffer' = [sendBuffer EXCEPT ![c] = <<>>]
  /\ UNCHANGED <<sessionVars, remoteClosed, receiveBuffer, hostVars, rxQueue, guestVars>>

(* _onConnected and _flushSendBuffer.                                      *)
Connected(c) ==
  /\ sock[c] = "connecting"
  /\ sock' = [sock EXCEPT ![c] = "connected"]
  /\ relayed' = [relayed EXCEPT ![c] = @ \o sendBuffer[c]]
  /\ sendBuffer' = [sendBuffer EXCEPT ![c] = <<>>]
  /\ UNCHANGED <<sessionVars, remoteClosed, receiveBuffer, peerSent, rxQueue, guestVars>>

(* _onError of Socket.connect.                                             *)
ConnectFails(c) ==
  /\ sock[c] = "connecting"
  /\ sock' = [sock EXCEPT ![c] = "failed"]
  /\ remoteClosed' = [remoteClosed EXCEPT ![c] = TRUE]
  /\ UNCHANGED <<sessionVars, sendBuffer, receiveBuffer, hostVars, rxQueue, guestVars>>

PeerSends(c) ==
  /\ sock[c] = "connected" /\ ~remoteClosed[c] /\ peerSent[c] < MaxPeer
  /\ peerSent' = [peerSent EXCEPT ![c] = @ + 1]
  /\ receiveBuffer' = [receiveBuffer EXCEPT ![c] = @ + 1]
  /\ UNCHANGED <<sessionVars, sock, remoteClosed, sendBuffer, relayed, rxQueue, guestVars>>

PeerCloses(c) ==
  /\ sock[c] = "connected" /\ ~remoteClosed[c]
  /\ remoteClosed' = [remoteClosed EXCEPT ![c] = TRUE]
  /\ UNCHANGED <<sessionVars, sock, sendBuffer, receiveBuffer, hostVars, rxQueue, guestVars>>

----------------------------------------------------------------------------
(* UserNetDevice._pollTcpSessions, once per step of the machine.           *)

Smaller(m, n) == IF m < n THEN m ELSE n

(* Mutant of Offset: advanced before the slice is taken.                   *)
Offset_Ahead(k) == k * Mss

Offset(k) == (k - 1) * Mss

(* buildDataPackets: everything received, whatever window the guest has    *)
(* advertised, in segments of at most Mss bytes.                           *)
DataPackets ==
  LET len == receiveBuffer[conn]
      first == peerSent[conn] - len
  IN [k \in 1 .. (len + Mss - 1) \div Mss |->
        Segment("data", hostSeq + Offset(k), first + Offset(k),
                Smaller(Mss, len - Offset(k)))]

FinDue == remoteClosed[conn] /\ session = "established"

FinPacket(seq) == IF FinDue THEN <<Segment("fin", seq, 0, 0)>> ELSE <<>>

(* Mutant of Packets: the FIN before the data that came before it.         *)
Packets_FinFirst == FinPacket(hostSeq) \o DataPackets

(* All that has been received, then a FIN if the peer has closed.          *)
Packets == DataPackets \o FinPacket(hostSeq + receiveBuffer[conn])

(* Mutant of ReceiveAll: all is returned, only the first chunk removed.    *)
ReceiveAll_FirstChunk ==
  receiveBuffer' = [receiveBuffer EXCEPT ![conn] = IF @ > 0 THEN @ - 1 ELSE 0]

(* NativeTcpConnection.receive.                                            *)
ReceiveAll == receiveBuffer' = [receiveBuffer EXCEPT ![conn] = 0]

Poll ==
  /\ session # "none"
  /\ rxQueue' = rxQueue \o Packets
  /\ hostSeq' = hostSeq + receiveBuffer[conn] + (IF FinDue THEN 1 ELSE 0)
  /\ ReceiveAll
  /\ session' = IF FinDue THEN "finWait" ELSE session
  /\ UNCHANGED <<conn, guestAcked, sock, remoteClosed, sendBuffer, hostVars, guestVars>>

(* There is nothing to poll.                                               *)
PollNothing == session = "none" /\ UNCHANGED vars

----------------------------------------------------------------------------
(* The guest's TCP: sending.                                               *)

Connect ==
  /\ gst = "closed"
  /\ gst' = "synSent"
  /\ HandleSyn \/ RefuseSyn
  /\ UNCHANGED <<gconn, streamVars, sendVars, owe>>

Open == gst = "open"
Resend == "retransmit" \in Features /\ resent < MaxResent

(* Most stacks acknowledge a SYN-ACK before they send anything else.       *)
Free == Open /\ ~finSent /\ (owe => "piggyback" \in Features)

ResendSyn ==
  /\ gst = "synSent" /\ Resend
  /\ HandleSyn
  /\ resent' = resent + 1
  /\ UNCHANGED <<gst, gconn, streamVars, written, una, finSent, owe>>

Write ==
  /\ Free /\ written < MaxGuest
  /\ HandleTcp(<<written + 1>>, FALSE)
  /\ written' = written + 1
  /\ owe' = FALSE
  /\ UNCHANGED <<gst, gconn, streamVars, una, finSent, resent>>

(* A byte whose acknowledgement the guest has not taken yet is sent again. *)
ResendData ==
  /\ Open /\ Resend /\ una <= written
  /\ HandleTcp(<<una>>, FALSE)
  /\ resent' = resent + 1
  /\ owe' = FALSE
  /\ UNCHANGED <<gst, gconn, streamVars, written, una, finSent>>

Close ==
  /\ Free /\ "close" \in Features
  /\ HandleTcp(<<>>, TRUE)
  /\ finSent' = TRUE
  /\ owe' = FALSE
  /\ UNCHANGED <<gst, gconn, streamVars, written, una, resent>>

Ack ==
  /\ Open /\ owe
  /\ HandleTcp(<<>>, FALSE)
  /\ owe' = FALSE
  /\ UNCHANGED <<gst, gconn, streamVars, sendVars>>

----------------------------------------------------------------------------
(* The guest's TCP: the next segment of the queue.                         *)

Arrives(kind) == rxQueue # <<>> /\ Head(rxQueue).kind = kind
Take == rxQueue' = Tail(rxQueue) /\ UNCHANGED <<sessionVars, handleVars, hostVars>>
Seg == Head(rxQueue)

ReceiveSynAck ==
  /\ gst = "synSent" /\ Arrives("synack")
  /\ Take
  /\ gst' = "open" /\ gconn' = Seg.conn /\ rcvNxt' = 1 /\ una' = 1
  /\ owe' = TRUE
  /\ UNCHANGED <<got, unread, finRcvd, written, finSent, resent>>

ReceiveRst ==
  /\ Arrives("rst")
  /\ Take
  /\ gst' = IF gst = "synSent" THEN "reset" ELSE gst   \* else not in the window
  /\ UNCHANGED <<gconn, streamVars, sendVars, owe>>

(* What the guest has sent, counting its FIN: a segment that acknowledges  *)
(* more, or belongs to another connection, is discarded.                   *)
SndNxt == written + 1 + (IF finSent THEN 1 ELSE 0)
Acceptable == Open /\ Seg.conn = gconn /\ Seg.ack <= SndNxt
TakeAck == una' = IF Seg.ack > una THEN Seg.ack ELSE una

Discard ==
  /\ rxQueue # <<>> /\ Seg.kind # "rst" /\ gst # "synSent"
  /\ \/ ~Acceptable
     \/ Seg.kind = "synack"
     \/ Seg.kind = "data" /\ (finRcvd \/ Seg.seq # rcvNxt \/ unread + Seg.len > Window)
     \/ Seg.kind = "fin" /\ Seg.seq # rcvNxt
  /\ Take
  /\ owe' = Open
  /\ UNCHANGED <<gst, gconn, streamVars, sendVars>>

ReceiveData ==
  /\ Arrives("data") /\ Acceptable /\ ~finRcvd
  /\ Seg.seq = rcvNxt /\ unread + Seg.len <= Window
  /\ Take /\ TakeAck
  /\ rcvNxt' = rcvNxt + Seg.len
  /\ got' = got \o [k \in 1 .. Seg.len |-> Seg.first + k]
  /\ unread' = unread + Seg.len
  /\ owe' = TRUE
  /\ UNCHANGED <<gst, gconn, finRcvd, written, finSent, resent>>

ReceiveFin ==
  /\ Arrives("fin") /\ Acceptable /\ Seg.seq = rcvNxt
  /\ Take /\ TakeAck
  /\ rcvNxt' = rcvNxt + 1
  /\ finRcvd' = TRUE
  /\ owe' = TRUE
  /\ UNCHANGED <<gst, gconn, got, unread, written, finSent, resent>>

ReceiveAck ==
  /\ Arrives("ack") /\ Acceptable
  /\ Take /\ TakeAck
  /\ UNCHANGED <<gst, gconn, streamVars, written, finSent, resent, owe>>

(* The guest's program reads what has arrived.                             *)
Read ==
  /\ unread > 0
  /\ unread' = 0
  /\ UNCHANGED <<sessionVars, handleVars, hostVars, rxQueue, gst, gconn, rcvNxt,
                 got, finRcvd, sendVars, owe>>

----------------------------------------------------------------------------
Receive == ReceiveSynAck \/ ReceiveRst \/ Discard \/ ReceiveData \/ ReceiveFin
           \/ ReceiveAck

Guest == Connect \/ ResendSyn \/ Write \/ ResendData \/ Close \/ Ack \/ Read

Socket(c) == Connected(c) \/ ConnectFails(c) \/ PeerSends(c) \/ PeerCloses(c)

Next ==
  \/ Poll \/ PollNothing
  \/ Receive
  \/ Guest
  \/ \E c \in Conns : Socket(c)

Spec == Init /\ [][Next]_vars

(* The machine polls once per step; the guest's network stack takes what   *)
(* is in its ring, acknowledges, and its program reads.                    *)
FairSpec == Spec /\ WF_vars(Poll) /\ WF_vars(Receive) /\ WF_vars(Ack) /\ WF_vars(Read)

----------------------------------------------------------------------------
Segments == [kind : {"synack", "data", "fin", "ack", "rst"}, conn : Conns \cup {0},
             seq : Nat, first : Nat, len : Nat, ack : Nat]

TypeOK ==
  /\ session \in {"none", "synReceived", "established", "finWait"}
  /\ conn \in Conns \cup {0} /\ (session # "none" => conn \in Conns)
  /\ hostSeq \in Nat /\ guestAcked \in Nat
  /\ sock \in [Conns -> {"idle", "connecting", "connected", "failed", "closed"}]
  /\ remoteClosed \in [Conns -> BOOLEAN]
  /\ sendBuffer \in [Conns -> Seq(1 .. MaxGuest)]
  /\ receiveBuffer \in [Conns -> Nat]
  /\ rxQueue \in Seq(Segments)
  /\ peerSent \in [Conns -> Nat]
  /\ relayed \in [Conns -> Seq(1 .. MaxGuest)]
  /\ gst \in {"closed", "synSent", "open", "reset"}
  /\ gconn \in Conns \cup {0} /\ (gst = "open" => gconn \in Conns)
  /\ written \in 0 .. MaxGuest /\ una \in Nat
  /\ rcvNxt \in Nat /\ got \in Seq(Nat) /\ unread \in Nat
  /\ {owe, finSent, finRcvd} \subseteq BOOLEAN
  /\ resent \in Nat

InOrder(stream) == \A i \in 1 .. Len(stream) : stream[i] = i

(* What the guest's program reads is what the peer sent, from its first    *)
(* byte, without gap or repetition, however often the guest sends again or *)
(* connects again.                                                         *)
GuestStreamInOrder == InOrder(got)

(* The guest sees the end of the stream only after all of it: the proxy    *)
(* sends its FIN behind everything received before the peer closed.        *)
FinAfterData == finRcvd => Len(got) = peerSent[gconn]

(* What the peer is sent is what the guest wrote, from its first byte,     *)
(* without gap or repetition, whether the socket was connected in time or  *)
(* the bytes waited for it, until the guest has sent something twice.      *)
HostStreamInOrder ==
  resent = 0 => \A c \in Conns : InOrder(relayed[c] \o sendBuffer[c])

(* The guest is never told that something has arrived that it has not      *)
(* sent: it would discard the segment that says so.                        *)
AckedWasSent == gst = "open" /\ gconn = conn => guestAcked <= SndNxt

(* A byte that is acknowledged, and so will not be sent again, has been    *)
(* given to the host's socket or will be when it connects, unless it       *)
(* cannot be connected or the guest has closed (its FIN destroys a socket  *)
(* still connecting, and what waits for it) or has sent something twice.   *)
AckedIsRelayed ==
  \A n \in 1 .. written :
    conn \in Conns /\ n < guestAcked /\ ~finSent /\ resent = 0 =>
      \/ \E i \in DOMAIN relayed[conn] : relayed[conn][i] = n
      \/ sock[conn] = "connecting"
         /\ \E i \in DOMAIN sendBuffer[conn] : sendBuffer[conn][i] = n
      \/ sock[conn] = "failed"

(* What the peer sends reaches the guest's program, unless the guest       *)
(* closes its side or has sent something twice.                            *)
PeerStreamDelivered ==
  \A n \in 1 .. MaxPeer :
    (gst = "open" /\ peerSent[gconn] >= n) ~> (Len(got) >= n \/ finSent \/ resent > 0)
=============================================================================
