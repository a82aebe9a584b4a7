-------------------------- MODULE TcpSessionProofs --------------------------
(***************************************************************************)
(* Theorems about TcpSession, for every segment size, window and number of *)
(* bytes and connections.                                                  *)
(***************************************************************************)
EXTENDS TcpSession, SequenceTheorems, TLAPS

(* A data segment carries the bytes its number says: the k-th byte of the  *)
(* peer's stream has number k.                                             *)
Sound == {s \in Segments : s.kind = "data" => s.seq = s.first + 1}

Live == session \in {"synReceived", "established"}

(* The proxy's half of the invariant: while a session carries data its     *)
(* number is that of the first byte not yet taken from the handle, and     *)
(* once it has sent its FIN nothing more can come.                         *)
ProxyInv ==
  /\ session \in {"none", "synReceived", "established", "finWait"}
  /\ conn \in Conns \cup {0} /\ (session # "none" => conn \in Conns)
  /\ hostSeq \in Nat /\ guestAcked \in Nat
  /\ sock \in [Conns -> {"idle", "connecting", "connected", "failed", "closed"}]
  /\ remoteClosed \in [Conns -> BOOLEAN]
  /\ receiveBuffer \in [Conns -> Nat] /\ peerSent \in [Conns -> Nat]
  /\ rxQueue \in Seq(Sound)
  /\ \A c \in Conns : c > conn => sock[c] = "idle" /\ peerSent[c] = 0 /\ receiveBuffer[c] = 0
  /\ \A c \in Conns : receiveBuffer[c] <= peerSent[c]
  /\ Live => hostSeq = peerSent[conn] - receiveBuffer[conn] + 1
  /\ session = "finWait" => receiveBuffer[conn] = 0 /\ remoteClosed[conn]

(* The guest's half: it expects the byte after those it has.               *)
GuestInv ==
  /\ got \in Seq(Nat) /\ rcvNxt \in Nat
  /\ gst # "open" => got = <<>> /\ ~finRcvd
  /\ gst = "open" /\ ~finRcvd => rcvNxt = Len(got) + 1
  /\ GuestStreamInOrder

----------------------------------------------------------------------------
(* Division.                                                               *)

LEMMA DivBound ==
  ASSUME NEW a \in Nat, NEW d \in Nat \ {0}
  PROVE  a \div d \in Nat /\ (a \div d) * d <= a
  OBVIOUS

LEMMA Monotone ==
  ASSUME NEW m \in Nat, NEW n \in Nat, m <= n, NEW d \in Nat
  PROVE  m * d \in Nat /\ m * d <= n * d
<1>1. PICK e \in Nat : n = m + e
  <2>1. n - m \in Nat /\ n = m + (n - m)
    OBVIOUS
  <2> QED BY <2>1
<1>2. e * d \in Nat /\ m * d \in Nat
  OBVIOUS
<1>3. n * d = m * d + e * d
  BY <1>1
<1> QED BY <1>2, <1>3

(* Every segment of a chunk starts within the chunk.                       *)
LEMMA OffsetWithin ==
  ASSUME NEW len \in Nat, NEW k \in 1 .. (len + Mss - 1) \div Mss
  PROVE  Offset(k) \in Nat /\ Offset(k) <= len
<1> DEFINE q == (len + Mss - 1) \div Mss
<1>1. Mss \in Nat \ {0} /\ len + Mss - 1 \in Nat
  BY TcpAssumption
<1>2. q \in Nat /\ q * Mss <= len + Mss - 1
  BY <1>1, DivBound
<1>3. k - 1 \in Nat /\ q - 1 \in Nat /\ k - 1 <= q - 1
  BY <1>2
<1>4. (k - 1) * Mss \in Nat /\ (k - 1) * Mss <= (q - 1) * Mss
  BY <1>1, <1>3, Monotone
<1>5. (q - 1) * Mss = q * Mss - Mss
  BY <1>1, <1>2
<1> HIDE DEF q
<1>6. q * Mss \in Int
  BY <1>1, <1>2
<1> QED BY <1>1, <1>2, <1>4, <1>5, <1>6 DEF Offset

----------------------------------------------------------------------------
(* Segments.                                                               *)

LEMMA SegmentSound ==
  ASSUME NEW kind \in {"data", "fin", "ack"}, NEW seq \in Nat, NEW first \in Nat,
         NEW len \in Nat, kind = "data" => seq = first + 1,
         conn \in Conns \cup {0}, guestAcked \in Nat
  PROVE  Segment(kind, seq, first, len) \in Sound
  BY DEF Segment, Sound, Segments

LEMMA AckSound ==
  ASSUME conn \in Conns \cup {0}, guestAcked \in Nat, hostSeq \in Nat, NEW n \in Nat
  PROVE  AckOf(n) \in Sound
  BY DEF AckOf, Segment, Sound, Segments

LEMMA RstSound == Rst \in Sound
  BY DEF Rst, Sound, Segments

(* The segments of a chunk: of at most Mss bytes, each with its number.     *)
LEMMA DataSound ==
  ASSUME ProxyInv, session # "none"
  PROVE  DataPackets \in Seq({s \in Sound : s.kind = "data"})
<1> DEFINE len == receiveBuffer[conn]
           n == (len + Mss - 1) \div Mss
           first == peerSent[conn] - len
<1>1. /\ conn \in Conns /\ len \in Nat /\ first \in Nat /\ hostSeq \in Nat
      /\ guestAcked \in Nat
  BY DEF ProxyInv
<1>2. n \in Nat
  BY <1>1, DivBound, TcpAssumption
<1>3. ASSUME NEW k \in 1 .. n
      PROVE  Segment("data", hostSeq + Offset(k), first + Offset(k),
                     Smaller(Mss, len - Offset(k))) \in {s \in Sound : s.kind = "data"}
  <2>1. Offset(k) \in Nat /\ Offset(k) <= len
    BY <1>1, OffsetWithin
  <2>2. n # 0 /\ len # 0
    <3>1. len = 0 => len + Mss - 1 = Mss - 1 /\ n * Mss <= Mss - 1
      BY <1>1, DivBound, TcpAssumption
    <3>2. n >= 1 => 1 * Mss <= n * Mss
      BY <1>2, Monotone, TcpAssumption
    <3>3. n * Mss \in Int /\ Mss \in Nat \ {0} /\ 1 * Mss = Mss
      BY <1>2, TcpAssumption
    <3> HIDE DEF n, len
    <3> QED BY <3>1, <3>2, <3>3, <1>2
  <2>3. hostSeq = first + 1
    BY <1>1, <2>2 DEF ProxyInv, Live
  <2>4. Smaller(Mss, len - Offset(k)) \in Nat
    BY <1>1, <2>1, TcpAssumption DEF Smaller
  <2> HIDE DEF first, len, n
  <2>5. Segment("data", hostSeq + Offset(k), first + Offset(k),
                Smaller(Mss, len - Offset(k))) \in Sound
    BY <1>1, <2>1, <2>3, <2>4, SegmentSound
  <2> QED BY <2>5 DEF Segment
<1> QED
  <2>1. DataPackets = [k \in 1 .. n |-> Segment("data", hostSeq + Offset(k),
                         first + Offset(k), Smaller(Mss, len - Offset(k)))]
    BY DEF DataPackets
  <2> HIDE DEF first, len, n
  <2>2. DataPackets \in [1 .. n -> {s \in Sound : s.kind = "data"}]
    BY <1>3, <2>1
  <2> QED BY <1>2, <2>2, SeqDef

(* What a set of segments admits, a larger one does.                       *)
LEMMA SeqGrows ==
  ASSUME NEW S, NEW T, S \subseteq T, NEW q \in Seq(S)
  PROVE  q \in Seq(T)
<1>1. \A i \in 1 .. Len(q) : q[i] \in T
  OBVIOUS
<1>2. q = [i \in 1 .. Len(q) |-> q[i]] /\ Len(q) \in Nat
  BY LenProperties
<1>3. q \in [1 .. Len(q) -> T]
  BY <1>1, <1>2
<1> QED BY <1>2, <1>3, SeqDef

LEMMA PacketsSound ==
  ASSUME ProxyInv, session # "none"
  PROVE  Packets \in Seq(Sound)
<1>1. DataPackets \in Seq(Sound)
  BY DataSound, SeqGrows
<1>2. FinPacket(hostSeq + receiveBuffer[conn]) \in Seq(Sound)
  <2>1. hostSeq + receiveBuffer[conn] \in Nat
    BY DEF ProxyInv
  <2>2. Segment("fin", hostSeq + receiveBuffer[conn], 0, 0) \in Sound
    BY <2>1, SegmentSound DEF ProxyInv
  <2> QED BY <2>2 DEF FinPacket
<1> QED BY <1>1, <1>2, ConcatProperties DEF Packets

----------------------------------------------------------------------------
(* The proxy's steps keep its half.                                        *)

LEMMA InitProxy == Init => ProxyInv
  BY TcpAssumption DEF Init, ProxyInv, Live, Conns

LEMMA HandleSynKeeps == ProxyInv /\ HandleSyn => ProxyInv'
<1> SUFFICES ASSUME ProxyInv, HandleSyn PROVE ProxyInv'
  OBVIOUS
<1>1. conn + 1 \in Conns /\ conn \in Nat /\ Conns \subseteq Nat
  BY TcpAssumption DEF HandleSyn, ProxyInv, Conns
<1>2. rxQueue' \in Seq(Sound)
  <2>1. [kind |-> "synack", conn |-> conn + 1, seq |-> 0, first |-> 0, len |-> 0,
         ack |-> 1] \in Sound
    BY <1>1 DEF Sound, Segments
  <2> QED BY <2>1, AppendProperties DEF HandleSyn, ProxyInv
<1>3. peerSent[conn + 1] = 0 /\ receiveBuffer[conn + 1] = 0
  BY <1>1 DEF ProxyInv
<1> QED BY <1>1, <1>2, <1>3 DEF HandleSyn, ProxyInv, Live, hostVars

LEMMA RefuseKeeps == ProxyInv /\ RefuseSyn => ProxyInv'
<1> SUFFICES ASSUME ProxyInv, RefuseSyn PROVE ProxyInv'
  OBVIOUS
<1>1. rxQueue' \in Seq(Sound)
  BY RstSound, AppendProperties DEF RefuseSyn, ProxyInv
<1> QED BY <1>1 DEF RefuseSyn, ProxyInv, Live, sessionVars, handleVars, hostVars

LEMMA HandleTcpKeeps ==
  ASSUME ProxyInv, NEW payload, Len(payload) \in Nat, NEW fin \in BOOLEAN, HandleTcp(payload, fin)
  PROVE  ProxyInv'
<1>1. CASE session = "none"
  <2>0. rxQueue' = Append(rxQueue, Rst)
    BY <1>1 DEF HandleTcp
  <2>1. rxQueue' \in Seq(Sound)
    BY <2>0, RstSound, AppendProperties DEF ProxyInv
  <2> QED BY <1>1, <2>1 DEF HandleTcp, ProxyInv, Live, sessionVars, handleVars, hostVars
<1>2. CASE session = "synReceived"
  BY <1>2 DEF HandleTcp, ProxyInv, Live, handleVars, hostVars
<1>3. CASE session = "established"
  <2>1. HandleEstablished(payload, fin)
    BY <1>3 DEF HandleTcp
  <2>2. /\ conn \in Conns /\ Acked(payload) \in Nat /\ guestAcked' \in Nat
        /\ conn' = conn /\ hostSeq' = hostSeq
    BY <1>3, <2>1 DEF HandleEstablished, ProxyInv, Acked
  <2>3. AckOf(Acked(payload)) \in Sound /\ AckOf(guestAcked') \in Sound
    BY <2>2, AckSound DEF ProxyInv
  <2>4. rxQueue' \in Seq(Sound)
    <3> DEFINE a == IF payload # <<>> THEN <<AckOf(Acked(payload))>> ELSE <<>>
               b == IF fin THEN <<AckOf(guestAcked')>> ELSE <<>>
    <3>1. a \in Seq(Sound) /\ b \in Seq(Sound)
      BY <2>3
    <3>2. rxQueue' = rxQueue \o a \o b
      BY <2>1 DEF HandleEstablished
    <3> HIDE DEF a, b
    <3> QED BY <3>1, <3>2, ConcatProperties DEF ProxyInv
  <2>5. sock' \in [Conns -> {"idle", "connecting", "connected", "failed", "closed"}]
        /\ \A c \in Conns : c > conn => sock'[c] = sock[c]
    BY <2>1, <2>2 DEF HandleEstablished, ProxyInv, Conns
  <2>6. UNCHANGED <<hostSeq, remoteClosed, receiveBuffer, peerSent, conn>>
        /\ session' \in {"none", "established"}
    BY <1>3, <2>1 DEF HandleEstablished
  <2> QED BY <1>3, <2>2, <2>4, <2>5, <2>6 DEF ProxyInv, Live
<1>4. CASE session = "finWait"
  <2>1. HandleFinWait(fin)
    BY <1>4 DEF HandleTcp
  <2>2. guestAcked' \in Nat /\ AckOf(guestAcked + 1) \in Sound
    BY <2>1, AckSound DEF HandleFinWait, ProxyInv
  <2>3. rxQueue' \in Seq(Sound)
    BY <2>1, <2>2, AppendProperties DEF HandleFinWait, ProxyInv
  <2> QED BY <2>1, <2>2, <2>3 DEF HandleFinWait, ProxyInv, Live, handleVars, hostVars
<1> QED BY <1>1, <1>2, <1>3, <1>4 DEF ProxyInv

LEMMA TakeKeeps ==
  ASSUME ProxyInv, rxQueue # <<>>, Take
  PROVE  ProxyInv' /\ Seg \in Sound
<1>1. Tail(rxQueue) \in Seq(Sound) /\ Head(rxQueue) \in Sound
  BY HeadTailProperties DEF ProxyInv
<1> QED BY <1>1 DEF Take, ProxyInv, Live, Seg, sessionVars, handleVars, hostVars

LEMMA SocketKeeps ==
  ASSUME ProxyInv, NEW c \in Conns, Socket(c)
  PROVE  ProxyInv'
<1>1. CASE Connected(c)
  BY <1>1 DEF Connected, ProxyInv, Live, sessionVars
<1>2. CASE ConnectFails(c)
  BY <1>2 DEF ConnectFails, ProxyInv, Live, sessionVars, hostVars
<1>3. CASE PeerSends(c)
  BY <1>3 DEF PeerSends, ProxyInv, Live, sessionVars
<1>4. CASE PeerCloses(c)
  BY <1>4 DEF PeerCloses, ProxyInv, Live, sessionVars, hostVars
<1> QED BY <1>1, <1>2, <1>3, <1>4 DEF Socket

LEMMA PollKeeps == ProxyInv /\ Poll => ProxyInv'
<1> SUFFICES ASSUME ProxyInv, Poll PROVE ProxyInv'
  OBVIOUS
<1>1. rxQueue' \in Seq(Sound)
  BY PacketsSound, ConcatProperties DEF Poll, ProxyInv
<1>2. conn \in Conns /\ hostSeq' \in Nat
  BY DEF Poll, ProxyInv
<1>3. /\ receiveBuffer' \in [Conns -> Nat] /\ receiveBuffer'[conn] = 0
      /\ \A c \in Conns : receiveBuffer'[c] <= receiveBuffer[c]
  BY <1>2 DEF Poll, ReceiveAll, ProxyInv
<1>4. UNCHANGED <<conn, guestAcked, sock, remoteClosed, peerSent>>
  BY DEF Poll, hostVars
<1>5. Live' => Live /\ hostSeq' = peerSent[conn] + 1
  BY <1>2 DEF Poll, ProxyInv, Live, FinDue
<1>6. session' = "finWait" => remoteClosed[conn]
  BY DEF Poll, ProxyInv, FinDue
<1>7. session' \in {"synReceived", "established", "finWait"}
  BY DEF Poll, ProxyInv
<1>8. \A c \in Conns : c > conn => receiveBuffer'[c] = 0
  BY <1>3 DEF ProxyInv
<1>9. \A c \in Conns : receiveBuffer'[c] <= peerSent[c]
  BY <1>3 DEF ProxyInv
<1> QED BY <1>1, <1>2, <1>3, <1>4, <1>5, <1>6, <1>7, <1>8, <1>9 DEF ProxyInv, Live

----------------------------------------------------------------------------
(* The guest's steps.                                                      *)

(* A segment that is due appends the bytes that are due.                   *)
LEMMA DataKeeps ==
  ASSUME ProxyInv, GuestInv, ReceiveData
  PROVE  ProxyInv' /\ GuestInv'
<1>1. ProxyInv' /\ Seg \in Sound
  BY TakeKeeps DEF ReceiveData, Arrives
<1>2. /\ Seg.seq = Seg.first + 1 /\ Seg.len \in Nat /\ Seg.first \in Nat
      /\ gst = "open" /\ ~finRcvd /\ Seg.seq = rcvNxt /\ rcvNxt = Len(got) + 1
  BY <1>1 DEF ReceiveData, Arrives, Seg, Sound, Segments, Acceptable, Open, GuestInv
<1> DEFINE bytes == [k \in 1 .. Seg.len |-> Seg.first + k]
<1>3. bytes \in Seq(Nat) /\ Len(bytes) = Seg.len
  <2>1. bytes \in [1 .. Seg.len -> Nat]
    BY <1>2
  <2>2. bytes \in Seq(Nat)
    BY <1>2, <2>1, SeqDef
  <2> QED BY <1>2, <2>2, LenProperties
<1>4. got' = got \o bytes /\ Seg.first = Len(got)
  BY <1>2, LenProperties DEF ReceiveData, GuestInv
<1>5. \A k \in 1 .. Seg.len : bytes[k] = Len(got) + k
  BY <1>4
<1> HIDE DEF bytes
<1>6. /\ got' \in Seq(Nat) /\ Len(got') = Len(got) + Seg.len
      /\ \A i \in 1 .. Len(got') :
           got'[i] = IF i <= Len(got) THEN got[i] ELSE bytes[i - Len(got)]
  BY <1>3, <1>4, ConcatProperties DEF GuestInv
<1>7. Len(got) \in Nat
  BY LenProperties DEF GuestInv
<1>8. GuestStreamInOrder'
  <2> SUFFICES ASSUME NEW i \in 1 .. Len(got')
               PROVE  got'[i] = i
    BY DEF GuestStreamInOrder, InOrder
  <2>1. CASE i <= Len(got)
    BY <1>6, <1>7, <2>1 DEF GuestInv, GuestStreamInOrder, InOrder
  <2>2. CASE i > Len(got)
    <3>1. i - Len(got) \in 1 .. Seg.len
      BY <1>2, <1>6, <1>7, <2>2
    <3> QED BY <1>5, <1>6, <1>7, <2>2, <3>1
  <2> QED BY <1>7, <2>1, <2>2
<1>9. gst' = "open" /\ ~finRcvd' /\ rcvNxt' = Len(got') + 1
  <2>1. rcvNxt' = rcvNxt + Seg.len /\ gst' = gst /\ finRcvd' = finRcvd
    BY DEF ReceiveData
  <2>2. Len(got') = Len(got) + Seg.len
    BY <1>6
  <2> QED BY <1>2, <1>7, <2>1, <2>2
<1> QED BY <1>1, <1>2, <1>6, <1>7, <1>8, <1>9 DEF GuestInv

LEMMA ReceiveKeeps == ProxyInv /\ GuestInv /\ Receive => ProxyInv' /\ GuestInv'
<1> SUFFICES ASSUME ProxyInv, GuestInv, Receive PROVE ProxyInv' /\ GuestInv'
  OBVIOUS
<1>1. CASE ReceiveData
  BY <1>1, DataKeeps
<1>2. CASE ReceiveSynAck
  <2>1. ProxyInv' /\ got = <<>> /\ got' = got /\ finRcvd' = finRcvd
    BY <1>2, TakeKeeps DEF ReceiveSynAck, Arrives, GuestInv
  <2>2. rcvNxt' = Len(got) + 1 /\ got' \in Seq(Nat)
    BY <1>2, <2>1 DEF ReceiveSynAck
  <2>3. GuestStreamInOrder'
    BY <2>1 DEF GuestStreamInOrder, InOrder
  <2> QED BY <1>2, <2>1, <2>2, <2>3 DEF ReceiveSynAck, GuestInv
<1>3. CASE ReceiveRst \/ Discard \/ ReceiveAck
  <2>1. ProxyInv' /\ UNCHANGED <<got, rcvNxt, finRcvd>> /\ (gst' = "open" <=> gst = "open")
    BY <1>3, TakeKeeps DEF ReceiveRst, Discard, ReceiveAck, Arrives, streamVars
  <2>2. GuestStreamInOrder'
    BY <2>1 DEF GuestInv, GuestStreamInOrder, InOrder
  <2> QED BY <2>1, <2>2 DEF GuestInv
<1>4. CASE ReceiveFin
  <2>1. /\ ProxyInv' /\ got' = got /\ finRcvd' /\ gst' = gst /\ gst = "open"
        /\ rcvNxt' = rcvNxt + 1
    BY <1>4, TakeKeeps DEF ReceiveFin, Arrives, Acceptable, Open
  <2>2. GuestStreamInOrder'
    BY <2>1 DEF GuestInv, GuestStreamInOrder, InOrder
  <2> QED BY <2>1, <2>2 DEF GuestInv
<1> QED BY <1>1, <1>2, <1>3, <1>4 DEF Receive

LEMMA SendingKeeps == ProxyInv /\ GuestInv /\ Guest => ProxyInv' /\ GuestInv'
<1> SUFFICES ASSUME ProxyInv, GuestInv, Guest PROVE ProxyInv' /\ GuestInv'
  OBVIOUS
<1>1. UNCHANGED <<got, rcvNxt, finRcvd>> /\ (gst' = "open" <=> gst = "open")
  BY DEF Guest, Connect, ResendSyn, Write, ResendData, Close, Ack, Read, streamVars
<1>2. GuestInv'
  <2>1. GuestStreamInOrder'
    BY <1>1 DEF GuestInv, GuestStreamInOrder, InOrder
  <2> QED BY <1>1, <2>1 DEF GuestInv
<1>3. CASE Connect \/ ResendSyn
  BY <1>3, <1>2, HandleSynKeeps, RefuseKeeps DEF Connect, ResendSyn
<1>4. CASE Close \/ Ack
  <2>1. PICK fin \in BOOLEAN : HandleTcp(<<>>, fin)
    BY <1>4 DEF Close, Ack
  <2>2. Len(<<>>) \in Nat
    OBVIOUS
  <2> QED BY <1>2, <2>1, <2>2, HandleTcpKeeps
<1>6. CASE Write \/ ResendData
  <2>1. PICK n : HandleTcp(<<n>>, FALSE)
    BY <1>6 DEF Write, ResendData
  <2>2. Len(<<n>>) \in Nat
    OBVIOUS
  <2> QED BY <1>2, <2>1, <2>2, HandleTcpKeeps
<1>5. CASE Read
  BY <1>2, <1>5 DEF Read, ProxyInv, Live, sessionVars, handleVars, hostVars
<1> QED BY <1>3, <1>4, <1>5, <1>6 DEF Guest

LEMMA StepKeeps == ProxyInv /\ GuestInv /\ [Next]_vars => ProxyInv' /\ GuestInv'
<1> SUFFICES ASSUME ProxyInv, GuestInv, [Next]_vars PROVE ProxyInv' /\ GuestInv'
  OBVIOUS
<1>1. CASE Receive
  BY <1>1, ReceiveKeeps
<1>2. CASE Guest
  BY <1>2, SendingKeeps
<1>3. CASE Poll \/ \E c \in Conns : Socket(c)
  <2>1. ProxyInv'
    BY <1>3, PollKeeps, SocketKeeps
  <2>2. UNCHANGED <<got, rcvNxt, finRcvd, gst>>
    BY <1>3 DEF Poll, Socket, Connected, ConnectFails, PeerSends, PeerCloses,
                guestVars, streamVars
  <2>3. GuestStreamInOrder'
    BY <2>2 DEF GuestInv, GuestStreamInOrder, InOrder
  <2> QED BY <2>1, <2>2, <2>3 DEF GuestInv
<1>4. CASE PollNothing \/ UNCHANGED vars
  <2>1. UNCHANGED vars
    BY <1>4 DEF PollNothing
  <2> QED BY <2>1 DEF vars, sessionVars, handleVars, hostVars, guestVars, streamVars,
                      ProxyInv, Live, GuestInv, GuestStreamInOrder, InOrder
<1> QED BY <1>1, <1>2, <1>3, <1>4 DEF Next

(* However often the guest sends a segment or its SYN again, whatever its  *)
(* window drops, and whatever the sizes, its program reads the first bytes *)
(* of the peer's stream in order.                                          *)
THEOREM GuestReadsInOrder == Spec => []GuestStreamInOrder
<1>1. Init => ProxyInv /\ GuestInv
  BY InitProxy DEF Init, GuestInv, GuestStreamInOrder, InOrder
<1>2. ProxyInv /\ GuestInv => GuestStreamInOrder
  BY DEF GuestInv
<1> QED BY <1>1, <1>2, StepKeeps, PTL DEF Spec

----------------------------------------------------------------------------
(* The end of the peer's stream.  A FIN is on its way only for a           *)
(* connection whose peer has closed, and its number is the one behind all  *)
(* that the peer has sent.                                                 *)
Ending ==
  {s \in Segments : s.kind = "fin" =>
     s.conn \in Conns /\ remoteClosed[s.conn] /\ s.seq = peerSent[s.conn] + 1}

FinInv ==
  /\ rxQueue \in Seq(Ending)
  /\ finRcvd => gconn \in Conns /\ remoteClosed[gconn] /\ FinAfterData

(* A peer that has closed sends nothing more.                              *)
StreamsEnd ==
  \A c \in Conns : remoteClosed[c] => remoteClosed'[c] /\ peerSent'[c] = peerSent[c]

LEMMA FinKept ==
  ASSUME FinInv, StreamsEnd, rxQueue' \in Seq(Ending), UNCHANGED <<finRcvd, gconn, got>>
  PROVE  FinInv'
<1>1. Ending \subseteq Ending'
  BY DEF Ending, StreamsEnd
<1>2. rxQueue' \in Seq(Ending')
  BY <1>1, SeqGrows
<1> QED BY <1>2 DEF FinInv, StreamsEnd, FinAfterData

(* The proxy's answers to the guest: none of them is a FIN.                *)
LEMMA AnswerEnding ==
  ASSUME ProxyInv
  PROVE  /\ Rst \in Ending
         /\ \A n \in Nat : AckOf(n) \in Ending
         /\ \A c \in Conns : [kind |-> "synack", conn |-> c, seq |-> 0, first |-> 0,
                              len |-> 0, ack |-> 1] \in Ending
<1>1. Rst \in Segments /\ Rst.kind = "rst"
  BY DEF Rst, Segments
<1>2. ASSUME NEW n \in Nat
      PROVE  AckOf(n) \in Segments /\ AckOf(n).kind = "ack"
  BY DEF AckOf, Segment, Segments, ProxyInv
<1>3. ASSUME NEW c \in Conns
      PROVE  [kind |-> "synack", conn |-> c, seq |-> 0, first |-> 0,
              len |-> 0, ack |-> 1] \in Segments
  BY DEF Segments
<1> QED BY <1>1, <1>2, <1>3 DEF Ending

LEMMA HandleTcpEnding ==
  ASSUME ProxyInv, FinInv, NEW payload, Len(payload) \in Nat, NEW fin \in BOOLEAN,
         HandleTcp(payload, fin)
  PROVE  rxQueue' \in Seq(Ending) /\ UNCHANGED <<remoteClosed, peerSent>>
<1>1. CASE session \in {"none", "synReceived"}
  <2>1. rxQueue' \in {rxQueue, Append(rxQueue, Rst)}
        /\ UNCHANGED <<remoteClosed, peerSent>>
    BY <1>1 DEF HandleTcp, handleVars, hostVars
  <2> QED BY <2>1, AnswerEnding, AppendProperties DEF FinInv
<1>2. CASE session = "established"
  <2>1. HandleEstablished(payload, fin)
    BY <1>2 DEF HandleTcp
  <2>2. Acked(payload) \in Nat /\ guestAcked' \in Nat
    BY <2>1 DEF HandleEstablished, ProxyInv, Acked
  <2> DEFINE a == IF payload # <<>> THEN <<AckOf(Acked(payload))>> ELSE <<>>
             b == IF fin THEN <<AckOf(guestAcked')>> ELSE <<>>
  <2>3. AckOf(Acked(payload)) \in Ending /\ AckOf(guestAcked') \in Ending
    BY <2>2, AnswerEnding
  <2>4. a \in Seq(Ending) /\ b \in Seq(Ending)
    BY <2>3
  <2>5. rxQueue' = rxQueue \o a \o b /\ UNCHANGED <<remoteClosed, peerSent>>
    BY <2>1 DEF HandleEstablished
  <2> HIDE DEF a, b
  <2> QED BY <2>4, <2>5, ConcatProperties DEF FinInv
<1>3. CASE session = "finWait"
  <2>1. rxQueue' \in {rxQueue, Append(rxQueue, AckOf(guestAcked + 1))}
        /\ UNCHANGED <<remoteClosed, peerSent>>
    BY <1>3 DEF HandleTcp, HandleFinWait, handleVars, hostVars
  <2>2. guestAcked + 1 \in Nat
    BY DEF ProxyInv
  <2> QED BY <2>1, <2>2, AnswerEnding, AppendProperties DEF FinInv
<1> QED BY <1>1, <1>2, <1>3 DEF ProxyInv

LEMMA GuestEnding ==
  ASSUME ProxyInv, FinInv, Guest
  PROVE  FinInv'
<1>1. UNCHANGED <<finRcvd, gconn, got>>
  BY DEF Guest, Connect, ResendSyn, Write, ResendData, Close, Ack, Read, streamVars
<1>2. CASE HandleSyn
  <2>1. conn + 1 \in Conns
    BY <1>2, TcpAssumption DEF HandleSyn, ProxyInv, Conns
  <2>2. rxQueue' \in Seq(Ending)
    BY <1>2, <2>1, AnswerEnding, AppendProperties DEF HandleSyn, FinInv
  <2> QED BY <1>1, <1>2, <2>2, FinKept DEF HandleSyn, hostVars, StreamsEnd
<1>3. CASE RefuseSyn
  <2>1. rxQueue' \in Seq(Ending)
    BY <1>3, AnswerEnding, AppendProperties DEF RefuseSyn, FinInv
  <2> QED BY <1>1, <1>3, <2>1, FinKept DEF RefuseSyn, handleVars, hostVars, StreamsEnd
<1>4. ASSUME NEW payload, Len(payload) \in Nat, NEW fin \in BOOLEAN, HandleTcp(payload, fin)
      PROVE  FinInv'
  BY <1>1, <1>4, HandleTcpEnding, FinKept DEF StreamsEnd
<1>5. CASE Connect \/ ResendSyn
  BY <1>2, <1>3, <1>5 DEF Connect, ResendSyn
<1>6. CASE Write \/ ResendData
  <2>1. PICK n : HandleTcp(<<n>>, FALSE)
    BY <1>6 DEF Write, ResendData
  <2>2. Len(<<n>>) \in Nat
    OBVIOUS
  <2> QED BY <1>4, <2>1, <2>2
<1>7. CASE Close \/ Ack
  <2>1. PICK fin \in BOOLEAN : HandleTcp(<<>>, fin)
    BY <1>7 DEF Close, Ack
  <2>2. Len(<<>>) \in Nat
    OBVIOUS
  <2> QED BY <1>4, <2>1, <2>2
<1>8. CASE Read
  BY <1>1, <1>8, FinKept DEF Read, handleVars, hostVars, StreamsEnd, FinInv
<1> QED BY <1>5, <1>6, <1>7, <1>8 DEF Guest

(* The FIN is numbered behind what the handle still held.                  *)
LEMMA PollEnding ==
  ASSUME ProxyInv, FinInv, Poll
  PROVE  FinInv'
<1>1. session # "none" /\ conn \in Conns
  BY DEF Poll, ProxyInv
<1>2. DataPackets \in Seq(Ending)
  <2>1. {s \in Sound : s.kind = "data"} \subseteq Ending
    BY DEF Sound, Ending
  <2> QED BY <1>1, <2>1, DataSound, SeqGrows
<1>3. FinPacket(hostSeq + receiveBuffer[conn]) \in Seq(Ending)
  <2>1. CASE FinDue
    <3>1. hostSeq + receiveBuffer[conn] = peerSent[conn] + 1 /\ remoteClosed[conn]
          /\ hostSeq + receiveBuffer[conn] \in Nat
      BY <1>1, <2>1 DEF FinDue, ProxyInv, Live
    <3>2. Segment("fin", hostSeq + receiveBuffer[conn], 0, 0) \in Ending
      BY <1>1, <3>1 DEF Segment, Segments, Ending, ProxyInv
    <3> QED BY <2>1, <3>2 DEF FinPacket
  <2>2. CASE ~FinDue
    BY <2>2 DEF FinPacket
  <2> QED BY <2>1, <2>2
<1>4. rxQueue' \in Seq(Ending)
  BY <1>2, <1>3, ConcatProperties DEF Poll, Packets, FinInv
<1> QED
  BY <1>4, FinKept DEF Poll, hostVars, guestVars, streamVars, StreamsEnd

LEMMA SocketEnding ==
  ASSUME ProxyInv, FinInv, NEW c \in Conns, Socket(c)
  PROVE  FinInv'
<1>1. UNCHANGED <<rxQueue, finRcvd, gconn, got>>
  BY DEF Socket, Connected, ConnectFails, PeerSends, PeerCloses, guestVars, streamVars
<1>2. StreamsEnd
  BY DEF Socket, Connected, ConnectFails, PeerSends, PeerCloses, hostVars, StreamsEnd,
         ProxyInv
<1> QED BY <1>1, <1>2, FinKept DEF FinInv

(* A FIN that is due has the number of the byte the guest expects, which   *)
(* is the one behind those it has.                                         *)
LEMMA ReceiveEnding ==
  ASSUME ProxyInv, GuestInv, FinInv, Receive
  PROVE  FinInv'
<1>1. rxQueue # <<>> /\ Take
  BY DEF Receive, ReceiveSynAck, ReceiveRst, Discard, ReceiveData, ReceiveFin, ReceiveAck,
         Arrives
<1>2. Seg \in Ending /\ rxQueue' \in Seq(Ending)
  BY <1>1, HeadTailProperties DEF FinInv, Seg, Take
<1>3. StreamsEnd /\ UNCHANGED <<remoteClosed, peerSent>>
  BY <1>1 DEF Take, handleVars, hostVars, StreamsEnd
<1>4. CASE ReceiveRst \/ Discard \/ ReceiveAck
  BY <1>2, <1>3, <1>4, FinKept DEF ReceiveRst, Discard, ReceiveAck, streamVars
<1>5. CASE ReceiveSynAck \/ ReceiveData
  <2>1. ~finRcvd /\ finRcvd' = finRcvd
    BY <1>5 DEF ReceiveSynAck, ReceiveData, GuestInv
  <2>2. Ending' = Ending
    BY <1>3 DEF Ending
  <2> QED BY <1>2, <2>1, <2>2 DEF FinInv
<1>6. CASE ReceiveFin
  <2>1. /\ Seg.kind = "fin" /\ gst = "open" /\ Seg.conn = gconn /\ Seg.seq = rcvNxt
        /\ UNCHANGED <<gconn, got>>
    BY <1>6 DEF ReceiveFin, Arrives, Seg, Acceptable, Open
  <2>2. gconn \in Conns /\ remoteClosed[gconn] /\ rcvNxt = peerSent[gconn] + 1
    BY <1>2, <2>1 DEF Ending
  <2>3. Len(got) \in Nat /\ peerSent[gconn] \in Nat
    BY <2>2, LenProperties DEF GuestInv, ProxyInv
  <2>4. Len(got) = peerSent[gconn]
    BY <2>1, <2>2, <2>3 DEF GuestInv, FinInv, FinAfterData
  <2>5. Ending' = Ending
    BY <1>3 DEF Ending
  <2> QED BY <1>2, <1>3, <2>1, <2>2, <2>4, <2>5 DEF FinInv, FinAfterData
<1> QED BY <1>4, <1>5, <1>6 DEF Receive

(* The guest's program never takes the end of the stream for the end of    *)
(* less than all of it, whatever is sent again and whatever it discards.   *)
THEOREM GuestSeesTheEnd == Spec => []FinAfterData
<1>1. Init => ProxyInv /\ GuestInv /\ FinInv
  <2>1. Init => GuestInv
    BY DEF Init, GuestInv, GuestStreamInOrder, InOrder
  <2>2. Init => FinInv
    BY DEF Init, FinInv
  <2> QED BY <2>1, <2>2, InitProxy
<1>2. ProxyInv /\ GuestInv /\ FinInv /\ [Next]_vars => FinInv'
  <2> SUFFICES ASSUME ProxyInv, GuestInv, FinInv, [Next]_vars PROVE FinInv'
    OBVIOUS
  <2>1. CASE PollNothing \/ UNCHANGED vars
    <3>1. UNCHANGED vars
      BY <2>1 DEF PollNothing
    <3> QED BY <3>1, FinKept DEF vars, handleVars, hostVars, guestVars, streamVars,
                                 StreamsEnd, FinInv
  <2> QED BY <2>1, PollEnding, ReceiveEnding, GuestEnding, SocketEnding DEF Next
<1>3. FinInv => FinAfterData
  BY DEF FinInv, FinAfterData
<1> QED BY <1>1, <1>2, <1>3, StepKeeps, PTL DEF Spec

----------------------------------------------------------------------------
(* The other direction, for a guest that joins no data to its handshake,   *)
(* until it sends something twice.                                         *)

Bytes(c) == relayed[c] \o sendBuffer[c]
Accepts == sock[conn] \in {"connecting", "connected"}
Taking == Live /\ Accepts

(* While the session takes data, what has been given to the socket or      *)
(* waits for it is all that the guest has written; nothing waits once the  *)
(* socket is connected.  When it takes no more it acknowledges no more: a  *)
(* session that ends before its guest has closed leaves its socket open.   *)
RelayInv ==
  /\ session \in {"none", "synReceived", "established", "finWait"}
  /\ conn \in Conns \cup {0} /\ (session # "none" => conn \in Conns)
  /\ sock \in [Conns -> {"idle", "connecting", "connected", "failed", "closed"}]
  /\ relayed \in [Conns -> Seq(Nat)] /\ sendBuffer \in [Conns -> Seq(Nat)]
  /\ written \in Nat /\ guestAcked \in Nat /\ finSent \in BOOLEAN
  /\ gst = "closed" => conn = 0 /\ session = "none"
  /\ gst # "open" => written = 0 /\ ~finSent
  /\ \A c \in Conns : c # conn => relayed[c] = <<>> /\ sendBuffer[c] = <<>> /\ sock[c] = "idle"
  /\ \A c \in Conns : sock[c] = "connected" => sendBuffer[c] = <<>>
  /\ \A c \in Conns : InOrder(Bytes(c))
  /\ Taking => Len(Bytes(conn)) = written
  /\ session = "synReceived" /\ gst = "open" => owe
  /\ guestAcked <= SndNxt
  /\ conn \in Conns => sock[conn] # "idle" /\ (sock[conn] = "closed" => finSent)
  /\ conn \in Conns /\ Accepts /\ ~finSent => guestAcked <= Len(Bytes(conn)) + 1

LEMMA EmptyInOrder == InOrder(<<>> \o <<>>) /\ Len(<<>> \o <<>>) = 0
  BY DEF InOrder

LEMMA AppendInOrder ==
  ASSUME NEW s \in Seq(Nat), InOrder(s)
  PROVE  InOrder(s \o <<Len(s) + 1>>) /\ Len(s \o <<Len(s) + 1>>) = Len(s) + 1
<1>1. Len(s) \in Nat /\ <<Len(s) + 1>> \in Seq(Nat) /\ Len(<<Len(s) + 1>>) = 1
  BY LenProperties
<1> DEFINE t == <<Len(s) + 1>>
<1>2. t[1] = Len(s) + 1 /\ t \in Seq(Nat) /\ Len(t) = 1
  BY <1>1
<1> HIDE DEF t
<1>3. /\ Len(s \o t) = Len(s) + 1
      /\ \A i \in 1 .. Len(s) + 1 : (s \o t)[i] = IF i <= Len(s) THEN s[i] ELSE t[i - Len(s)]
  <2>1. /\ Len(s \o t) = Len(s) + Len(t)
        /\ \A i \in 1 .. Len(s) + Len(t) :
             (s \o t)[i] = IF i <= Len(s) THEN s[i] ELSE t[i - Len(s)]
    BY <1>2, ConcatProperties
  <2> QED BY <1>2, <2>1
<1>4. ASSUME NEW i \in 1 .. Len(s) + 1
      PROVE  (s \o t)[i] = i
  <2>1. CASE i <= Len(s)
    <3>1. i \in 1 .. Len(s)
      BY <1>1, <2>1
    <3>2. s[i] = i
      BY <3>1 DEF InOrder
    <3> QED BY <1>3, <2>1, <3>2
  <2>2. CASE i = Len(s) + 1
    <3>1. i - Len(s) = 1 /\ ~(i <= Len(s))
      BY <1>1, <2>2
    <3>2. (s \o t)[i] = t[i - Len(s)]
      BY <1>3, <3>1
    <3>3. t[i - Len(s)] = t[1]
      BY <3>1
    <3>4. (s \o t)[i] = Len(s) + 1
      BY <1>2, <3>2, <3>3, Zenon
    <3> QED BY <2>2, <3>4, Zenon
  <2>3. i <= Len(s) \/ i = Len(s) + 1
    BY <1>1
  <2> QED BY <2>1, <2>2, <2>3, Zenon
<1> QED BY <1>3, <1>4 DEF InOrder, t

(* What a segment with at most one byte does to the streams.               *)
LEMMA SendAppends ==
  ASSUME RelayInv, conn \in Conns, NEW payload \in Seq(Nat), Send(payload)
  PROVE  /\ relayed' \in [Conns -> Seq(Nat)] /\ sendBuffer' \in [Conns -> Seq(Nat)]
         /\ \A c \in Conns : c # conn =>
              relayed'[c] = relayed[c] /\ sendBuffer'[c] = sendBuffer[c]
         /\ sock[conn] = "connected" => sendBuffer'[conn] = <<>>
         /\ relayed'[conn] \o sendBuffer'[conn] =
              IF sock[conn] \in {"connecting", "connected"} THEN Bytes(conn) \o payload
                                                            ELSE Bytes(conn)
<1>1. relayed[conn] \in Seq(Nat) /\ sendBuffer[conn] \in Seq(Nat)
  BY DEF RelayInv
<1>2. relayed[conn] \o payload \in Seq(Nat) /\ sendBuffer[conn] \o payload \in Seq(Nat)
  BY <1>1, ConcatProperties
<1>3. CASE sock[conn] = "connected"
  <2>1. /\ relayed' = [relayed EXCEPT ![conn] = @ \o payload]
        /\ sendBuffer' = sendBuffer /\ sendBuffer[conn] = <<>>
    BY <1>3 DEF Send, RelayInv
  <2>2. relayed'[conn] \o sendBuffer'[conn] = relayed[conn] \o payload
    BY <1>1, <1>2, <2>1, ConcatEmptySeq DEF RelayInv
  <2>3. Bytes(conn) = relayed[conn]
    BY <1>1, <2>1, ConcatEmptySeq DEF Bytes
  <2> QED BY <1>2, <1>3, <2>1, <2>2, <2>3 DEF RelayInv
<1>4. CASE sock[conn] = "connecting"
  <2>1. /\ sendBuffer' = [sendBuffer EXCEPT ![conn] = @ \o payload]
        /\ relayed' = relayed
    BY <1>4 DEF Send
  <2>2. relayed[conn] \o (sendBuffer[conn] \o payload) = Bytes(conn) \o payload
    <3> DEFINE a == relayed[conn]
               b == sendBuffer[conn]
    <3>1. a \in Seq(Nat) /\ b \in Seq(Nat)
      BY <1>1
    <3> HIDE DEF a, b
    <3>2. (a \o b) \o payload = a \o (b \o payload)
      BY <3>1, ConcatAssociative
    <3> QED BY <3>2 DEF Bytes, a, b
  <2>3. sendBuffer'[conn] = sendBuffer[conn] \o payload
    BY <2>1 DEF RelayInv
  <2>4. relayed'[conn] \o sendBuffer'[conn] = Bytes(conn) \o payload
    BY <2>1, <2>2, <2>3
  <2> QED BY <1>2, <1>4, <2>1, <2>4 DEF RelayInv
<1>5. CASE sock[conn] \notin {"connecting", "connected"}
  BY <1>5 DEF Send, RelayInv, Bytes
<1> QED BY <1>3, <1>4, <1>5

(* A step of the proxy for a segment of the guest with no byte, or with    *)
(* the byte the guest writes next.                                         *)
LEMMA SegmentRelays ==
  ASSUME RelayInv, gst = "open", NEW n \in {0, 1}, NEW payload \in Seq(Nat),
         payload = IF n = 1 THEN <<written + 1>> ELSE <<>>,
         NEW fin \in BOOLEAN, HandleTcp(payload, fin),
         session = "synReceived" => n = 0 /\ ~fin,
         written' = written + n, UNCHANGED gst, ~owe',
         finSent' = (finSent \/ fin), fin => ~finSent
  PROVE  RelayInv'
<1>1. conn' = conn /\ written' \in Nat /\ finSent' \in BOOLEAN
  <2>1. conn' = conn
    BY DEF HandleTcp, HandleEstablished, HandleFinWait, sessionVars
  <2>2. written' \in Nat
    BY DEF RelayInv
  <2>3. finSent' \in BOOLEAN
    BY Zenon DEF RelayInv
  <2> QED BY <2>1, <2>2, <2>3
<1>2. SndNxt' = SndNxt + n + (IF fin THEN 1 ELSE 0) /\ SndNxt \in Nat
  BY DEF RelayInv, SndNxt
<1>3. CASE session \in {"none", "finWait"}
  <2>1. /\ UNCHANGED <<sock, relayed, sendBuffer>> /\ session' = "none"
        /\ guestAcked' \in Nat /\ guestAcked' <= guestAcked + (IF fin THEN 1 ELSE 0)
    <3>1. CASE session = "none"
      BY <3>1 DEF RelayInv, HandleTcp, sessionVars, handleVars, hostVars
    <3>2. CASE session = "finWait"
      BY <3>2 DEF RelayInv, HandleTcp, HandleFinWait, handleVars, hostVars
    <3> QED BY <1>3, <3>1, <3>2
  <2>2. guestAcked' <= SndNxt'
    BY <1>2, <2>1 DEF RelayInv
  <2> QED BY <1>1, <2>1, <2>2 DEF RelayInv, Taking, Accepts, Live, Bytes
<1>4. CASE session = "synReceived"
  <2>1. /\ UNCHANGED <<sock, relayed, sendBuffer, guestAcked>> /\ session' = "established"
        /\ n = 0 /\ ~fin
    BY <1>4 DEF HandleTcp, handleVars, hostVars
  <2>2. guestAcked' <= SndNxt' /\ written' = written
    BY <1>2, <2>1 DEF RelayInv
  <2> QED BY <1>1, <1>4, <2>1, <2>2 DEF RelayInv, Taking, Accepts, Live, Bytes
<1>5. CASE session = "established"
  <2>1. HandleEstablished(payload, fin) /\ Send(payload)
    BY <1>5 DEF HandleTcp, HandleEstablished
  <2>2. Len(payload) = n
    OBVIOUS
  <2>3. guestAcked' \in Nat /\ guestAcked' <= SndNxt'
    <3>1. guestAcked' = guestAcked + n + (IF fin THEN 1 ELSE 0)
      BY <2>1, <2>2 DEF HandleEstablished, Acked
    <3> QED BY <1>2, <3>1 DEF RelayInv
  <2>4. /\ conn \in Conns /\ session' \in {"none", "established"}
        /\ sock' \in [Conns -> {"idle", "connecting", "connected", "failed", "closed"}]
        /\ sock' = (IF fin THEN [sock EXCEPT ![conn] = "closed"] ELSE sock)
        /\ fin => session' = "none"
    BY <1>5, <2>1 DEF HandleEstablished, RelayInv
  <2> DEFINE open == sock[conn] \in {"connecting", "connected"}
             new == relayed'[conn] \o sendBuffer'[conn]
  <2>5. /\ relayed' \in [Conns -> Seq(Nat)] /\ sendBuffer' \in [Conns -> Seq(Nat)]
        /\ \A c \in Conns : c # conn =>
             relayed'[c] = relayed[c] /\ sendBuffer'[c] = sendBuffer[c]
        /\ sock[conn] = "connected" => sendBuffer'[conn] = <<>>
        /\ new = IF open THEN Bytes(conn) \o payload ELSE Bytes(conn)
    BY <2>1, <2>4, SendAppends
  <2>6. InOrder(new) /\ (open => Len(new) = written + n)
    <3>1. Bytes(conn) \in Seq(Nat) /\ InOrder(Bytes(conn)) /\ (open => Len(Bytes(conn)) = written)
      <4>1. relayed[conn] \in Seq(Nat) /\ sendBuffer[conn] \in Seq(Nat)
        BY <2>4 DEF RelayInv
      <4>2. Bytes(conn) \in Seq(Nat)
        BY <4>1, ConcatProperties DEF Bytes
      <4> QED BY <1>5, <2>4, <4>2 DEF RelayInv, Taking, Accepts, Live
    <3> HIDE DEF new, open
    <3>2. CASE open /\ n = 1
      <4>1. new = Bytes(conn) \o <<Len(Bytes(conn)) + 1>>
        BY <2>5, <3>1, <3>2
      <4> QED BY <3>1, <3>2, <4>1, AppendInOrder
    <3>3. CASE open /\ n = 0
      <4>1. Bytes(conn) \o payload = Bytes(conn)
        BY <3>1, <3>3, ConcatEmptySeq
      <4> QED BY <2>5, <3>1, <3>3, <4>1 DEF RelayInv
    <3>4. CASE ~open
      BY <2>5, <3>1, <3>4
    <3> QED BY <3>2, <3>3, <3>4
  <2> HIDE DEF open, new
  <2>7. \A c \in Conns : InOrder(Bytes(c))'
    <3> SUFFICES ASSUME NEW c \in Conns PROVE InOrder(relayed'[c] \o sendBuffer'[c])
      BY DEF InOrder, Bytes
    <3>1. CASE c = conn
      BY <2>6, <3>1 DEF new
    <3>2. CASE c # conn
      BY <2>5, <3>2 DEF RelayInv, Bytes
    <3> QED BY <3>1, <3>2
  <2>8. \A c \in Conns : c # conn =>
          relayed'[c] = <<>> /\ sendBuffer'[c] = <<>> /\ sock'[c] = "idle"
    BY <2>4, <2>5 DEF RelayInv
  <2>9. \A c \in Conns : sock'[c] = "connected" => sendBuffer'[c] = <<>>
    BY <2>4, <2>5, <2>8
  <2>10. Taking' => Len(Bytes(conn)') = written'
    BY <1>1, <2>4, <2>6 DEF Taking, Accepts, Live, Bytes, new, open
  <2>11. (gst # "open")' => (written = 0 /\ ~finSent)'
    OBVIOUS
  <2>12. sock'[conn] # "idle" /\ (sock'[conn] = "closed" => finSent')
    BY <2>4 DEF RelayInv
  <2>13. Accepts' /\ ~finSent' => guestAcked' <= Len(Bytes(conn)') + 1
    <3> SUFFICES ASSUME Accepts', ~finSent' PROVE guestAcked' <= Len(Bytes(conn)') + 1
      OBVIOUS
    <3>1. ~fin
      OBVIOUS
    <3>2. session' = "established"
      BY <1>5, <2>1, <3>1 DEF HandleEstablished
    <3>3. Len(Bytes(conn)') = written'
      BY <2>10, <3>2 DEF Taking, Live
    <3>4. SndNxt' = written' + 1
      BY <1>1 DEF SndNxt
    <3> QED BY <2>3, <3>3, <3>4
  <2> QED BY <1>1, <2>3, <2>4, <2>5, <2>7, <2>8, <2>9, <2>10, <2>12, <2>13 DEF RelayInv
<1> QED BY <1>3, <1>4, <1>5 DEF RelayInv

LEMMA SendingRelays ==
  ASSUME RelayInv, resent = 0, resent' = 0, "piggyback" \notin Features, Guest
  PROVE  RelayInv'
<1>1. CASE Connect
  <2>1. written' = written /\ finSent' = finSent /\ gst' = "synSent" /\ gst = "closed"
    BY <1>1 DEF Connect, sendVars
  <2>2. CASE HandleSyn
    <3>1. conn = 0 /\ conn' = 1 /\ 1 \in Conns /\ \A c \in Conns : c # conn
      BY <2>1, <2>2, TcpAssumption DEF RelayInv, HandleSyn, Conns
    <3>2. /\ relayed' = relayed /\ sendBuffer' = sendBuffer /\ guestAcked' = 1
          /\ session' = "synReceived" /\ sock' = [sock EXCEPT ![1] = "connecting"]
      BY <2>2, <3>1 DEF HandleSyn, hostVars
    <3>3. \A c \in Conns : relayed[c] = <<>> /\ sendBuffer[c] = <<>> /\ sock[c] = "idle"
      BY <3>1 DEF RelayInv
    <3>4. \A c \in Conns : InOrder(relayed[c] \o sendBuffer[c])
                            /\ Len(relayed[c] \o sendBuffer[c]) = 0
      BY <3>3, EmptyInOrder
    <3>5. SndNxt' = 1
      BY <2>1 DEF RelayInv, SndNxt
    <3> QED BY <2>1, <3>1, <3>2, <3>3, <3>4, <3>5 DEF RelayInv, Taking, Accepts, Live, Bytes
  <2>3. CASE RefuseSyn
    BY <2>1, <2>3 DEF RefuseSyn, RelayInv, Taking, Accepts, Live, Bytes, SndNxt, sessionVars,
                      handleVars, hostVars
  <2> QED BY <1>1, <2>2, <2>3 DEF Connect
<1>2. CASE ResendSyn \/ ResendData
  BY <1>2 DEF ResendSyn, ResendData
<1>3. CASE Write
  <2>1. /\ gst = "open" /\ ~owe /\ ~finSent /\ HandleTcp(<<written + 1>>, FALSE)
        /\ written' = written + 1 /\ gst' = gst /\ finSent' = finSent /\ owe' = FALSE
    BY <1>3 DEF Write, Free, Open
  <2>2. session # "synReceived" /\ <<written + 1>> \in Seq(Nat)
    BY <2>1 DEF RelayInv
  <2> DEFINE n == 1
             payload == <<written + 1>>
  <2>3. /\ payload = (IF n = 1 THEN <<written + 1>> ELSE <<>>) /\ n \in {0, 1}
        /\ payload \in Seq(Nat) /\ HandleTcp(payload, FALSE) /\ written' = written + n
    BY <2>1, <2>2
  <2>4. finSent' = (finSent \/ FALSE) /\ ~owe' /\ FALSE \in BOOLEAN
    BY <2>1 DEF RelayInv
  <2> HIDE DEF n, payload
  <2> QED BY <2>1, <2>2, <2>3, <2>4, SegmentRelays
<1>4. CASE Close
  <2>1. /\ gst = "open" /\ ~owe /\ ~finSent /\ HandleTcp(<<>>, TRUE)
        /\ written' = written /\ gst' = gst /\ finSent' = (finSent \/ TRUE) /\ ~owe'
    BY <1>4 DEF Close, Free, Open
  <2>2. session # "synReceived" /\ <<>> \in Seq(Nat) /\ written' = written + 0
    BY <2>1 DEF RelayInv
  <2>3. <<>> = IF 0 = 1 THEN <<written + 1>> ELSE <<>>
    OBVIOUS
  <2> QED BY <2>1, <2>2, <2>3, SegmentRelays
<1>5. CASE Ack
  <2>1. /\ gst = "open" /\ HandleTcp(<<>>, FALSE)
        /\ written' = written /\ gst' = gst /\ finSent' = (finSent \/ FALSE) /\ ~owe'
    BY <1>5 DEF Ack, Open, sendVars, RelayInv
  <2>2. <<>> \in Seq(Nat) /\ written' = written + 0
    BY <2>1 DEF RelayInv
  <2>3. <<>> = IF 0 = 1 THEN <<written + 1>> ELSE <<>>
    OBVIOUS
  <2> QED BY <2>1, <2>2, <2>3, SegmentRelays
<1>6. CASE Read
  BY <1>6 DEF Read, RelayInv, Taking, Accepts, Live, Bytes, SndNxt, sessionVars, handleVars,
              hostVars, sendVars
<1> QED BY <1>1, <1>2, <1>3, <1>4, <1>5, <1>6 DEF Guest

LEMMA ReceivingRelays ==
  ASSUME RelayInv, Receive
  PROVE  RelayInv'
<1>1. /\ UNCHANGED <<session, conn, guestAcked, sock, sendBuffer, relayed, written, finSent>>
      /\ gst' = "closed" => gst = "closed"
      /\ gst = "open" => gst' = "open"
      /\ gst' = "open" => owe' \/ (gst = "open" /\ owe' = owe)
  BY DEF Receive, ReceiveSynAck, ReceiveRst, Discard, ReceiveData, ReceiveFin, ReceiveAck,
         Take, sessionVars, handleVars, hostVars, sendVars, Acceptable, Open
<1> QED BY <1>1 DEF RelayInv, Taking, Accepts, Live, Bytes, SndNxt

LEMMA ProxyRelays ==
  ASSUME RelayInv, Poll \/ \E c \in Conns : Socket(c)
  PROVE  RelayInv'
<1>1. UNCHANGED <<conn, guestAcked, written, finSent, gst, owe>>
  BY DEF Poll, Socket, Connected, ConnectFails, PeerSends, PeerCloses, sessionVars,
         guestVars, sendVars
<1>2. SndNxt' = SndNxt
  BY <1>1 DEF SndNxt
<1>3. CASE Poll
  BY <1>1, <1>2, <1>3 DEF Poll, FinDue, RelayInv, Taking, Accepts, Live, Bytes, hostVars
<1>4. ASSUME NEW c \in Conns, PeerSends(c) \/ PeerCloses(c)
      PROVE  RelayInv'
  BY <1>1, <1>2, <1>4 DEF PeerSends, PeerCloses, RelayInv, Taking, Accepts, Live, Bytes,
                          hostVars, sessionVars
<1>5. ASSUME NEW c \in Conns, ConnectFails(c)
      PROVE  RelayInv'
  <2>1. /\ UNCHANGED <<session, relayed, sendBuffer>> /\ c = conn
        /\ sock' = [sock EXCEPT ![c] = "failed"]
    BY <1>5 DEF ConnectFails, RelayInv, sessionVars, hostVars
  <2>2. ~Taking'
    BY <1>1, <2>1 DEF Taking, Accepts, RelayInv
  <2>3. sock'[conn] = "failed" /\ conn \in Conns /\ ~Accepts'
    BY <1>1, <2>1 DEF Accepts, RelayInv
  <2> QED BY <1>1, <1>2, <2>1, <2>2, <2>3 DEF RelayInv, Bytes
<1>6. ASSUME NEW c \in Conns, Connected(c)
      PROVE  RelayInv'
  <2>1. /\ UNCHANGED session /\ c = conn /\ sock[c] = "connecting"
        /\ sock' = [sock EXCEPT ![c] = "connected"]
        /\ relayed' = [relayed EXCEPT ![c] = @ \o sendBuffer[c]]
        /\ sendBuffer' = [sendBuffer EXCEPT ![c] = <<>>]
    BY <1>6 DEF Connected, RelayInv, sessionVars
  <2>2. Bytes(c) \in Seq(Nat) /\ relayed'[c] = Bytes(c) /\ sendBuffer'[c] = <<>>
    <3>1. relayed[c] \in Seq(Nat) /\ sendBuffer[c] \in Seq(Nat)
      BY DEF RelayInv
    <3> QED BY <2>1, <3>1, ConcatProperties DEF RelayInv, Bytes
  <2>3. relayed' \in [Conns -> Seq(Nat)] /\ sendBuffer' \in [Conns -> Seq(Nat)]
    BY <2>1, <2>2 DEF RelayInv, Bytes
  <2>4. relayed'[c] \o sendBuffer'[c] = Bytes(c)
    BY <2>2, ConcatEmptySeq
  <2>5. \A d \in Conns : d # c => relayed'[d] = relayed[d] /\ sendBuffer'[d] = sendBuffer[d]
                                  /\ sock'[d] = sock[d]
    BY <2>1 DEF RelayInv
  <2>6. \A d \in Conns : relayed'[d] \o sendBuffer'[d] = Bytes(d)
    BY <2>4, <2>5 DEF Bytes
  <2>7. \A d \in Conns : InOrder(Bytes(d))'
    BY <2>6 DEF RelayInv, Bytes, InOrder
  <2>8. Taking' => Len(Bytes(conn)') = written'
    BY <1>1, <2>1, <2>4 DEF RelayInv, Taking, Accepts, Live, Bytes
  <2>9. sock' \in [Conns -> {"idle", "connecting", "connected", "failed", "closed"}]
        /\ \A d \in Conns : sock'[d] = "connected" => sendBuffer'[d] = <<>>
    BY <2>1, <2>2, <2>5 DEF RelayInv
  <2>10. sock'[conn] = "connected" /\ conn \in Conns
    BY <1>1, <2>1 DEF RelayInv
  <2>11. ~finSent => guestAcked <= Len(Bytes(conn)') + 1
    BY <1>1, <2>1, <2>4, <2>10 DEF RelayInv, Accepts, Bytes
  <2> QED BY <1>1, <1>2, <2>1, <2>3, <2>5, <2>7, <2>8, <2>9, <2>10, <2>11 DEF RelayInv
<1> QED BY <1>3, <1>4, <1>5, <1>6 DEF Socket

(* A byte that is acknowledged is one of those kept in order: it has gone  *)
(* to the socket, or waits while the socket is connecting.                 *)
LEMMA KeptIsFound ==
  ASSUME RelayInv, conn \in Conns, Accepts, NEW n \in Nat \ {0}, n <= Len(Bytes(conn))
  PROVE  \/ \E i \in DOMAIN relayed[conn] : relayed[conn][i] = n
         \/ sock[conn] = "connecting"
            /\ \E i \in DOMAIN sendBuffer[conn] : sendBuffer[conn][i] = n
<1> DEFINE a == relayed[conn]
           b == sendBuffer[conn]
<1>1. a \in Seq(Nat) /\ b \in Seq(Nat) /\ InOrder(a \o b) /\ n <= Len(a \o b)
  BY DEF RelayInv, Bytes
<1>2. sock[conn] = "connecting" \/ b = <<>>
  BY DEF RelayInv, Accepts
<1> HIDE DEF a, b
<1>3. /\ Len(a) \in Nat /\ Len(b) \in Nat /\ Len(a \o b) = Len(a) + Len(b)
      /\ DOMAIN a = 1 .. Len(a) /\ DOMAIN b = 1 .. Len(b)
      /\ (a \o b)[n] = IF n <= Len(a) THEN a[n] ELSE b[n - Len(a)]
  BY <1>1, LenProperties, ConcatProperties
<1>4. (a \o b)[n] = n
  BY <1>1, <1>3 DEF InOrder
<1>5. CASE n <= Len(a)
  BY <1>3, <1>4, <1>5 DEF a
<1>6. CASE n > Len(a)
  <2>1. n - Len(a) \in DOMAIN b /\ b[n - Len(a)] = n /\ Len(b) > 0
    BY <1>1, <1>3, <1>4, <1>6
  <2>2. b # <<>>
    BY <2>1
  <2> QED BY <1>2, <2>1, <2>2 DEF b
<1> QED BY <1>3, <1>5, <1>6

LEMMA AckedIsKept == ASSUME RelayInv PROVE AckedIsRelayed
<1> SUFFICES ASSUME NEW n \in 1 .. written, conn \in Conns, n < guestAcked, ~finSent,
                    sock[conn] # "failed"
             PROVE  \/ \E i \in DOMAIN relayed[conn] : relayed[conn][i] = n
                    \/ sock[conn] = "connecting"
                       /\ \E i \in DOMAIN sendBuffer[conn] : sendBuffer[conn][i] = n
  BY DEF AckedIsRelayed
<1>1. Accepts
  BY DEF RelayInv, Accepts
<1>2. Len(Bytes(conn)) \in Nat
  <2>1. relayed[conn] \in Seq(Nat) /\ sendBuffer[conn] \in Seq(Nat)
    BY DEF RelayInv
  <2> QED BY <2>1, ConcatProperties, LenProperties DEF Bytes
<1>3. n \in Nat \ {0} /\ n <= Len(Bytes(conn))
  BY <1>1, <1>2 DEF RelayInv
<1> QED BY <1>1, <1>3, KeptIsFound

(* The invariant of the relay, until something is sent a second time.      *)
FirstTime == resent = 0
FirstInv == resent \in Nat /\ (FirstTime => RelayInv)

LEMMA RelayHolds ==
  ASSUME "piggyback" \notin Features
  PROVE  Spec => []FirstInv
<1>1. Init => FirstInv
  <2> SUFFICES ASSUME Init PROVE FirstInv
    OBVIOUS
  <2>1. \A c \in Conns : InOrder(Bytes(c))
    BY EmptyInOrder DEF Init, Bytes
  <2>2. /\ session = "none" /\ conn = 0 /\ guestAcked = 0 /\ written = 0
        /\ finSent \in BOOLEAN /\ ~finSent /\ gst = "closed" /\ guestAcked <= SndNxt
    <3>1. finSent \in BOOLEAN /\ ~finSent
      BY Zenon DEF Init
    <3>2. guestAcked <= SndNxt
      BY <3>1 DEF Init, SndNxt
    <3> QED BY <3>1, <3>2 DEF Init
  <2>3. /\ relayed \in [Conns -> Seq(Nat)] /\ sendBuffer \in [Conns -> Seq(Nat)]
        /\ sock \in [Conns -> {"idle", "connecting", "connected", "failed", "closed"}]
        /\ \A c \in Conns : relayed[c] = <<>> /\ sendBuffer[c] = <<>> /\ sock[c] = "idle"
    BY DEF Init
  <2> QED BY <2>1, <2>2, <2>3 DEF Init, FirstInv, RelayInv, Taking, Accepts, Live
<1>2. FirstInv /\ [Next]_vars => FirstInv'
  <2> SUFFICES ASSUME FirstInv, [Next]_vars PROVE FirstInv'
    OBVIOUS
  <2>0. resent' \in Nat /\ resent' >= resent
    <3>1. CASE Receive
      BY <3>1 DEF FirstInv, Receive, ReceiveSynAck, ReceiveRst, Discard, ReceiveData,
                  ReceiveFin, ReceiveAck, sendVars
    <3>2. CASE Guest
      <4>1. CASE ResendSyn \/ ResendData
        <5>1. resent' = resent + 1
          BY <4>1 DEF ResendSyn, ResendData
        <5> QED BY <5>1 DEF FirstInv
      <4>2. CASE Connect \/ Write \/ Close \/ Ack \/ Read
        <5>1. UNCHANGED resent
          BY <4>2 DEF Connect, Write, Close, Ack, Read, sendVars
        <5> QED BY <5>1 DEF FirstInv
      <4> QED BY <3>2, <4>1, <4>2 DEF Guest
    <3>3. CASE Poll
      BY <3>3 DEF FirstInv, Poll, guestVars, sendVars
    <3>5. ASSUME NEW c \in Conns, Socket(c) PROVE UNCHANGED resent
      BY <3>5 DEF Socket, Connected, ConnectFails, PeerSends, PeerCloses, guestVars, sendVars
    <3>4. CASE PollNothing \/ UNCHANGED vars
      BY <3>4 DEF FirstInv, PollNothing, vars, guestVars, sendVars
    <3> QED BY <3>1, <3>2, <3>3, <3>4, <3>5 DEF Next, FirstInv
  <2> SUFFICES ASSUME RelayInv, resent = 0, resent' = 0 PROVE RelayInv'
    BY <2>0 DEF FirstInv, FirstTime
  <2>1. CASE Guest
    BY <2>1, SendingRelays
  <2>2. CASE Receive
    BY <2>2, ReceivingRelays
  <2>3. CASE Poll \/ \E c \in Conns : Socket(c)
    BY <2>3, ProxyRelays
  <2>4. CASE PollNothing \/ UNCHANGED vars
    <3>1. UNCHANGED vars
      BY <2>4 DEF PollNothing
    <3> QED BY <3>1 DEF vars, sessionVars, handleVars, hostVars, guestVars, sendVars,
                        RelayInv, Taking, Accepts, Live, Bytes, InOrder, SndNxt
  <2> QED BY <2>1, <2>2, <2>3, <2>4 DEF Next
<1> QED BY <1>1, <1>2, PTL DEF Spec

(* A guest that joins no data to its handshake has its bytes relayed in    *)
(* order, and is never told of bytes it has not sent, until it sends       *)
(* something twice, wherever the socket's connection falls between its     *)
(* segments.                                                               *)
THEOREM HostReadsInOrder ==
  ASSUME "piggyback" \notin Features
  PROVE  Spec => [](HostStreamInOrder /\ (FirstTime => AckedWasSent))
<1>1. FirstInv => HostStreamInOrder /\ (FirstTime => AckedWasSent)
  BY DEF FirstInv, FirstTime, RelayInv, HostStreamInOrder, AckedWasSent, Bytes
<1> QED BY <1>1, RelayHolds, PTL

(* A byte that such a guest may forget, as it is acknowledged, is with the *)
(* host's socket or waits for it, also when the proxy has ended the        *)
(* session and left the socket open.                                       *)
THEOREM AckedIsWithTheHost ==
  ASSUME "piggyback" \notin Features
  PROVE  Spec => []AckedIsRelayed
<1>1. FirstInv => AckedIsRelayed
  BY AckedIsKept DEF FirstInv, FirstTime, AckedIsRelayed
<1> QED BY <1>1, RelayHolds, PTL
=============================================================================
