---------------------------- MODULE DctcpFeedback ----------------------------
(***************************************************************************)
(* The feedback loop of DCTCP between two established TCP sockets that use *)
(* TcpDctcp: the receiver echoes the CE marks of the phantom queues in     *)
(* spite of delayed acknowledgements, the sender counts what was marked    *)
(* and reduces its window.  One handler is one step: the arrival of a      *)
(* segment at a socket runs through ForwardUp, DoForwardUp, ReceivedAck,   *)
(* ReceivedData and SendPendingData.                                       *)
(*                                                                         *)
(* Segments have one size and are counted, sequence numbers start at 1.    *)
(* The network keeps the order and loses nothing, so nothing is            *)
(* retransmitted and the congestion state stays CA_OPEN; what the windows  *)
(* allow to be sent is left open.  Every packet of a TcpDctcp socket is    *)
(* ECT, acknowledgements too, and may be marked on its way, the last one   *)
(* of the handshake included.                                              *)
(***************************************************************************)
EXTENDS Integers, Sequences, FiniteSets

CONSTANTS
  Senders,       (* the ends that have data to send                          *)
  DelAckMax,     (* attribute DelAckCount                                    *)
  NSegs,         (* bound: segments sent by an end                           *)
  MaxFlight      (* bound: segments in flight, on the congestion window      *)

Ends == {"client", "server"}

ASSUME FeedbackAssumption ==
  /\ Senders \subseteq Ends
  /\ {DelAckMax, NSegs, MaxFlight} \subseteq Nat \ {0}

VARIABLE sock    (* the socket of each end, with its congestion control      *)

Peer(e) == CHOOSE p \in Ends : p # e

Echoing == {"CE_RCVD", "SENDING_ECE"}
EcnStates == Echoing \cup {"IDLE", "ECE_RCVD", "CWR_SENT"}

(* A socket that has sent its last packet of the handshake.  prior is 0      *)
(* while m_priorRcvNxtFlag is false, nextSeq while m_nextSeqFlag is.         *)
Established ==
  [una |-> 1, nextTx |-> 1, nextRx |-> 1,
   ecnState |-> "IDLE", ecnCESeq |-> 0, ecnEchoSeq |-> 0, ecnCWRSeq |-> 0,
   delAckCount |-> DelAckMax, delAckTimer |-> FALSE,
   ceState |-> FALSE, delayedAckReserved |-> FALSE, prior |-> 0,
   nextSeq |-> 0, ackedTotal |-> 0, ackedEcn |-> 0,
   wire |-> <<>>,        \* what was sent and the peer has not received
   marked |-> {},        \* history: what was received with CE, data segments
                         \* and, as 0, the last packet of the handshake
   from |-> 1]           \* history: una when the observation window began

-----------------------------------------------------------------------------
(* Sending; x is the state of the socket                                     *)

(* An acknowledgement.  It cancels a delayed one. *)
SendEmptyPacket(x, ece) ==
  [x EXCEPT
    !.delAckTimer = FALSE,
    !.delAckCount = 0,
    !.wire = Append(@, [seq |-> x.nextTx, data |-> FALSE, ack |-> x.nextRx,
                        ece |-> ece, cwr |-> FALSE])]

(* The acknowledgement of everything received, with the echo that is due. *)
Acknowledge(x) ==
  IF x.ecnState \in Echoing
  THEN [SendEmptyPacket(x, TRUE) EXCEPT !.ecnState = "SENDING_ECE"]
  ELSE SendEmptyPacket(x, FALSE)

(* Mutant: the window is reduced on every echo. *)
MustReduce_Always(x) == x.ecnState = "ECE_RCVD"

(* Is the window reduced, and CWR set, with the next new segment?            *)
MustReduce(x) == x.ecnState = "ECE_RCVD" /\ x.ecnEchoSeq > x.ecnCWRSeq

(* What data and windows can ever allow an end to send. *)
Sendable(e, x) ==
  {n \in 0..MaxFlight : n = 0 \/ ( /\ e \in Senders
                                   /\ x.nextTx + n <= NSegs + 1
                                   /\ x.nextTx + n <= x.una + MaxFlight)}

(* n new segments.  They acknowledge what was received, without an echo, and *)
(* the first has CWR if the window is reduced.                               *)
SendPendingData(x, n) ==
  IF n = 0 THEN x
  ELSE [x EXCEPT
         !.delAckTimer = FALSE,
         !.delAckCount = 0,
         !.ecnState  = IF MustReduce(x) THEN "CWR_SENT" ELSE @,
         !.ecnCWRSeq = IF MustReduce(x) THEN x.nextTx ELSE @,
         !.wire = @ \o [i \in 1..n |->
                    [seq |-> x.nextTx + i - 1, data |-> TRUE, ack |-> x.nextRx,
                     ece |-> FALSE, cwr |-> i = 1 /\ MustReduce(x)]],
         !.nextTx = @ + n]

-----------------------------------------------------------------------------
(* TcpDctcp as a receiver: CwndEvent                                         *)

(* The acknowledgement made when the CE state changes, with the sequence     *)
(* number saved at the arrival of the packet before.                         *)
PriorAck(x, ece) ==
  [SendEmptyPacket([x EXCEPT !.nextRx = x.prior], ece) EXCEPT !.nextRx = x.nextRx]

ChangeAcked(x, to) ==
  IF x.ceState # to /\ x.delayedAckReserved /\ x.prior # 0
  THEN PriorAck(x, x.ceState)
  ELSE x

CeState0to1(x) ==
  [ChangeAcked(x, TRUE) EXCEPT
    !.prior = x.nextRx, !.ceState = TRUE, !.ecnState = "CE_RCVD"]

CeState1to0(x) ==
  [ChangeAcked(x, FALSE) EXCEPT
    !.prior = x.nextRx, !.ceState = FALSE,
    !.ecnState = IF @ \in Echoing THEN "IDLE" ELSE @]

(* Mutant: the echo goes on until the sender confirms it. *)
CeEvent_Sticky(x, p, ce) ==
  IF ce /\ x.ecnCESeq < p.seq
  THEN CeState0to1([x EXCEPT !.ecnCESeq = p.seq, !.ecnState = "CE_RCVD"])
  ELSE x

(* ForwardUp, for a packet that is ECT or CE. *)
CeEvent(x, p, ce) ==
  IF ce /\ x.ecnCESeq < p.seq
  THEN CeState0to1([x EXCEPT !.ecnCESeq = p.seq, !.ecnState = "CE_RCVD"])
  ELSE CeState1to0(x)

(* Mutant: CWR ends the echo whatever the mark of its packet. *)
CwrEvent_Always(x, p) == IF p.cwr THEN [x EXCEPT !.ecnState = "IDLE"] ELSE x

(* DoForwardUp. *)
CwrEvent(x, p) ==
  IF p.cwr /\ x.ecnState # "CE_RCVD" THEN [x EXCEPT !.ecnState = "IDLE"] ELSE x

(* Mutant: the timer of the delayed acknowledgement is not started. *)
Delayed_NoTimer(x) == [x EXCEPT !.delayedAckReserved = TRUE]
Delayed(x) == [x EXCEPT !.delayedAckReserved = TRUE, !.delAckTimer = TRUE]

(* ReceivedData, for the next segment in sequence. *)
ReceivedData(x) ==
  LET y == [x EXCEPT !.nextRx = @ + 1, !.delAckCount = @ + 1]
  IN  IF y.delAckCount >= DelAckMax
      THEN Acknowledge([y EXCEPT !.delAckCount = 0, !.delAckTimer = FALSE,
                                 !.delayedAckReserved = FALSE])
      ELSE Delayed(y)

-----------------------------------------------------------------------------
(* TcpDctcp as a sender: PktsAcked                                           *)

(* Mutant: the marked segments of the last window are kept. *)
Reset_KeepsEcn(x) == [x EXCEPT !.nextSeq = x.nextTx, !.ackedTotal = 0, !.from = x.una]

(* The next observation window begins. *)
Reset(x) ==
  [x EXCEPT !.nextSeq = x.nextTx, !.ackedTotal = 0, !.ackedEcn = 0, !.from = x.una]

(* n segments are acknowledged, una being the head of the send buffer        *)
(* afterwards.  At the end of an observation window alpha is updated with    *)
(* the fraction ackedEcn / ackedTotal.                                       *)
PktsAcked(x, n) ==
  LET edge == IF x.nextSeq = 0 THEN x.nextTx ELSE x.nextSeq
      y    == [x EXCEPT
                !.ackedTotal = @ + n,
                !.ackedEcn   = @ + (IF x.ecnState = "ECE_RCVD" THEN n ELSE 0),
                !.nextSeq    = edge]
  IN  IF x.una >= edge THEN Reset(y) ELSE y

(* The echo in an acknowledgement counts if it acknowledges something new.   *)
EchoEvent(x, p) ==
  IF p.ack > x.una /\ p.ece
  THEN IF x.ecnEchoSeq < p.ack
       THEN [x EXCEPT !.ecnEchoSeq = p.ack, !.ecnState = "ECE_RCVD"]
       ELSE x
  ELSE IF x.ecnState = "ECE_RCVD" /\ ~p.ece
       THEN [x EXCEPT !.ecnState = "IDLE"]
       ELSE x

(* Mutant: an acknowledgement counts for one segment, whatever it covers.    *)
NAcked_One(x, p) == IF p.ack < x.nextTx \/ p.ack > x.una THEN 1 ELSE 0

(* The segments an acknowledgement counts for.  One that repeats the last    *)
(* one stands for a segment as long as there is something in flight.         *)
NAcked(x, p) ==
  IF p.ack > x.una THEN p.ack - x.una
  ELSE IF p.ack < x.nextTx THEN 1 ELSE 0

(* ReceivedAck, up to the data in the segment. *)
ReceivedAck(x, p) ==
  LET y == [EchoEvent(x, p) EXCEPT !.una = p.ack]
  IN  IF NAcked(x, p) = 0 THEN y ELSE PktsAcked(y, NAcked(x, p))

-----------------------------------------------------------------------------
(* The server after the last packet of the handshake, an acknowledgement     *)
(* with the sequence number of the first segment: it is not ECT if the       *)
(* client has set a type of service, and may be marked otherwise.            *)
Accepted ==
  {Established} \cup
  {[CeEvent(Established, [seq |-> 1], ce) EXCEPT !.marked = IF ce THEN {0} ELSE @] :
     ce \in BOOLEAN}

Init == \E x \in Accepted : sock = [e \in Ends |-> IF e = "server" THEN x ELSE Established]

(* The application hands over data. *)
Send(e) ==
  \E n \in Sendable(e, sock[e]) \ {0} :
    sock' = [sock EXCEPT ![e] = SendPendingData(@, n)]

(* A segment p arrives, marked or not; x is the socket after the IP header   *)
(* and the flags were looked at.  ProcessEstablished ignores a segment that  *)
(* acknowledges less than is known.                                          *)
Receive(e, ce) ==
  /\ sock[Peer(e)].wire # <<>>
  /\ \E p \in {Head(sock[Peer(e)].wire)} :
     \E x \in {CwrEvent(CeEvent(sock[e], p, ce), p)} :
     \E y \in {IF p.ack < x.una THEN x ELSE ReceivedAck(x, p)} :
     \E z \in {IF p.data /\ p.ack >= x.una THEN ReceivedData(y) ELSE y} :
     \E n \in (IF p.ack < x.una THEN {0} ELSE Sendable(e, z)) :
       sock' = [sock EXCEPT
         ![Peer(e)].wire = Tail(@),
         ![e] = [SendPendingData(z, n) EXCEPT
                   !.marked = IF p.data /\ ce THEN @ \cup {p.seq} ELSE @]]

DelAckTimeout(e) ==
  /\ sock[e].delAckTimer
  /\ sock' = [sock EXCEPT ![e] =
       Acknowledge([@ EXCEPT !.delAckCount = 0, !.delAckTimer = FALSE,
                             !.delayedAckReserved = TRUE])]

Next ==
  \E e \in Ends :
    \/ Send(e)
    \/ \E ce \in BOOLEAN : Receive(e, ce)
    \/ DelAckTimeout(e)

Spec == Init /\ [][Next]_sock

(* What is on the wire arrives, and a timer that is running expires or is    *)
(* cancelled.                                                                *)
FairSpec ==
  /\ Spec
  /\ \A e \in Ends :
       /\ WF_sock(\E ce \in BOOLEAN : Receive(e, ce))
       /\ WF_sock(DelAckTimeout(e))

-----------------------------------------------------------------------------
Seqs == 1..NSegs + 1

(* The type of the sockets. *)
TypeOK ==
  \A e \in Ends :
    /\ {sock[e].una, sock[e].nextTx, sock[e].nextRx, sock[e].from} \subseteq Seqs
    /\ sock[e].una <= sock[e].nextTx /\ sock[e].nextRx <= sock[Peer(e)].nextTx
    /\ {sock[e].ecnCESeq, sock[e].ecnEchoSeq, sock[e].ecnCWRSeq,
        sock[e].prior, sock[e].nextSeq} \subseteq Seqs \cup {0}
    /\ sock[e].ecnState \in EcnStates
    /\ {sock[e].ceState, sock[e].delayedAckReserved, sock[e].delAckTimer} \subseteq BOOLEAN
    /\ sock[e].delAckCount \in 0..DelAckMax
    /\ sock[e].ackedEcn \in 0..sock[e].ackedTotal

(* The marks that are new to ForwardUp: the first segment has the sequence   *)
(* number of the last packet of the handshake, so its mark is taken for an   *)
(* old one if that packet was marked.                                        *)
Heard(x) == IF 0 \in x.marked THEN x.marked \ {1} ELSE x.marked

(* A receiver knows the mark of the last packet, as far as it heard of it:   *)
(* its CE state is that mark, and it echoes exactly in that state, whatever  *)
(* CWR, timers and early acknowledgements did to m_ecnState in the meantime. *)
EchoFollowsMark ==
  \A e \in Ends \ Senders :
    /\ sock[e].ceState = (sock[e].nextRx - 1 \in Heard(sock[e]))
    /\ sock[e].ceState = (sock[e].ecnState \in Echoing)

(* An echo is off by one segment at most: the flag of an acknowledgement is  *)
(* the mark, as far as it was heard, of the last segment it acknowledges, or *)
(* of the one after it.                                                      *)
EchoOffByOne ==
  \A e \in Ends \ Senders : \A i \in 1..Len(sock[e].wire) :
    LET a == sock[e].wire[i]
    IN  \/ a.ece = (a.ack - 1 \in Heard(sock[e]))
        \/ a.ece = (a.ack \in Heard(sock[e]))

(* The window is reduced once for every window of data: not again before the *)
(* segment with the last CWR, the newest at that time, is acknowledged.      *)
OncePerWindow ==
  [][\A e \in Ends : sock'[e].ecnCWRSeq # sock[e].ecnCWRSeq
                       => sock'[e].una > sock[e].ecnCWRSeq]_sock

(* No acknowledged segment is left out of the fraction alpha is made from.   *)
CountsCover ==
  \A e \in Ends : sock[e].ackedTotal >= sock[e].una - sock[e].from

(* Delayed acknowledgements and the early ones made on a change of the CE    *)
(* state never leave a segment without an acknowledgement.                   *)
AllAcked ==
  \A e \in Ends : \A n \in 1..NSegs :
    sock[Peer(e)].nextRx > n ~> sock[e].una > n
=============================================================================
