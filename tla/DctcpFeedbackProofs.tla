------------------------- MODULE DctcpFeedbackProofs -------------------------
(***************************************************************************)
(* What holds of DctcpFeedback for any senders, any number of segments,    *)
(* any windows and any limit of delayed acknowledgements.  The invariant   *)
(* has two layers.  The first says what each direction of the connection   *)
(* carries: segments in sequence, acknowledgements of what was received,   *)
(* and no data that acknowledges less than what came before it (so that    *)
(* ProcessEstablished never ignores data).  The second is about an end     *)
(* that only receives: its CE state, its echo and the sequence number it   *)
(* saved are those of the last packet, but that the mark of the first      *)
(* segment is not heard after a marked packet of the handshake.            *)
(***************************************************************************)
EXTENDS DctcpFeedback, TLAPS

Segment == [seq: Nat, data: BOOLEAN, ack: Nat, ece: BOOLEAN, cwr: BOOLEAN]

Socket ==
  [una: Nat, nextTx: Nat, nextRx: Nat,
   ecnState: EcnStates, ecnCESeq: Nat, ecnEchoSeq: Nat, ecnCWRSeq: Nat,
   delAckCount: Nat, delAckTimer: BOOLEAN,
   ceState: BOOLEAN, delayedAckReserved: BOOLEAN, prior: Nat,
   nextSeq: Nat, ackedTotal: Nat, ackedEcn: Nat,
   wire: Seq(Segment), marked: SUBSET Nat, from: Nat]

(* The sequence space a segment takes. *)
Length(s) == IF s.data THEN 1 ELSE 0

(* One direction of the connection carries w, when its sender has the next   *)
(* sequence number t and has received up to k, and its receiver has received *)
(* up to r and was acknowledged up to u.                                     *)
Stream(w, r, t, u, k) ==
  /\ w \in Seq(Segment)
  /\ 1 <= r /\ r <= t /\ 1 <= u /\ u <= k
  /\ r = IF w = <<>> THEN t ELSE w[1].seq
  /\ \A i \in 1..Len(w) :
       w[i].seq + Length(w[i]) = IF i = Len(w) THEN t ELSE w[i + 1].seq
  /\ \A i, j \in 1..Len(w) : i < j => w[i].seq + Length(w[i]) <= w[j].seq
  /\ \A i \in 1..Len(w) : w[i].ack \in 1..k
  /\ \A i \in 1..Len(w) : w[i].data =>
       u <= w[i].ack /\ \A j \in 1..Len(w) : j < i => w[j].ack <= w[i].ack

(* What a socket has counted, and what it has sent. *)
Accounts(x) ==
  /\ x \in Socket
  /\ 1 <= x.from /\ x.from <= x.una
  /\ x.ackedEcn <= x.ackedTotal /\ x.una <= x.ackedTotal + x.from
  /\ x.ecnEchoSeq <= x.una
  /\ x.nextSeq <= x.nextTx /\ x.ecnCWRSeq <= x.nextTx /\ x.nextTx <= NSegs + 1
  /\ x.prior <= x.nextRx
  /\ x.delAckCount <= DelAckMax

(* A socket x whose peer has received up to r and was acknowledged up to u.  *)
Fit(x, r, u) == Accounts(x) /\ Stream(x.wire, r, x.nextTx, u, x.nextRx)

-----------------------------------------------------------------------------
(* What a direction of the connection carries                                *)

LEMMA LengthIs ==
  \A s : Length(s) \in {0, 1} /\ (s.data = TRUE => Length(s) = 1) /\ (s.data = FALSE => Length(s) = 0)
  BY DEF Length

LEMMA SegmentIs ==
  ASSUME NEW w \in Seq(Segment), NEW i \in 1..Len(w)
  PROVE  /\ w[i] \in Segment /\ w[i].seq \in Nat /\ w[i].ack \in Nat
         /\ w[i].data \in BOOLEAN /\ w[i].ece \in BOOLEAN /\ w[i].cwr \in BOOLEAN
         /\ Len(w) \in Nat
  <1>1. w[i] \in Segment /\ Len(w) \in Nat
    OBVIOUS
  <1>q. QED
    BY <1>1 DEF Segment

(* Nothing on the way is beyond what was sent. *)
LEMMA StreamBound ==
  ASSUME NEW w, NEW r \in Nat, NEW t \in Nat, NEW u \in Nat, NEW k \in Nat,
         Stream(w, r, t, u, k), NEW i \in 1..Len(w)
  PROVE  w[i].seq + Length(w[i]) <= t
  <1>1. w \in Seq(Segment) /\ Len(w) \in Nat
    BY DEF Stream
  <1>2. \A j \in 1..Len(w) : w[j].seq \in Nat /\ Length(w[j]) \in {0, 1}
    BY <1>1, SegmentIs, LengthIs
  <1>3. Len(w) \in 1..Len(w) /\ (i = Len(w) \/ i < Len(w))
    BY <1>1
  <1>4. w[Len(w)].seq + Length(w[Len(w)]) = t
    BY <1>3 DEF Stream
  <1>5. i < Len(w) => w[i].seq + Length(w[i]) <= w[Len(w)].seq
    BY <1>3 DEF Stream
  <1>q. QED
    BY <1>2, <1>3, <1>4, <1>5

(* The sender has received more. *)
LEMMA StreamGrow ==
  ASSUME NEW w, NEW r \in Nat, NEW t \in Nat, NEW u \in Nat, NEW k \in Nat,
         Stream(w, r, t, u, k), NEW m \in Nat, k <= m
  PROVE  Stream(w, r, t, u, m)
  <1>1. \A i \in 1..Len(w) : w[i].ack \in 1..m
    BY DEF Stream
  <1>2. u <= m
    BY DEF Stream
  <1>q. QED
    BY <1>1, <1>2 DEF Stream

(* A segment is sent that acknowledges what was received, or, without data,  *)
(* less than that.                                                           *)
LEMMA StreamAppend ==
  ASSUME NEW w, NEW r \in Nat, NEW t \in Nat, NEW u \in Nat, NEW k \in Nat,
         Stream(w, r, t, u, k),
         NEW s \in Segment, s.seq = t, s.ack \in 1..k, s.data => s.ack = k
  PROVE  Stream(Append(w, s), r, t + Length(s), u, k)
  <1> DEFINE W == Append(w, s)
             n == Len(w)
  <1>1. w \in Seq(Segment) /\ n \in Nat
    BY DEF Stream
  <1>2. /\ W \in Seq(Segment) /\ Len(W) = n + 1 /\ W # <<>>
        /\ \A i \in 1..n : W[i] = w[i]
        /\ W[n + 1] = s
    BY <1>1
  <1>3. \A i \in 1..n + 1 : i \in 1..n \/ i = n + 1
    BY <1>1
  <1>4. /\ \A i \in 1..n : w[i].seq \in Nat /\ w[i].ack \in Nat /\ Length(w[i]) \in {0, 1}
        /\ Length(s) \in {0, 1}
    BY <1>1, SegmentIs, LengthIs
  <1> HIDE DEF W
  <1>5. r = W[1].seq
    <2>1. CASE n = 0
      BY <1>1, <1>2, <2>1 DEF Stream
    <2>2. CASE n # 0
      <3>1. 1 \in 1..n /\ w # <<>>
        BY <1>1, <2>2
      <3>q. QED
        BY <1>2, <3>1 DEF Stream
    <2>q. QED
      BY <2>1, <2>2
  <1>6. ASSUME NEW i \in 1..n + 1
        PROVE  W[i].seq + Length(W[i]) = IF i = n + 1 THEN t + Length(s) ELSE W[i + 1].seq
    <2>1. CASE i = n + 1
      BY <1>2, <2>1
    <2>2. CASE i \in 1..n
      <3>1. w[i].seq + Length(w[i]) = IF i = n THEN t ELSE w[i + 1].seq
        BY <2>2 DEF Stream
      <3>2. i # n => i + 1 \in 1..n
        BY <1>1, <2>2
      <3>3. W[i + 1].seq = IF i = n THEN t ELSE w[i + 1].seq
        BY <1>2, <2>2, <3>2
      <3>4. i # n + 1
        BY <1>1, <2>2
      <3>q. QED
        BY <1>2, <2>2, <3>1, <3>3, <3>4
    <2>q. QED
      BY <1>3, <2>1, <2>2
  <1>7. ASSUME NEW i \in 1..n + 1, NEW j \in 1..n + 1, i < j
        PROVE  W[i].seq + Length(W[i]) <= W[j].seq
    <2>1. i \in 1..n
      BY <1>1, <1>7
    <2>2. CASE j \in 1..n
      BY <1>2, <1>7, <2>1, <2>2 DEF Stream
    <2>3. CASE j = n + 1
      BY <1>2, <2>1, <2>3, StreamBound
    <2>q. QED
      BY <1>3, <2>2, <2>3
  <1>8. \A i \in 1..n + 1 : W[i].ack \in 1..k
    BY <1>2, <1>3 DEF Stream
  <1>9. ASSUME NEW i \in 1..n + 1, W[i].data
        PROVE  u <= W[i].ack /\ \A j \in 1..n + 1 : j < i => W[j].ack <= W[i].ack
    <2>1. CASE i = n + 1
      <3>1. W[i].ack = k
        BY <1>2, <1>9, <2>1
      <3>2. \A j \in 1..n + 1 : W[j].ack \in Nat /\ W[j].ack <= k
        BY <1>8
      <3>q. QED
        BY <3>1, <3>2 DEF Stream
    <2>2. CASE i \in 1..n
      <3>1. u <= w[i].ack /\ \A j \in 1..n : j < i => w[j].ack <= w[i].ack
        BY <1>2, <1>9, <2>2 DEF Stream
      <3>2. \A j \in 1..n + 1 : j < i => j \in 1..n
        BY <1>1, <2>2
      <3>q. QED
        BY <1>2, <2>2, <3>1, <3>2
    <2>q. QED
      BY <1>3, <2>1, <2>2
  <1>10. 1 <= r /\ r <= t + Length(s) /\ 1 <= u /\ u <= k
    BY <1>4 DEF Stream
  <1>q. QED
    BY <1>2, <1>5, <1>6, <1>7, <1>8, <1>9, <1>10 DEF Stream, W

(* Segments of data, from t on, that acknowledge k. *)
IsBurst(b, t, k) ==
  \A i \in 1..Len(b) : b[i].seq = t + i - 1 /\ b[i].data = TRUE /\ b[i].ack = k

LEMMA StreamBurst ==
  ASSUME NEW w, NEW r \in Nat, NEW t \in Nat, NEW u \in Nat, NEW k \in Nat,
         Stream(w, r, t, u, k), NEW m \in Nat, m # 0,
         NEW b \in Seq(Segment), Len(b) = m, IsBurst(b, t, k)
  PROVE  Stream(w \o b, r, t + m, u, k)
  <1> DEFINE W == w \o b
             n == Len(w)
  <1>1. w \in Seq(Segment) /\ n \in Nat
    BY DEF Stream
  <1>2. /\ W \in Seq(Segment) /\ Len(W) = n + m /\ W # <<>>
        /\ \A i \in 1..n : W[i] = w[i]
        /\ \A i \in n + 1..n + m : W[i] = b[i - n]
    <2>1. /\ W \in Seq(Segment) /\ Len(W) = n + m
          /\ \A i \in 1..n + m : W[i] = IF i <= n THEN w[i] ELSE b[i - n]
      BY <1>1
    <2>2. W # <<>>
      BY <1>1, <2>1
    <2>3. /\ \A i \in 1..n : i \in 1..n + m /\ i <= n
          /\ \A i \in n + 1..n + m : i \in 1..n + m /\ ~(i <= n)
      BY <1>1
    <2>q. QED
      BY <2>1, <2>2, <2>3
  <1>3. \A i \in 1..n + m : i \in 1..n \/ i \in n + 1..n + m
    BY <1>1
  <1>4. /\ \A i \in 1..n : w[i].seq \in Nat /\ w[i].ack \in Nat /\ Length(w[i]) \in {0, 1}
        /\ \A i \in 1..m : Length(b[i]) = 1 /\ b[i].seq = t + i - 1 /\ b[i].ack = k
    BY <1>1, SegmentIs, LengthIs DEF IsBurst
  <1>5. \A i \in n + 1..n + m : /\ W[i].seq = t + (i - n) - 1 /\ Length(W[i]) = 1
                                /\ W[i].ack = k
    <2> TAKE i \in n + 1..n + m
    <2>1. i - n \in 1..m
      BY <1>1
    <2>q. QED
      BY <1>2, <1>4, <2>1
  <1> HIDE DEF W
  <1>6. r = W[1].seq
    <2>1. CASE n = 0
      <3>1. 1 \in n + 1..n + m /\ w = <<>>
        BY <1>1, <2>1
      <3>q. QED
        BY <1>5, <2>1, <3>1 DEF Stream
    <2>2. CASE n # 0
      <3>1. 1 \in 1..n /\ w # <<>>
        BY <1>1, <2>2
      <3>q. QED
        BY <1>2, <3>1 DEF Stream
    <2>q. QED
      BY <2>1, <2>2
  <1>7. ASSUME NEW i \in 1..n + m
        PROVE  W[i].seq + Length(W[i]) = IF i = n + m THEN t + m ELSE W[i + 1].seq
    <2>1. CASE i \in n + 1..n + m
      <3>1. i # n + m => i + 1 \in n + 1..n + m
        <4>1. i \in Int /\ n + 1 <= i /\ i <= n + m /\ n \in Nat
          BY <1>1, <2>1
        <4>q. QED
          BY <4>1
      <3>2. W[i].seq + Length(W[i]) = t + (i - n)
        BY <1>1, <1>5, <2>1
      <3>3. i # n + m => W[i + 1].seq = t + (i - n)
        BY <1>1, <1>5, <2>1, <3>1
      <3>q. QED
        BY <1>1, <3>2, <3>3
    <2>2. CASE i \in 1..n
      <3>1. w[i].seq + Length(w[i]) = IF i = n THEN t ELSE w[i + 1].seq
        BY <2>2 DEF Stream
      <3>2. i # n => W[i + 1].seq = w[i + 1].seq
        <4>1. i # n => i + 1 \in 1..n
          BY <1>1, <2>2
        <4>q. QED
          BY <1>2, <4>1
      <3>3. i = n => W[i + 1].seq = t
        <4>1. n + 1 \in n + 1..n + m /\ t + ((n + 1) - n) - 1 = t
          BY <1>1
        <4>q. QED
          BY <1>5, <4>1
      <3>4. i # n + m
        BY <1>1, <2>2
      <3>q. QED
        BY <1>2, <2>2, <3>1, <3>2, <3>3, <3>4
    <2>q. QED
      BY <1>3, <2>1, <2>2
  <1>8. ASSUME NEW i \in 1..n + m, NEW j \in 1..n + m, i < j
        PROVE  W[i].seq + Length(W[i]) <= W[j].seq
    <2>1. CASE i \in 1..n /\ j \in 1..n
      BY <1>2, <1>8, <2>1 DEF Stream
    <2>2. CASE i \in 1..n /\ j \in n + 1..n + m
      <3>1. w[i].seq + Length(w[i]) <= t
        BY <2>2, StreamBound
      <3>2. t <= W[j].seq
        BY <1>1, <1>5, <2>2
      <3>3. W[j].seq \in Int
        BY <1>1, <1>5, <2>2
      <3>4. W[i].seq + Length(W[i]) = w[i].seq + Length(w[i])
        BY <1>2, <2>2
      <3>5. w[i].seq + Length(w[i]) \in Int
        <4>1. w[i].seq \in Nat /\ Length(w[i]) \in {0, 1}
          BY <1>4, <2>2
        <4>2. Length(w[i]) \in Nat
          BY <4>1
        <4>q. QED
          BY <4>1, <4>2
      <3>q. QED
        BY <3>1, <3>2, <3>3, <3>4, <3>5
    <2>3. CASE i \in n + 1..n + m /\ j \in n + 1..n + m
      BY <1>1, <1>5, <1>8, <2>3
    <2>4. ~(i \in n + 1..n + m /\ j \in 1..n)
      BY <1>1, <1>8
    <2>q. QED
      BY <1>3, <2>1, <2>2, <2>3, <2>4
  <1>9. k \in 1..k /\ \A i \in 1..n + m : W[i].ack \in 1..k
    <2>1. k \in 1..k
      BY DEF Stream
    <2>q. QED
      BY <1>2, <1>3, <1>5, <2>1 DEF Stream
  <1>10. ASSUME NEW i \in 1..n + m, W[i].data
         PROVE  u <= W[i].ack /\ \A j \in 1..n + m : j < i => W[j].ack <= W[i].ack
    <2>1. CASE i \in n + 1..n + m
      <3>1. W[i].ack = k
        BY <1>5, <2>1
      <3>2. \A j \in 1..n + m : W[j].ack \in Nat /\ W[j].ack <= k
        BY <1>9
      <3>q. QED
        BY <3>1, <3>2 DEF Stream
    <2>2. CASE i \in 1..n
      <3>1. u <= w[i].ack /\ \A j \in 1..n : j < i => w[j].ack <= w[i].ack
        BY <1>2, <1>10, <2>2 DEF Stream
      <3>2. \A j \in 1..n + m : j < i => j \in 1..n
        BY <1>1, <2>2
      <3>q. QED
        BY <1>2, <2>2, <3>1, <3>2
    <2>q. QED
      BY <1>3, <2>1, <2>2
  <1>11. 1 <= r /\ r <= t + m /\ 1 <= u /\ u <= k
    BY DEF Stream
  <1>q. QED
    BY <1>2, <1>6, <1>7, <1>8, <1>9, <1>10, <1>11 DEF Stream, W

(* A segment arrives: it is the next in sequence, and with data it           *)
(* acknowledges at least what the receiver knows.                            *)
HeadIs(w, r, t, u, k) ==
  /\ Head(w) \in Segment /\ Head(w).seq = r /\ Head(w).ack \in 1..k
  /\ Head(w).data => u <= Head(w).ack /\ r + 1 <= t
  /\ \A v \in {u, Head(w).ack} :
       v >= u => Stream(Tail(w), r + Length(Head(w)), t, v, k)

LEMMA StreamTail ==
  ASSUME NEW w, NEW r \in Nat, NEW t \in Nat, NEW u \in Nat, NEW k \in Nat,
         Stream(w, r, t, u, k), w # <<>>
  PROVE  HeadIs(w, r, t, u, k)
  <1> DEFINE n == Len(w)
  <1>1. w \in Seq(Segment) /\ n \in Nat /\ n # 0 /\ Head(w) = w[1] /\ 1 \in 1..n
    BY DEF Stream
  <1>2. /\ \A i \in 1..n : /\ w[i] \in Segment /\ w[i].seq \in Nat /\ w[i].ack \in Nat
                           /\ w[i].data \in BOOLEAN /\ Length(w[i]) \in {0, 1}
                           /\ w[i].data => Length(w[i]) = 1
    BY <1>1, SegmentIs, LengthIs
  <1>3. /\ Head(w) \in Segment /\ Head(w).seq = r /\ Head(w).ack \in 1..k
        /\ Head(w).data => u <= Head(w).ack
    BY <1>1, <1>2 DEF Stream
  <1>4. r + Length(Head(w)) <= t
    BY <1>1, <1>3, StreamBound
  <1>5. Head(w).data => r + 1 <= t
    BY <1>1, <1>2, <1>4, SMTT(40)
  <1>6. ASSUME NEW v \in {u, Head(w).ack}, v >= u
        PROVE  Stream(Tail(w), r + Length(Head(w)), t, v, k)
    <2> DEFINE T == Tail(w)
               q == r + Length(Head(w))
    <2>1. /\ T \in Seq(Segment) /\ Len(T) = n - 1
          /\ \A i \in 1..n - 1 : T[i] = w[i + 1] /\ i + 1 \in 1..n
      BY <1>1
    <2>2. q \in Nat /\ 1 <= q /\ q <= t /\ v \in Nat /\ 1 <= v /\ v <= k
      BY <1>1, <1>2, <1>3, <1>4, <1>6 DEF Stream
    <2>3. q = IF n = 1 THEN t ELSE w[2].seq
      <3>1. w[1].seq + Length(w[1]) = IF 1 = n THEN t ELSE w[1 + 1].seq
        BY <1>1 DEF Stream
      <3>q. QED
        BY <1>1, <1>3, <3>1
    <2> HIDE DEF T, q
    <2>4. q = IF T = <<>> THEN t ELSE T[1].seq
      <3>1. CASE n = 1
        BY <2>1, <2>3, <3>1
      <3>2. CASE n # 1
        <4>1. 1 \in 1..n - 1 /\ T # <<>>
          BY <1>1, <2>1, <3>2
        <4>q. QED
          BY <2>1, <2>3, <3>2, <4>1
      <3>q. QED
        BY <3>1, <3>2
    <2>5. ASSUME NEW i \in 1..n - 1
          PROVE  T[i].seq + Length(T[i]) = IF i = n - 1 THEN t ELSE T[i + 1].seq
      <3>1. w[i + 1].seq + Length(w[i + 1]) = IF i + 1 = n THEN t ELSE w[(i + 1) + 1].seq
        BY <2>1 DEF Stream
      <3>2. i # n - 1 => i + 1 \in 1..n - 1
        BY <1>1
      <3>3. i = n - 1 <=> i + 1 = n
        BY <1>1
      <3>q. QED
        BY <2>1, <3>1, <3>2, <3>3
    <2>6. ASSUME NEW i \in 1..n - 1, NEW j \in 1..n - 1, i < j
          PROVE  T[i].seq + Length(T[i]) <= T[j].seq
      <3>1. i + 1 < j + 1
        BY <2>6
      <3>2. w[i + 1].seq + Length(w[i + 1]) <= w[j + 1].seq
        BY <2>1, <3>1 DEF Stream
      <3>q. QED
        BY <2>1, <3>2
    <2>7. \A i \in 1..n - 1 : T[i].ack \in 1..k
      BY <2>1 DEF Stream
    <2>8. ASSUME NEW i \in 1..n - 1, T[i].data
          PROVE  v <= T[i].ack /\ \A j \in 1..n - 1 : j < i => T[j].ack <= T[i].ack
      <3>1. u <= w[i + 1].ack /\ \A j \in 1..n : j < i + 1 => w[j].ack <= w[i + 1].ack
        BY <2>1, <2>8 DEF Stream
      <3>2. 1 < i + 1
        OBVIOUS
      <3>3. v <= w[i + 1].ack
        BY <1>1, <1>6, <3>1, <3>2
      <3>4. \A j \in 1..n - 1 : j < i => j + 1 < i + 1
        OBVIOUS
      <3>5. \A j \in 1..n - 1 : j < i => w[j + 1].ack <= w[i + 1].ack
        BY <2>1, <3>1, <3>4
      <3>q. QED
        BY <2>1, <3>3, <3>5
    <2>q. QED
      BY <2>1, <2>2, <2>4, <2>5, <2>6, <2>7, <2>8 DEF Stream, T, q
  <1>q. QED
    BY <1>3, <1>5, <1>6 DEF HeadIs

-----------------------------------------------------------------------------
(* What the operations do to a socket                                        *)

SameCounts(x, y) ==
  /\ y.una = x.una /\ y.ackedTotal = x.ackedTotal /\ y.ackedEcn = x.ackedEcn
  /\ y.from = x.from /\ y.nextSeq = x.nextSeq /\ y.ecnEchoSeq = x.ecnEchoSeq
SameOut(x, y)  == y.nextTx = x.nextTx /\ y.ecnCWRSeq = x.ecnCWRSeq
SameIn(x, y)   == y.nextRx = x.nextRx /\ y.marked = x.marked
SameEcho(x, y) == y.prior = x.prior /\ y.ceState = x.ceState /\ y.ecnCESeq = x.ecnCESeq

(* No acknowledgement becomes due, and none is delayed. *)
NoneDelayed(x, y) ==
  y.delayedAckReserved = x.delayedAckReserved /\ (y.delAckTimer => x.delAckTimer)

(* What SendEmptyPacket puts on the wire. *)
EmptyAck(x, ack, ece) ==
  [seq |-> x.nextTx, data |-> FALSE, ack |-> ack, ece |-> ece, cwr |-> FALSE]

(* The accounts depend on these fields only. *)
LEMMA AccountsKept ==
  ASSUME NEW x, Accounts(x), NEW y \in Socket, SameCounts(x, y), SameOut(x, y),
         y.prior <= y.nextRx, y.delAckCount <= DelAckMax
  PROVE  Accounts(y)
  BY DEF Accounts, SameCounts, SameOut

LEMMA SocketFacts ==
  ASSUME NEW x \in Socket
  PROVE  /\ {x.una, x.nextTx, x.nextRx, x.ecnCESeq, x.ecnEchoSeq, x.ecnCWRSeq, x.delAckCount,
             x.prior, x.nextSeq, x.ackedTotal, x.ackedEcn, x.from} \subseteq Nat
         /\ x.ecnState \in EcnStates /\ x.wire \in Seq(Segment) /\ x.marked \subseteq Nat
         /\ {x.delAckTimer, x.ceState, x.delayedAckReserved} \subseteq BOOLEAN
  BY DEF Socket

(* An acknowledgement is sent that acknowledges ack. *)
LEMMA EmptyEffect ==
  ASSUME NEW x \in Socket, NEW ece \in BOOLEAN, NEW y, y = SendEmptyPacket(x, ece)
  PROVE  /\ y \in Socket
         /\ SameCounts(x, y) /\ SameOut(x, y) /\ SameIn(x, y) /\ SameEcho(x, y)
         /\ NoneDelayed(x, y) /\ y.delAckTimer = FALSE /\ y.delAckCount = 0
         /\ y.ecnState = x.ecnState
         /\ y.wire = Append(x.wire, EmptyAck(x, x.nextRx, ece))
  <1> DEFINE w == Append(x.wire, EmptyAck(x, x.nextRx, ece))
  <1>1. y = [x EXCEPT !.delAckTimer = FALSE, !.delAckCount = 0, !.wire = w]
    BY DEF SendEmptyPacket, EmptyAck
  <1>2. EmptyAck(x, x.nextRx, ece) \in Segment /\ x.wire \in Seq(Segment)
    BY DEF Socket, EmptyAck, Segment
  <1>3. w \in Seq(Segment)
    BY <1>2
  <1> HIDE DEF w
  <1>4. y \in Socket
    <2>1. [x EXCEPT !.delAckTimer = FALSE, !.delAckCount = 0, !.wire = w] \in Socket
      BY <1>3 DEF Socket
    <2>q. QED
      BY <1>1, <2>1
  <1>5. SameCounts(x, y) /\ SameOut(x, y) /\ SameIn(x, y) /\ SameEcho(x, y)
    BY <1>1 DEF Socket, SameCounts, SameOut, SameIn, SameEcho
  <1>6. /\ y.ecnState = x.ecnState /\ y.delayedAckReserved = x.delayedAckReserved
        /\ y.delAckTimer = FALSE /\ y.delAckCount = 0 /\ y.wire = w
    BY <1>1 DEF Socket
  <1>q. QED
    BY <1>4, <1>5, <1>6 DEF NoneDelayed, w

(* ... and stays a sound one. *)
LEMMA EmptyFit ==
  ASSUME NEW x, NEW r \in Nat, NEW u \in Nat, Fit(x, r, u),
         NEW ack \in 1..x.nextRx, NEW ece \in BOOLEAN,
         NEW y \in Socket, SameCounts(x, y), SameOut(x, y), y.nextRx = x.nextRx,
         y.prior <= y.nextRx, y.delAckCount <= DelAckMax,
         y.wire = Append(x.wire, EmptyAck(x, ack, ece))
  PROVE  Fit(y, r, u)
  <1>1. x \in Socket /\ x.nextTx \in Nat /\ x.nextRx \in Nat /\ Stream(x.wire, r, x.nextTx, u, x.nextRx)
    BY SocketFacts DEF Fit, Accounts
  <1> DEFINE s == EmptyAck(x, ack, ece)
  <1>2. s \in Segment /\ s.seq = x.nextTx /\ s.ack = ack /\ s.data = FALSE
    BY <1>1 DEF EmptyAck, Segment
  <1> HIDE DEF s
  <1>3. Length(s) = 0
    BY <1>2, LengthIs
  <1>4. Stream(Append(x.wire, s), r, x.nextTx + Length(s), u, x.nextRx)
    BY <1>1, <1>2, StreamAppend
  <1>5. x.nextTx + Length(s) = x.nextTx
    BY <1>1, <1>3
  <1>6. Stream(y.wire, r, y.nextTx, u, y.nextRx)
    BY <1>4, <1>5 DEF SameOut, s
  <1>7. Accounts(y)
    BY AccountsKept DEF Fit
  <1>q. QED
    BY <1>6, <1>7 DEF Fit

(* Acknowledge: the echo is that of the state. *)
LEMMA AcknowledgeEffect ==
  ASSUME NEW x \in Socket, NEW y, y = Acknowledge(x)
  PROVE  /\ y \in Socket
         /\ SameCounts(x, y) /\ SameOut(x, y) /\ SameIn(x, y) /\ SameEcho(x, y)
         /\ NoneDelayed(x, y) /\ y.delAckTimer = FALSE /\ y.delAckCount = 0
         /\ y.ecnState = (IF x.ecnState \in Echoing THEN "SENDING_ECE" ELSE x.ecnState)
         /\ y.wire = Append(x.wire, EmptyAck(x, x.nextRx, x.ecnState \in Echoing))
  <1> DEFINE z == SendEmptyPacket(x, TRUE)
  <1>1. CASE x.ecnState \in Echoing
    <2>1. /\ z \in Socket
          /\ SameCounts(x, z) /\ SameOut(x, z) /\ SameIn(x, z) /\ SameEcho(x, z)
          /\ NoneDelayed(x, z) /\ z.delAckTimer = FALSE /\ z.delAckCount = 0
          /\ z.wire = Append(x.wire, EmptyAck(x, x.nextRx, TRUE))
      BY EmptyEffect
    <2>2. y = [z EXCEPT !.ecnState = "SENDING_ECE"]
      BY <1>1 DEF Acknowledge
    <2> HIDE DEF z
    <2>3. y \in Socket
      BY <2>1, <2>2 DEF Socket, EcnStates, Echoing
    <2>4. /\ SameCounts(z, y) /\ SameOut(z, y) /\ SameIn(z, y) /\ SameEcho(z, y)
          /\ y.ecnState = "SENDING_ECE" /\ y.wire = z.wire
          /\ y.delayedAckReserved = z.delayedAckReserved
          /\ y.delAckTimer = z.delAckTimer /\ y.delAckCount = z.delAckCount
      BY <2>1, <2>2 DEF Socket, SameCounts, SameOut, SameIn, SameEcho
    <2>5. (x.ecnState \in Echoing) = TRUE
      BY <1>1
    <2>6. EmptyAck(x, x.nextRx, x.ecnState \in Echoing) = EmptyAck(x, x.nextRx, TRUE)
      BY <2>5
    <2>q. QED
      BY <1>1, <2>1, <2>3, <2>4, <2>6 DEF SameCounts, SameOut, SameIn, SameEcho, NoneDelayed
  <1>2. CASE x.ecnState \notin Echoing
    <2>1. y = SendEmptyPacket(x, FALSE)
      BY <1>2 DEF Acknowledge
    <2>2. (x.ecnState \in Echoing) = FALSE
      BY <1>2
    <2>3. EmptyAck(x, x.nextRx, x.ecnState \in Echoing) = EmptyAck(x, x.nextRx, FALSE)
      BY <2>2
    <2>q. QED
      BY <1>2, <2>1, <2>3, EmptyEffect
  <1>q. QED
    BY <1>1, <1>2

LEMMA AcknowledgeFit ==
  ASSUME NEW x, NEW r \in Nat, NEW u \in Nat, Fit(x, r, u), NEW y, y = Acknowledge(x)
  PROVE  Fit(y, r, u)
  <1>1. x \in Socket /\ x.prior <= x.nextRx /\ DelAckMax \in Nat
    BY FeedbackAssumption DEF FeedbackAssumption, Fit, Accounts
  <1>2. /\ y \in Socket /\ SameCounts(x, y) /\ SameOut(x, y) /\ SameIn(x, y) /\ SameEcho(x, y)
        /\ y.delAckCount = 0
        /\ y.wire = Append(x.wire, EmptyAck(x, x.nextRx, x.ecnState \in Echoing))
    BY <1>1, AcknowledgeEffect
  <1>3. x.nextRx \in 1..x.nextRx
    BY <1>1, SocketFacts DEF Fit, Stream
  <1>4. (x.ecnState \in Echoing) \in BOOLEAN
    OBVIOUS
  <1>5. y.prior <= y.nextRx /\ y.nextRx = x.nextRx /\ y.delAckCount <= DelAckMax
    BY <1>1, <1>2 DEF SameIn, SameEcho
  <1>q. QED
    BY <1>2, <1>3, <1>4, <1>5, EmptyFit

(* The acknowledgement made when the CE state changes. *)
LEMMA PriorAckEffect ==
  ASSUME NEW x \in Socket, NEW ece \in BOOLEAN, NEW y, y = PriorAck(x, ece)
  PROVE  /\ y \in Socket
         /\ SameCounts(x, y) /\ SameOut(x, y) /\ SameIn(x, y) /\ SameEcho(x, y)
         /\ NoneDelayed(x, y) /\ y.delAckCount = 0
         /\ y.ecnState = x.ecnState
         /\ y.wire = Append(x.wire, EmptyAck(x, x.prior, ece))
  <1> DEFINE b == [x EXCEPT !.nextRx = x.prior]
             z == SendEmptyPacket(b, ece)
  <1>1. /\ b \in Socket /\ b.nextRx = x.prior /\ b.nextTx = x.nextTx
        /\ SameCounts(x, b) /\ SameOut(x, b) /\ b.marked = x.marked /\ SameEcho(x, b)
        /\ b.ecnState = x.ecnState /\ b.wire = x.wire
        /\ b.delayedAckReserved = x.delayedAckReserved /\ b.delAckTimer = x.delAckTimer
    BY DEF Socket, SameCounts, SameOut, SameEcho
  <1> HIDE DEF b
  <1>2. /\ z \in Socket
        /\ SameCounts(b, z) /\ SameOut(b, z) /\ SameIn(b, z) /\ SameEcho(b, z)
        /\ NoneDelayed(b, z) /\ z.delAckTimer = FALSE /\ z.delAckCount = 0
        /\ z.ecnState = b.ecnState
        /\ z.wire = Append(b.wire, EmptyAck(b, b.nextRx, ece))
    BY <1>1, EmptyEffect
  <1>3. y = [z EXCEPT !.nextRx = x.nextRx]
    BY DEF PriorAck, b
  <1> HIDE DEF z
  <1>4. /\ y \in Socket /\ y.nextRx = x.nextRx
        /\ SameCounts(z, y) /\ SameOut(z, y) /\ y.marked = z.marked /\ SameEcho(z, y)
        /\ y.ecnState = z.ecnState /\ y.wire = z.wire
        /\ y.delayedAckReserved = z.delayedAckReserved /\ y.delAckTimer = z.delAckTimer
        /\ y.delAckCount = z.delAckCount
    BY <1>2, <1>3 DEF Socket, SameCounts, SameOut, SameEcho
  <1>5. EmptyAck(b, b.nextRx, ece) = EmptyAck(x, x.prior, ece)
    BY <1>1 DEF EmptyAck
  <1>q. QED
    BY <1>1, <1>2, <1>4, <1>5 DEF SameCounts, SameOut, SameIn, SameEcho, NoneDelayed

(* A socket whose wire and accounts are as they were. *)
LEMMA SameFit ==
  ASSUME NEW x, NEW r, NEW u, Fit(x, r, u),
         NEW y \in Socket, SameCounts(x, y), SameOut(x, y), y.nextRx = x.nextRx,
         y.prior <= y.nextRx, y.delAckCount <= DelAckMax, y.wire = x.wire
  PROVE  Fit(y, r, u)
  <1>1. Accounts(y)
    BY AccountsKept DEF Fit
  <1>q. QED
    BY <1>1 DEF Fit, SameOut

LEMMA ChangeAckedEffect ==
  ASSUME NEW x \in Socket, NEW to \in BOOLEAN, NEW y, y = ChangeAcked(x, to)
  PROVE  /\ y \in Socket
         /\ SameCounts(x, y) /\ SameOut(x, y) /\ SameIn(x, y) /\ SameEcho(x, y)
         /\ NoneDelayed(x, y) /\ y.delAckCount \in {x.delAckCount, 0}
         /\ y.ecnState = x.ecnState
         /\ \/ y.wire = x.wire
            \/ /\ x.delayedAckReserved /\ x.prior # 0
               /\ y.wire = Append(x.wire, EmptyAck(x, x.prior, x.ceState))
  <1>1. x.ceState \in BOOLEAN
    BY SocketFacts
  <1>2. CASE y = PriorAck(x, x.ceState) /\ x.delayedAckReserved /\ x.prior # 0
    BY <1>1, <1>2, PriorAckEffect
  <1>3. CASE y = x
    BY <1>3 DEF SameCounts, SameOut, SameIn, SameEcho, NoneDelayed
  <1>q. QED
    BY <1>2, <1>3 DEF ChangeAcked

(* CeEvent: the CE state becomes that of the packet, the sequence number is  *)
(* saved, and what was received before may be acknowledged.                  *)
NewMark(x, p, ce) == ce /\ x.ecnCESeq < p.seq

MayAckPrior(x, y) ==
  \/ y.wire = x.wire
  \/ /\ x.delayedAckReserved /\ x.prior # 0
     /\ y.wire = Append(x.wire, EmptyAck(x, x.prior, x.ceState))

CeNoted(x, p, ce, y) ==
  /\ y \in Socket
  /\ SameCounts(x, y) /\ SameOut(x, y) /\ SameIn(x, y)
  /\ NoneDelayed(x, y) /\ y.delAckCount \in {x.delAckCount, 0}
  /\ y.prior = x.nextRx
  /\ NewMark(x, p, ce) => /\ y.ceState = TRUE /\ y.ecnState = "CE_RCVD"
                          /\ y.ecnCESeq = p.seq
  /\ ~NewMark(x, p, ce) => /\ y.ceState = FALSE /\ y.ecnCESeq = x.ecnCESeq
                           /\ y.ecnState = IF x.ecnState \in Echoing THEN "IDLE" ELSE x.ecnState
  /\ MayAckPrior(x, y)

LEMMA CeEventEffect ==
  ASSUME NEW x \in Socket, NEW p \in Segment, NEW ce \in BOOLEAN,
         NEW y, y = CeEvent(x, p, ce)
  PROVE  CeNoted(x, p, ce, y)
  <1>1. p.seq \in Nat
    BY DEF Segment
  <1>2. CASE NewMark(x, p, ce)
    <2> DEFINE b == [x EXCEPT !.ecnCESeq = p.seq, !.ecnState = "CE_RCVD"]
               c == ChangeAcked(b, TRUE)
    <2>1. /\ b \in Socket /\ b.ecnCESeq = p.seq
          /\ SameCounts(x, b) /\ SameOut(x, b) /\ SameIn(x, b)
          /\ b.prior = x.prior /\ b.ceState = x.ceState /\ b.wire = x.wire
          /\ b.delayedAckReserved = x.delayedAckReserved /\ b.delAckTimer = x.delAckTimer
          /\ b.delAckCount = x.delAckCount
      BY <1>1 DEF Socket, EcnStates, Echoing, SameCounts, SameOut, SameIn
    <2>2. y = [c EXCEPT !.prior = b.nextRx, !.ceState = TRUE, !.ecnState = "CE_RCVD"]
      BY <1>2 DEF CeEvent, CeState0to1, NewMark
    <2> HIDE DEF b
    <2>3. /\ c \in Socket
          /\ SameCounts(b, c) /\ SameOut(b, c) /\ SameIn(b, c) /\ SameEcho(b, c)
          /\ NoneDelayed(b, c) /\ c.delAckCount \in {b.delAckCount, 0}
          /\ \/ c.wire = b.wire
             \/ /\ b.delayedAckReserved /\ b.prior # 0
                /\ c.wire = Append(b.wire, EmptyAck(b, b.prior, b.ceState))
      BY <2>1, ChangeAckedEffect
    <2> HIDE DEF c
    <2>4. b.nextRx \in Nat
      BY <2>1, SocketFacts
    <2>5. y \in Socket
      BY <2>2, <2>3, <2>4, ZenonT(60) DEF Socket, EcnStates, Echoing
    <2>6. /\ SameCounts(c, y) /\ SameOut(c, y) /\ SameIn(c, y)
          /\ y.prior = b.nextRx /\ y.ceState = TRUE /\ y.ecnState = "CE_RCVD"
          /\ y.ecnCESeq = c.ecnCESeq /\ y.wire = c.wire
          /\ y.delayedAckReserved = c.delayedAckReserved /\ y.delAckTimer = c.delAckTimer
          /\ y.delAckCount = c.delAckCount
      BY <2>2, <2>3 DEF Socket, SameCounts, SameOut, SameIn
    <2>7. EmptyAck(b, b.prior, b.ceState) = EmptyAck(x, x.prior, x.ceState)
      BY <2>1 DEF EmptyAck, SameOut
    <2>8. SameCounts(x, y) /\ SameOut(x, y) /\ SameIn(x, y) /\ y.prior = x.nextRx
      BY <2>1, <2>3, <2>6 DEF SameCounts, SameOut, SameIn
    <2>9. NoneDelayed(x, y) /\ y.delAckCount \in {x.delAckCount, 0} /\ y.ecnCESeq = p.seq
      BY <2>1, <2>3, <2>6 DEF NoneDelayed, SameEcho
    <2>10. \/ y.wire = x.wire
           \/ /\ x.delayedAckReserved /\ x.prior # 0
              /\ y.wire = Append(x.wire, EmptyAck(x, x.prior, x.ceState))
      BY <2>1, <2>3, <2>6, <2>7
    <2>q. QED
      BY <1>2, <2>5, <2>6, <2>8, <2>9, <2>10 DEF CeNoted, MayAckPrior
  <1>3. CASE ~NewMark(x, p, ce)
    <2> DEFINE c == ChangeAcked(x, FALSE)
    <2>1. y = [c EXCEPT !.prior = x.nextRx, !.ceState = FALSE,
                        !.ecnState = IF c.ecnState \in Echoing THEN "IDLE" ELSE c.ecnState]
      BY <1>3 DEF CeEvent, CeState1to0, NewMark
    <2>2. /\ c \in Socket
          /\ SameCounts(x, c) /\ SameOut(x, c) /\ SameIn(x, c) /\ SameEcho(x, c)
          /\ NoneDelayed(x, c) /\ c.delAckCount \in {x.delAckCount, 0}
          /\ c.ecnState = x.ecnState
          /\ \/ c.wire = x.wire
             \/ /\ x.delayedAckReserved /\ x.prior # 0
                /\ c.wire = Append(x.wire, EmptyAck(x, x.prior, x.ceState))
      BY ChangeAckedEffect
    <2> HIDE DEF c
    <2>3. x.nextRx \in Nat
      BY SocketFacts
    <2>4. y \in Socket
      BY <2>1, <2>2, <2>3, ZenonT(60) DEF Socket, EcnStates, Echoing
    <2>5. /\ SameCounts(c, y) /\ SameOut(c, y) /\ SameIn(c, y)
          /\ y.prior = x.nextRx /\ y.ceState = FALSE
          /\ y.ecnState = IF c.ecnState \in Echoing THEN "IDLE" ELSE c.ecnState
          /\ y.ecnCESeq = c.ecnCESeq /\ y.wire = c.wire
          /\ y.delayedAckReserved = c.delayedAckReserved /\ y.delAckTimer = c.delAckTimer
          /\ y.delAckCount = c.delAckCount
      BY <2>1, <2>2 DEF Socket, SameCounts, SameOut, SameIn
    <2>q. QED
      BY <1>3, <2>2, <2>4, <2>5
         DEF CeNoted, MayAckPrior, SameCounts, SameOut, SameIn, SameEcho, NoneDelayed
  <1>q. QED
    BY <1>2, <1>3

LEMMA CeEventFit ==
  ASSUME NEW x, NEW r \in Nat, NEW u \in Nat, Fit(x, r, u),
         NEW p \in Segment, NEW ce \in BOOLEAN, NEW y, y = CeEvent(x, p, ce)
  PROVE  Fit(y, r, u)
  <1>1. /\ x \in Socket /\ x.prior <= x.nextRx /\ x.delAckCount <= DelAckMax
        /\ DelAckMax \in Nat
    BY FeedbackAssumption DEF FeedbackAssumption, Fit, Accounts
  <1>2. {x.prior, x.nextRx} \subseteq Nat /\ x.ceState \in BOOLEAN
    BY <1>1, SocketFacts
  <1>4. /\ y \in Socket
        /\ SameCounts(x, y) /\ SameOut(x, y) /\ SameIn(x, y)
        /\ y.delAckCount \in {x.delAckCount, 0} /\ y.prior = x.nextRx
        /\ \/ y.wire = x.wire
           \/ x.prior # 0 /\ y.wire = Append(x.wire, EmptyAck(x, x.prior, x.ceState))
    <2>1. CeNoted(x, p, ce, y)
      BY <1>1, CeEventEffect
    <2>q. QED
      BY <2>1 DEF CeNoted, MayAckPrior
  <1>5. y.nextRx = x.nextRx /\ y.prior <= y.nextRx /\ y.delAckCount <= DelAckMax
    BY <1>1, <1>2, <1>4 DEF SameIn
  <1>6. CASE y.wire = x.wire
    BY <1>4, <1>5, <1>6, SameFit
  <1>7. CASE x.prior # 0 /\ y.wire = Append(x.wire, EmptyAck(x, x.prior, x.ceState))
    <2>1. x.prior \in 1..x.nextRx
      BY <1>1, <1>2, <1>7
    <2>q. QED
      BY <1>2, <1>4, <1>5, <1>7, <2>1, EmptyFit
  <1>q. QED
    BY <1>4, <1>6, <1>7

(* CWR changes nothing but the echo. *)
LEMMA CwrEventEffect ==
  ASSUME NEW x \in Socket, NEW p \in Segment, NEW y, y = CwrEvent(x, p)
  PROVE  /\ y \in Socket
         /\ SameCounts(x, y) /\ SameOut(x, y) /\ SameIn(x, y) /\ SameEcho(x, y)
         /\ NoneDelayed(x, y) /\ y.delAckCount = x.delAckCount
         /\ y.wire = x.wire
         /\ y.ecnState = IF p.cwr /\ x.ecnState # "CE_RCVD" THEN "IDLE" ELSE x.ecnState
  <1>1. CASE p.cwr /\ x.ecnState # "CE_RCVD"
    <2>1. y = [x EXCEPT !.ecnState = "IDLE"]
      BY <1>1 DEF CwrEvent
    <2>q. QED
      BY <1>1, <2>1, ZenonT(60)
         DEF Socket, EcnStates, SameCounts, SameOut, SameIn, SameEcho, NoneDelayed
  <1>2. CASE ~(p.cwr /\ x.ecnState # "CE_RCVD")
    <2>1. y = x
      BY <1>2 DEF CwrEvent
    <2>q. QED
      BY <1>2, <2>1 DEF SameCounts, SameOut, SameIn, SameEcho, NoneDelayed
  <1>q. QED
    BY <1>1, <1>2

LEMMA CwrEventFit ==
  ASSUME NEW x, NEW r, NEW u, Fit(x, r, u), NEW p \in Segment, NEW y, y = CwrEvent(x, p)
  PROVE  Fit(y, r, u)
  <1>1. x \in Socket /\ x.prior <= x.nextRx /\ x.delAckCount <= DelAckMax
    BY DEF Fit, Accounts
  <1>2. /\ y \in Socket /\ SameCounts(x, y) /\ SameOut(x, y) /\ SameIn(x, y) /\ SameEcho(x, y)
        /\ y.delAckCount = x.delAckCount /\ y.wire = x.wire
    BY <1>1, CwrEventEffect
  <1>3. y.nextRx = x.nextRx /\ y.prior <= y.nextRx /\ y.delAckCount <= DelAckMax
    BY <1>1, <1>2 DEF SameIn, SameEcho
  <1>q. QED
    BY <1>2, <1>3, SameFit

(* Acknowledgements change only what the sender counts, and the echo state. *)
SenderOnly(x, y) ==
  /\ y \in Socket
  /\ SameOut(x, y) /\ SameIn(x, y) /\ SameEcho(x, y) /\ NoneDelayed(x, y)
  /\ y.delAckCount = x.delAckCount /\ y.wire = x.wire

LEMMA SenderOnlyTwice ==
  ASSUME NEW x, NEW y, NEW z, SenderOnly(x, y), SenderOnly(y, z)
  PROVE  SenderOnly(x, z)
  BY DEF SenderOnly, SameOut, SameIn, SameEcho, NoneDelayed

(* An echo is taken notice of when it acknowledges something new. *)
EchoTaken(x, p, y) ==
  /\ SenderOnly(x, y)
  /\ y.una = x.una /\ y.ackedTotal = x.ackedTotal /\ y.ackedEcn = x.ackedEcn
  /\ y.from = x.from /\ y.nextSeq = x.nextSeq
  /\ y.ecnEchoSeq \in {x.ecnEchoSeq, p.ack}
  /\ p.ack <= x.una /\ x.ecnState # "ECE_RCVD" => y.ecnState = x.ecnState

LEMMA EchoEventEffect ==
  ASSUME NEW x \in Socket, NEW p \in Segment, NEW y, y = EchoEvent(x, p)
  PROVE  EchoTaken(x, p, y)
  <1>1. p.ack \in Nat /\ x.una \in Nat
    BY DEF Segment, Socket
  <1>2. ASSUME y = [x EXCEPT !.ecnEchoSeq = p.ack, !.ecnState = "ECE_RCVD"], p.ack > x.una
        PROVE  EchoTaken(x, p, y)
    <2>1. /\ y \in Socket /\ y.wire = x.wire /\ y.delAckCount = x.delAckCount
          /\ SameOut(x, y) /\ SameIn(x, y) /\ SameEcho(x, y) /\ NoneDelayed(x, y)
      BY <1>1, <1>2, ZenonT(60)
         DEF Socket, EcnStates, SameOut, SameIn, SameEcho, NoneDelayed
    <2>2. /\ y.una = x.una /\ y.ackedTotal = x.ackedTotal /\ y.ackedEcn = x.ackedEcn
          /\ y.from = x.from /\ y.nextSeq = x.nextSeq /\ y.ecnEchoSeq = p.ack
      BY <1>2 DEF Socket
    <2>q. QED
      BY <1>1, <1>2, <2>1, <2>2 DEF EchoTaken, SenderOnly
  <1>3. ASSUME y = [x EXCEPT !.ecnState = "IDLE"], x.ecnState = "ECE_RCVD"
        PROVE  EchoTaken(x, p, y)
    <2>1. /\ y \in Socket /\ y.wire = x.wire /\ y.delAckCount = x.delAckCount
          /\ SameOut(x, y) /\ SameIn(x, y) /\ SameEcho(x, y) /\ NoneDelayed(x, y)
      BY <1>3, ZenonT(60) DEF Socket, EcnStates, SameOut, SameIn, SameEcho, NoneDelayed
    <2>2. /\ y.una = x.una /\ y.ackedTotal = x.ackedTotal /\ y.ackedEcn = x.ackedEcn
          /\ y.from = x.from /\ y.nextSeq = x.nextSeq /\ y.ecnEchoSeq = x.ecnEchoSeq
      BY <1>3 DEF Socket
    <2>q. QED
      BY <1>3, <2>1, <2>2 DEF EchoTaken, SenderOnly
  <1>4. ASSUME y = x PROVE EchoTaken(x, p, y)
    BY <1>4 DEF EchoTaken, SenderOnly, SameOut, SameIn, SameEcho, NoneDelayed
  <1>q. QED
    BY <1>2, <1>3, <1>4 DEF EchoEvent

(* PktsAcked counts n segments, and may begin the next window. *)
WindowCounted(x, n, y) ==
  /\ SenderOnly(x, y)
  /\ y.una = x.una /\ y.ecnEchoSeq = x.ecnEchoSeq /\ y.ecnState = x.ecnState
  /\ y.nextSeq \in {x.nextSeq, x.nextTx}
  /\ \/ /\ y.ackedTotal = x.ackedTotal + n /\ y.from = x.from
        /\ y.ackedEcn \in {x.ackedEcn, x.ackedEcn + n}
     \/ y.ackedTotal = 0 /\ y.ackedEcn = 0 /\ y.from = x.una

LEMMA PktsAckedEffect ==
  ASSUME NEW x \in Socket, NEW n \in Nat, NEW y, y = PktsAcked(x, n)
  PROVE  WindowCounted(x, n, y)
  <1> DEFINE edge == IF x.nextSeq = 0 THEN x.nextTx ELSE x.nextSeq
             ecn  == x.ackedEcn + (IF x.ecnState = "ECE_RCVD" THEN n ELSE 0)
             z    == [x EXCEPT !.ackedTotal = x.ackedTotal + n, !.ackedEcn = ecn,
                               !.nextSeq = edge]
  <1>1. y = IF x.una >= edge
            THEN [z EXCEPT !.nextSeq = z.nextTx, !.ackedTotal = 0, !.ackedEcn = 0,
                           !.from = z.una]
            ELSE z
    BY DEF PktsAcked, Reset
  <1>2. /\ {x.ackedTotal, x.ackedEcn, x.nextTx, x.nextSeq, x.una} \subseteq Nat
    BY SocketFacts
  <1>3. /\ edge \in {x.nextSeq, x.nextTx} /\ edge \in Nat
        /\ ecn \in {x.ackedEcn, x.ackedEcn + n} /\ ecn \in Nat
        /\ x.ackedTotal + n \in Nat
    BY <1>2
  <1> HIDE DEF edge, ecn
  <1>4. /\ z \in Socket /\ z.wire = x.wire /\ z.delAckCount = x.delAckCount
        /\ SameOut(x, z) /\ SameIn(x, z) /\ SameEcho(x, z) /\ NoneDelayed(x, z)
    BY <1>3 DEF Socket, SameOut, SameIn, SameEcho, NoneDelayed
  <1>5. /\ z.una = x.una /\ z.ecnEchoSeq = x.ecnEchoSeq /\ z.ecnState = x.ecnState
        /\ z.nextSeq = edge /\ z.ackedTotal = x.ackedTotal + n /\ z.from = x.from
        /\ z.ackedEcn = ecn /\ z.nextTx = x.nextTx
    BY DEF Socket
  <1> HIDE DEF z
  <1>6. CASE y = z
    BY <1>3, <1>4, <1>5, <1>6 DEF WindowCounted, SenderOnly
  <1>7. CASE y = [z EXCEPT !.nextSeq = z.nextTx, !.ackedTotal = 0, !.ackedEcn = 0,
                           !.from = z.una]
    <2>1. z.nextTx \in Nat /\ z.una \in Nat
      BY <1>2, <1>5
    <2>2. /\ y \in Socket /\ y.wire = z.wire /\ y.delAckCount = z.delAckCount
          /\ SameOut(z, y) /\ SameIn(z, y) /\ SameEcho(z, y) /\ NoneDelayed(z, y)
      <3>1. z \in Socket
        BY <1>4
      <3>2. [z EXCEPT !.nextSeq = z.nextTx, !.ackedTotal = 0, !.ackedEcn = 0, !.from = z.una]
              \in Socket
        BY <2>1, <3>1 DEF Socket
      <3>3. /\ y.wire = z.wire /\ y.delAckCount = z.delAckCount
            /\ SameOut(z, y) /\ SameIn(z, y) /\ SameEcho(z, y) /\ NoneDelayed(z, y)
        BY <1>7, <3>1 DEF Socket, SameOut, SameIn, SameEcho, NoneDelayed
      <3>q. QED
        BY <1>7, <3>2, <3>3
    <2>3. /\ y.una = z.una /\ y.ecnEchoSeq = z.ecnEchoSeq /\ y.ecnState = z.ecnState
          /\ y.nextSeq = z.nextTx /\ y.ackedTotal = 0 /\ y.from = z.una /\ y.ackedEcn = 0
      BY <1>4, <1>7 DEF Socket
    <2>4. SenderOnly(x, y)
      BY <1>4, <2>2, SenderOnlyTwice DEF SenderOnly
    <2>q. QED
      BY <1>5, <2>3, <2>4 DEF WindowCounted
  <1>q. QED
    BY <1>1, <1>6, <1>7

(* ReceivedAck: una moves, and what it moves by is counted. *)
AckTaken(x, p, y) ==
  /\ SenderOnly(x, y)
  /\ y.una = p.ack /\ y.ecnEchoSeq \in {x.ecnEchoSeq, p.ack}
  /\ y.nextSeq \in {x.nextSeq, x.nextTx}
  /\ \/ /\ y.ackedTotal = x.ackedTotal + NAcked(x, p) /\ y.from = x.from
        /\ y.ackedEcn \in {x.ackedEcn, x.ackedEcn + NAcked(x, p)}
     \/ y.ackedTotal = 0 /\ y.ackedEcn = 0 /\ y.from = p.ack
  /\ p.ack <= x.una /\ x.ecnState # "ECE_RCVD" => y.ecnState = x.ecnState

LEMMA NAckedIs ==
  ASSUME NEW x \in Socket, NEW p \in Segment
  PROVE  NAcked(x, p) \in Nat /\ p.ack <= x.una + NAcked(x, p)
  <1>1. {p.ack, x.una, x.nextTx} \subseteq Nat
    BY DEF Socket, Segment
  <1>q. QED
    BY <1>1 DEF NAcked

LEMMA ReceivedAckEffect ==
  ASSUME NEW x \in Socket, NEW p \in Segment, NEW y, y = ReceivedAck(x, p)
  PROVE  AckTaken(x, p, y)
  <1> DEFINE e == EchoEvent(x, p)
             z == [e EXCEPT !.una = p.ack]
             n == NAcked(x, p)
  <1>1. y = IF n = 0 THEN z ELSE PktsAcked(z, n)
    BY DEF ReceivedAck
  <1>2. n \in Nat /\ p.ack \in Nat /\ {x.ackedTotal, x.ackedEcn} \subseteq Nat
    BY NAckedIs, SocketFacts DEF Segment
  <1>3. EchoTaken(x, p, e)
    BY EchoEventEffect
  <1> HIDE DEF e
  <1>4. SenderOnly(e, z) /\ z \in Socket
    <2>1. e \in Socket
      BY <1>3 DEF EchoTaken, SenderOnly
    <2>2. /\ z \in Socket /\ z.wire = e.wire /\ z.delAckCount = e.delAckCount
          /\ SameOut(e, z) /\ SameIn(e, z) /\ SameEcho(e, z) /\ NoneDelayed(e, z)
      BY <1>2, <2>1 DEF Socket, SameOut, SameIn, SameEcho, NoneDelayed
    <2>q. QED
      BY <2>2 DEF SenderOnly
  <1>5. /\ z.una = p.ack /\ z.ecnEchoSeq = e.ecnEchoSeq /\ z.ecnState = e.ecnState
        /\ z.nextSeq = e.nextSeq /\ z.ackedTotal = e.ackedTotal /\ z.from = e.from
        /\ z.ackedEcn = e.ackedEcn
    BY <1>3 DEF Socket, EchoTaken, SenderOnly
  <1> HIDE DEF z, n
  <1>6. SenderOnly(x, z)
    BY <1>3, <1>4, SenderOnlyTwice DEF EchoTaken
  <1>7. CASE n = 0
    <2>1. /\ z.ackedTotal = x.ackedTotal + n /\ z.ackedEcn = x.ackedEcn /\ z.from = x.from
          /\ z.nextSeq = x.nextSeq
      BY <1>2, <1>3, <1>5, <1>7 DEF EchoTaken
    <2>q. QED
      BY <1>1, <1>3, <1>5, <1>6, <1>7, <2>1 DEF AckTaken, EchoTaken, n
  <1>8. CASE n # 0
    <2>1. WindowCounted(z, n, y)
      BY <1>1, <1>2, <1>4, <1>8, PktsAckedEffect
    <2>2. SenderOnly(x, y)
      BY <1>6, <2>1, SenderOnlyTwice DEF WindowCounted
    <2>3. z.nextTx = x.nextTx
      BY <1>6 DEF SenderOnly, SameOut
    <2>4. /\ y.una = p.ack /\ y.ecnEchoSeq \in {x.ecnEchoSeq, p.ack}
          /\ y.nextSeq \in {x.nextSeq, x.nextTx}
          /\ p.ack <= x.una /\ x.ecnState # "ECE_RCVD" => y.ecnState = x.ecnState
      BY <1>3, <1>5, <2>1, <2>3 DEF WindowCounted, EchoTaken
    <2>5. \/ /\ y.ackedTotal = x.ackedTotal + n /\ y.from = x.from
             /\ y.ackedEcn \in {x.ackedEcn, x.ackedEcn + n}
          \/ y.ackedTotal = 0 /\ y.ackedEcn = 0 /\ y.from = p.ack
      BY <1>3, <1>5, <2>1 DEF WindowCounted, EchoTaken
    <2>q. QED
      BY <2>2, <2>4, <2>5 DEF AckTaken, n
  <1>q. QED
    BY <1>7, <1>8

LEMMA ReceivedAckFit ==
  ASSUME NEW x, NEW r \in Nat, NEW u \in Nat, Fit(x, r, u),
         NEW p \in Segment, x.una <= p.ack, NEW y, y = ReceivedAck(x, p)
  PROVE  Fit(y, r, u)
  <1>1. /\ x \in Socket
        /\ {x.una, x.from, x.ackedTotal, x.ackedEcn, x.ecnEchoSeq, x.nextSeq, x.nextTx} \subseteq Nat
        /\ p.ack \in Nat
    BY SocketFacts DEF Fit, Accounts, Segment
  <1>2. AckTaken(x, p, y)
    BY <1>1, ReceivedAckEffect
  <1>3. NAcked(x, p) \in Nat /\ p.ack <= x.una + NAcked(x, p)
    BY <1>1, NAckedIs
  <1>4. /\ 1 <= x.from /\ x.from <= x.una /\ x.ackedEcn <= x.ackedTotal
        /\ x.una <= x.ackedTotal + x.from /\ x.ecnEchoSeq <= x.una /\ x.nextSeq <= x.nextTx
    BY DEF Fit, Accounts
  <1>5. /\ 1 <= y.from /\ y.from <= y.una /\ y.ackedEcn <= y.ackedTotal
        /\ y.una <= y.ackedTotal + y.from
    <2>1. CASE /\ y.ackedTotal = x.ackedTotal + NAcked(x, p) /\ y.from = x.from
               /\ y.ackedEcn \in {x.ackedEcn, x.ackedEcn + NAcked(x, p)}
      <3>1. y.una = p.ack
        BY <1>2 DEF AckTaken
      <3>q. QED
        BY <1>1, <1>3, <1>4, <2>1, <3>1
    <2>2. CASE y.ackedTotal = 0 /\ y.ackedEcn = 0 /\ y.from = p.ack
      <3>1. y.una = p.ack
        BY <1>2 DEF AckTaken
      <3>q. QED
        BY <1>1, <1>4, <2>2, <3>1
    <2>q. QED
      BY <1>2, <2>1, <2>2 DEF AckTaken
  <1>6. /\ y.ecnEchoSeq <= y.una /\ y.nextSeq <= y.nextTx
    <2>1. y.una = p.ack /\ y.ecnEchoSeq \in {x.ecnEchoSeq, p.ack}
          /\ y.nextSeq \in {x.nextSeq, x.nextTx} /\ y.nextTx = x.nextTx
      BY <1>2 DEF AckTaken, SenderOnly, SameOut
    <2>q. QED
      BY <1>1, <1>4, <2>1
  <1>7. /\ y \in Socket /\ y.nextTx = x.nextTx /\ y.ecnCWRSeq = x.ecnCWRSeq
        /\ y.nextRx = x.nextRx /\ y.prior = x.prior /\ y.delAckCount = x.delAckCount
        /\ y.wire = x.wire
    BY <1>2 DEF AckTaken, SenderOnly, SameOut, SameIn, SameEcho
  <1>8. /\ x.ecnCWRSeq <= x.nextTx /\ x.nextTx <= NSegs + 1
        /\ x.prior <= x.nextRx /\ x.delAckCount <= DelAckMax
        /\ Stream(x.wire, r, x.nextTx, u, x.nextRx)
    BY DEF Fit, Accounts
  <1>9. /\ y.ecnCWRSeq <= y.nextTx /\ y.nextTx <= NSegs + 1
        /\ y.prior <= y.nextRx /\ y.delAckCount <= DelAckMax
        /\ Stream(y.wire, r, y.nextTx, u, y.nextRx)
    BY <1>7, <1>8
  <1>q. QED
    BY <1>5, <1>6, <1>7, <1>9 DEF Fit, Accounts

(* ReceivedData: a segment is in sequence; it is acknowledged, with the echo *)
(* that is due, or its acknowledgement is delayed.                           *)
DataTaken(x, y) ==
  /\ y \in Socket
  /\ SameCounts(x, y) /\ SameOut(x, y) /\ SameEcho(x, y)
  /\ y.nextRx = x.nextRx + 1 /\ y.marked = x.marked
  /\ y.delAckCount <= DelAckMax
  /\ \/ y.wire = x.wire /\ y.ecnState = x.ecnState
     \/ /\ y.wire = Append(x.wire, EmptyAck(x, x.nextRx + 1, x.ecnState \in Echoing))
        /\ y.ecnState = IF x.ecnState \in Echoing THEN "SENDING_ECE" ELSE x.ecnState

LEMMA ReceivedDataEffect ==
  ASSUME NEW x \in Socket, NEW y, y = ReceivedData(x)
  PROVE  DataTaken(x, y)
  <1> DEFINE b == [x EXCEPT !.nextRx = x.nextRx + 1, !.delAckCount = x.delAckCount + 1]
             c == [b EXCEPT !.delAckCount = 0, !.delAckTimer = FALSE,
                            !.delayedAckReserved = FALSE]
  <1>1. y = IF b.delAckCount >= DelAckMax THEN Acknowledge(c) ELSE Delayed(b)
    BY DEF ReceivedData
  <1>2. x.nextRx + 1 \in Nat /\ x.delAckCount + 1 \in Nat /\ DelAckMax \in Nat
    BY SocketFacts, FeedbackAssumption DEF FeedbackAssumption
  <1>3. /\ b \in Socket /\ SameCounts(x, b) /\ SameOut(x, b) /\ SameEcho(x, b)
        /\ b.nextRx = x.nextRx + 1 /\ b.marked = x.marked /\ b.wire = x.wire
        /\ b.ecnState = x.ecnState /\ b.delAckCount \in Nat
    BY <1>2 DEF Socket, SameCounts, SameOut, SameEcho
  <1> HIDE DEF b
  <1>4. CASE b.delAckCount >= DelAckMax
    <2>1. /\ c \in Socket /\ SameCounts(b, c) /\ SameOut(b, c) /\ SameIn(b, c)
          /\ SameEcho(b, c) /\ c.wire = b.wire /\ c.ecnState = b.ecnState
      BY <1>3 DEF Socket, SameCounts, SameOut, SameIn, SameEcho
    <2> HIDE DEF c
    <2>2. y = Acknowledge(c)
      BY <1>1, <1>4
    <2>3. /\ y \in Socket
          /\ SameCounts(c, y) /\ SameOut(c, y) /\ SameIn(c, y) /\ SameEcho(c, y)
          /\ y.delAckCount = 0
          /\ y.ecnState = (IF c.ecnState \in Echoing THEN "SENDING_ECE" ELSE c.ecnState)
          /\ y.wire = Append(c.wire, EmptyAck(c, c.nextRx, c.ecnState \in Echoing))
      BY <2>1, <2>2, AcknowledgeEffect
    <2>4. c.nextRx = x.nextRx + 1 /\ c.nextTx = x.nextTx /\ c.ecnState = x.ecnState
      BY <1>3, <2>1 DEF SameIn, SameOut
    <2>5. EmptyAck(c, c.nextRx, c.ecnState \in Echoing)
            = EmptyAck(x, x.nextRx + 1, x.ecnState \in Echoing)
      BY <2>4 DEF EmptyAck
    <2>6. SameCounts(x, y) /\ SameOut(x, y) /\ SameEcho(x, y) /\ y.marked = x.marked
      BY <1>3, <2>1, <2>3 DEF SameCounts, SameOut, SameIn, SameEcho
    <2>7. y.nextRx = x.nextRx + 1 /\ y.delAckCount <= DelAckMax
      BY <1>2, <2>3, <2>4 DEF SameIn
    <2>8. /\ y.wire = Append(x.wire, EmptyAck(x, x.nextRx + 1, x.ecnState \in Echoing))
          /\ y.ecnState = IF x.ecnState \in Echoing THEN "SENDING_ECE" ELSE x.ecnState
      BY <1>3, <2>1, <2>3, <2>4, <2>5
    <2>q. QED
      BY <2>3, <2>6, <2>7, <2>8 DEF DataTaken
  <1>5. CASE ~(b.delAckCount >= DelAckMax)
    <2>1. y = [b EXCEPT !.delayedAckReserved = TRUE, !.delAckTimer = TRUE]
      BY <1>1, <1>5 DEF Delayed
    <2>2. /\ y \in Socket /\ SameCounts(b, y) /\ SameOut(b, y) /\ SameIn(b, y)
          /\ SameEcho(b, y) /\ y.wire = b.wire /\ y.ecnState = b.ecnState
          /\ y.delAckCount = b.delAckCount
      BY <1>3, <2>1 DEF Socket, SameCounts, SameOut, SameIn, SameEcho
    <2>3. y.delAckCount <= DelAckMax
      BY <1>2, <1>3, <1>5, <2>2
    <2>q. QED
      BY <1>3, <2>2, <2>3 DEF DataTaken, SameCounts, SameOut, SameIn, SameEcho
  <1>q. QED
    BY <1>4, <1>5

LEMMA ReceivedDataFit ==
  ASSUME NEW x, NEW r \in Nat, NEW u \in Nat, Fit(x, r, u), NEW y, y = ReceivedData(x)
  PROVE  Fit(y, r, u)
  <1>1. /\ x \in Socket /\ {x.nextTx, x.nextRx, x.prior} \subseteq Nat
        /\ x.prior <= x.nextRx /\ Stream(x.wire, r, x.nextTx, u, x.nextRx)
    BY SocketFacts DEF Fit, Accounts
  <1>2. DataTaken(x, y)
    BY <1>1, ReceivedDataEffect
  <1>3. /\ y \in Socket /\ SameCounts(x, y) /\ SameOut(x, y) /\ y.delAckCount <= DelAckMax
        /\ y.prior = x.prior /\ y.nextRx = x.nextRx + 1
    BY <1>2 DEF DataTaken, SameEcho
  <1>4. y.prior <= y.nextRx
    BY <1>1, <1>3
  <1>5. Accounts(y)
    BY <1>3, <1>4, AccountsKept DEF Fit
  <1>6. x.nextRx + 1 \in Nat /\ x.nextRx <= x.nextRx + 1
    BY <1>1
  <1>7. Stream(x.wire, r, x.nextTx, u, x.nextRx + 1)
    BY <1>1, <1>6, StreamGrow
  <1>8. Stream(y.wire, r, x.nextTx, u, x.nextRx + 1)
    <2> DEFINE s == EmptyAck(x, x.nextRx + 1, x.ecnState \in Echoing)
    <2>1. CASE y.wire = x.wire
      BY <1>7, <2>1
    <2>2. CASE y.wire = Append(x.wire, s)
      <3>1. s \in Segment /\ s.seq = x.nextTx /\ s.ack = x.nextRx + 1 /\ s.data = FALSE
        BY <1>1, <1>6 DEF EmptyAck, Segment
      <3> HIDE DEF s
      <3>2. Length(s) = 0
        BY <3>1, LengthIs
      <3>3. s.ack \in 1..x.nextRx + 1
        BY <1>1, <3>1
      <3>4. Stream(Append(x.wire, s), r, x.nextTx + Length(s), u, x.nextRx + 1)
        BY <1>1, <1>6, <1>7, <3>1, <3>3, StreamAppend
      <3>5. x.nextTx + Length(s) = x.nextTx
        BY <1>1, <3>2
      <3>q. QED
        BY <2>2, <3>4, <3>5
    <2>q. QED
      BY <1>2, <2>1, <2>2 DEF DataTaken
  <1>q. QED
    BY <1>3, <1>5, <1>8 DEF Fit, SameOut

(* SendPendingData: n segments of data, the window possibly reduced. *)
Burst(x, n) ==
  [i \in 1..n |-> [seq |-> x.nextTx + i - 1, data |-> TRUE, ack |-> x.nextRx,
                   ece |-> FALSE, cwr |-> i = 1 /\ MustReduce(x)]]

DataSent(x, n, y) ==
  /\ y \in Socket
  /\ SameCounts(x, y) /\ SameIn(x, y) /\ SameEcho(x, y)
  /\ NoneDelayed(x, y) /\ y.delAckCount \in {x.delAckCount, 0}
  /\ y.nextTx = x.nextTx + n
  /\ \/ y.ecnCWRSeq = x.ecnCWRSeq
     \/ y.ecnCWRSeq = x.nextTx /\ x.ecnEchoSeq > x.ecnCWRSeq
  /\ n = 0 => y = x
  /\ n # 0 => y.wire = x.wire \o Burst(x, n)

LEMMA BurstIs ==
  ASSUME NEW x \in Socket, NEW n \in Nat
  PROVE  /\ Burst(x, n) \in Seq(Segment) /\ Len(Burst(x, n)) = n
         /\ IsBurst(Burst(x, n), x.nextTx, x.nextRx)
         /\ \A i \in 1..n : Burst(x, n)[i].ece = FALSE
  <1>1. x.nextTx \in Nat /\ x.nextRx \in Nat
    BY SocketFacts
  <1>2. ASSUME NEW i \in 1..n
        PROVE  [seq |-> x.nextTx + i - 1, data |-> TRUE, ack |-> x.nextRx,
                ece |-> FALSE, cwr |-> i = 1 /\ MustReduce(x)] \in Segment
    <2>1. x.nextTx + i - 1 \in Nat
      BY <1>1
    <2>2. (i = 1 /\ MustReduce(x)) \in BOOLEAN
      OBVIOUS
    <2>q. QED
      BY <1>1, <2>1, <2>2 DEF Segment
  <1>3. Burst(x, n) \in Seq(Segment) /\ Len(Burst(x, n)) = n
    BY <1>2 DEF Burst
  <1>4. \A i \in 1..n :
          /\ Burst(x, n)[i].seq = x.nextTx + i - 1 /\ Burst(x, n)[i].data = TRUE
          /\ Burst(x, n)[i].ack = x.nextRx /\ Burst(x, n)[i].ece = FALSE
    BY DEF Burst
  <1>q. QED
    BY <1>3, <1>4 DEF IsBurst

LEMMA SendPendingEffect ==
  ASSUME NEW x \in Socket, NEW n \in Nat, NEW y, y = SendPendingData(x, n)
  PROVE  DataSent(x, n, y)
  <1>1. x.nextTx \in Nat /\ x.nextTx + n \in Nat /\ x.wire \in Seq(Segment)
    BY SocketFacts
  <1>2. CASE n = 0
    <2>1. y = x
      BY <1>2 DEF SendPendingData
    <2>q. QED
      BY <1>1, <1>2, <2>1 DEF DataSent, SameCounts, SameIn, SameEcho, NoneDelayed
  <1>3. CASE n # 0
    <2> DEFINE st == IF MustReduce(x) THEN "CWR_SENT" ELSE x.ecnState
               cw == IF MustReduce(x) THEN x.nextTx ELSE x.ecnCWRSeq
               w  == x.wire \o Burst(x, n)
    <2>1. y = [x EXCEPT !.delAckTimer = FALSE, !.delAckCount = 0, !.ecnState = st,
                        !.ecnCWRSeq = cw, !.wire = w, !.nextTx = x.nextTx + n]
      BY <1>3 DEF SendPendingData, Burst
    <2>2. st \in EcnStates /\ cw \in Nat
      BY <1>1, SocketFacts DEF EcnStates
    <2>3. w \in Seq(Segment)
      <3>1. Burst(x, n) \in Seq(Segment)
        BY BurstIs
      <3>q. QED
        BY <1>1, <3>1
    <2>4. \/ cw = x.ecnCWRSeq
          \/ cw = x.nextTx /\ x.ecnEchoSeq > x.ecnCWRSeq
      BY DEF MustReduce
    <2> HIDE DEF st, cw, w
    <2>5. [x EXCEPT !.delAckTimer = FALSE, !.delAckCount = 0, !.ecnState = st,
                    !.ecnCWRSeq = cw, !.wire = w, !.nextTx = x.nextTx + n] \in Socket
      BY <1>1, <2>2, <2>3 DEF Socket
    <2>6. /\ SameCounts(x, y) /\ SameIn(x, y) /\ SameEcho(x, y) /\ NoneDelayed(x, y)
          /\ y.delAckCount = 0 /\ y.nextTx = x.nextTx + n /\ y.ecnCWRSeq = cw /\ y.wire = w
      BY <2>1 DEF Socket, SameCounts, SameIn, SameEcho, NoneDelayed
    <2>q. QED
      BY <1>3, <2>1, <2>4, <2>5, <2>6 DEF DataSent, w
  <1>q. QED
    BY <1>2, <1>3

LEMMA SendPendingFit ==
  ASSUME NEW e, NEW x, NEW r \in Nat, NEW u \in Nat, Fit(x, r, u),
         NEW n \in Sendable(e, x), NEW y, y = SendPendingData(x, n)
  PROVE  Fit(y, r, u) /\ n \in Nat
  <1>1. /\ x \in Socket /\ {x.nextTx, x.nextRx, x.prior, x.ecnCWRSeq, x.nextSeq} \subseteq Nat
        /\ x.prior <= x.nextRx /\ x.delAckCount <= DelAckMax
        /\ x.ecnCWRSeq <= x.nextTx /\ x.nextSeq <= x.nextTx /\ x.nextTx <= NSegs + 1
        /\ Stream(x.wire, r, x.nextTx, u, x.nextRx)
    BY SocketFacts DEF Fit, Accounts
  <1>2. /\ n \in Nat /\ (n = 0 \/ x.nextTx + n <= NSegs + 1)
        /\ DelAckMax \in Nat /\ NSegs \in Nat
    BY FeedbackAssumption DEF FeedbackAssumption, Sendable
  <1>3. DataSent(x, n, y)
    BY <1>1, <1>2, SendPendingEffect
  <1>4. CASE n = 0
    BY <1>2, <1>3, <1>4 DEF DataSent
  <1>5. CASE n # 0
    <2>1. Stream(x.wire \o Burst(x, n), r, x.nextTx + n, u, x.nextRx)
      BY <1>1, <1>2, <1>5, BurstIs, StreamBurst
    <2>2. /\ y \in Socket /\ SameCounts(x, y) /\ y.nextTx = x.nextTx + n
          /\ y.nextRx = x.nextRx /\ y.prior = x.prior
          /\ y.delAckCount \in {x.delAckCount, 0} /\ y.ecnCWRSeq \in {x.ecnCWRSeq, x.nextTx}
          /\ y.wire = x.wire \o Burst(x, n)
      BY <1>3, <1>5 DEF DataSent, SameIn, SameEcho
    <2>3. Stream(y.wire, r, y.nextTx, u, y.nextRx)
      BY <2>1, <2>2
    <2>4. /\ y.prior <= y.nextRx /\ y.delAckCount <= DelAckMax
          /\ y.ecnCWRSeq <= y.nextTx /\ y.nextTx <= NSegs + 1 /\ x.nextSeq <= y.nextTx
      BY <1>1, <1>2, <1>5, <2>2, SMTT(40)
    <2>5. Accounts(y)
      BY <2>2, <2>4 DEF Fit, Accounts, SameCounts
    <2>q. QED
      BY <1>2, <2>3, <2>5 DEF Fit
  <1>q. QED
    BY <1>4, <1>5

-----------------------------------------------------------------------------
(* The arrival of a segment                                                  *)

(* What Receive makes of the socket s when the segment p arrives: x after    *)
(* the IP header and the flags, y after the acknowledgement, z after the     *)
(* data, and n segments are sent.                                            *)
Steps(e, s, p, ce, x, y, z, n, v) ==
  /\ x = CwrEvent(CeEvent(s, p, ce), p)
  /\ y = IF p.ack < x.una THEN x ELSE ReceivedAck(x, p)
  /\ z = IF p.data /\ p.ack >= x.una THEN ReceivedData(y) ELSE y
  /\ n \in IF p.ack < x.una THEN {0} ELSE Sendable(e, z)
  /\ v = [SendPendingData(z, n) EXCEPT !.marked = IF p.data /\ ce THEN @ \cup {p.seq} ELSE @]

Arrives(e, s, p, ce, v) == \E x, y, z, n : Steps(e, s, p, ce, x, y, z, n, v)

LEMMA PeerIs ==
  ASSUME NEW e \in Ends
  PROVE  Peer(e) \in Ends /\ Peer(e) # e /\ Peer(Peer(e)) = e
  BY DEF Peer, Ends

LEMMA ReceiveIs ==
  ASSUME NEW e \in Ends, NEW ce \in BOOLEAN, Receive(e, ce),
         sock \in [Ends -> Socket]
  PROVE  \E v : /\ Arrives(e, sock[e], Head(sock[Peer(e)].wire), ce, v)
                /\ sock[Peer(e)].wire # <<>>
                /\ sock'[e] = v
                /\ sock' = [[sock EXCEPT ![Peer(e)].wire = Tail(@)] EXCEPT ![e] = v]
  <1>0. PICK p \in {Head(sock[Peer(e)].wire)} :
          \E x \in {CwrEvent(CeEvent(sock[e], p, ce), p)} :
          \E y \in {IF p.ack < x.una THEN x ELSE ReceivedAck(x, p)} :
          \E z \in {IF p.data /\ p.ack >= x.una THEN ReceivedData(y) ELSE y} :
          \E n \in (IF p.ack < x.una THEN {0} ELSE Sendable(e, z)) :
            sock' = [sock EXCEPT
              ![Peer(e)].wire = Tail(@),
              ![e] = [SendPendingData(z, n) EXCEPT
                        !.marked = IF p.data /\ ce THEN @ \cup {p.seq} ELSE @]]
    BY Zenon DEF Receive
  <1>1. PICK x \in {CwrEvent(CeEvent(sock[e], p, ce), p)} :
          \E y \in {IF p.ack < x.una THEN x ELSE ReceivedAck(x, p)} :
          \E z \in {IF p.data /\ p.ack >= x.una THEN ReceivedData(y) ELSE y} :
          \E n \in (IF p.ack < x.una THEN {0} ELSE Sendable(e, z)) :
            sock' = [sock EXCEPT
              ![Peer(e)].wire = Tail(@),
              ![e] = [SendPendingData(z, n) EXCEPT
                        !.marked = IF p.data /\ ce THEN @ \cup {p.seq} ELSE @]]
    BY <1>0
  <1>a. PICK y \in {IF p.ack < x.una THEN x ELSE ReceivedAck(x, p)} :
          \E z \in {IF p.data /\ p.ack >= x.una THEN ReceivedData(y) ELSE y} :
          \E n \in (IF p.ack < x.una THEN {0} ELSE Sendable(e, z)) :
            sock' = [sock EXCEPT
              ![Peer(e)].wire = Tail(@),
              ![e] = [SendPendingData(z, n) EXCEPT
                        !.marked = IF p.data /\ ce THEN @ \cup {p.seq} ELSE @]]
    BY <1>1
  <1>b. PICK z \in {IF p.data /\ p.ack >= x.una THEN ReceivedData(y) ELSE y} :
          \E n \in (IF p.ack < x.una THEN {0} ELSE Sendable(e, z)) :
            sock' = [sock EXCEPT
              ![Peer(e)].wire = Tail(@),
              ![e] = [SendPendingData(z, n) EXCEPT
                        !.marked = IF p.data /\ ce THEN @ \cup {p.seq} ELSE @]]
    BY <1>a
  <1>c. PICK n \in (IF p.ack < x.una THEN {0} ELSE Sendable(e, z)) :
          sock' = [sock EXCEPT
            ![Peer(e)].wire = Tail(@),
            ![e] = [SendPendingData(z, n) EXCEPT
                      !.marked = IF p.data /\ ce THEN @ \cup {p.seq} ELSE @]]
    BY <1>b
  <1> DEFINE v == [SendPendingData(z, n) EXCEPT
                     !.marked = IF p.data /\ ce THEN @ \cup {p.seq} ELSE @]
  <1>2. Arrives(e, sock[e], p, ce, v)
    <2>1. Steps(e, sock[e], p, ce, x, y, z, n, v)
      BY DEF Steps
    <2>q. QED
      BY <2>1 DEF Arrives
  <1>3. sock' = [[sock EXCEPT ![Peer(e)].wire = Tail(@)] EXCEPT ![e] = v]
    BY <1>c
  <1>4. sock'[e] = v
    <2> HIDE DEF v
    <2>q. QED
      BY <1>3
  <1>5. sock[Peer(e)].wire # <<>>
    BY DEF Receive
  <1>6. p = Head(sock[Peer(e)].wire)
    OBVIOUS
  <1> HIDE DEF v
  <1>q. QED
    BY <1>2, <1>3, <1>4, <1>5, <1>6

(* What a socket holds when the segment p has arrived. *)
ArrivedFit(s, p, r, u, v) ==
  /\ Fit(v, r, u)
  /\ v.nextRx = s.nextRx + Length(p)
  /\ v.una = IF p.ack < s.una THEN s.una ELSE p.ack
  /\ v.ecnCESeq \in {s.ecnCESeq, p.seq}
  /\ v.ecnCWRSeq # s.ecnCWRSeq => v.una > s.ecnCWRSeq

MarkedOnly(x, m, v) ==
  /\ v.marked = m /\ SameCounts(x, v) /\ SameOut(x, v)
  /\ SameEcho(x, v) /\ NoneDelayed(x, v) /\ v.nextRx = x.nextRx
  /\ v.ecnState = x.ecnState /\ v.wire = x.wire

LEMMA MarkedFit ==
  ASSUME NEW x, NEW r \in Nat, NEW u \in Nat, Fit(x, r, u), NEW m \in SUBSET Nat,
         NEW v, v = [x EXCEPT !.marked = m]
  PROVE  Fit(v, r, u) /\ MarkedOnly(x, m, v)
  <1>1. x \in Socket
    BY DEF Fit, Accounts
  <1>2. [x EXCEPT !.marked = m] \in Socket
    BY <1>1 DEF Socket
  <1>3. /\ v.marked = m /\ SameCounts(x, v) /\ SameOut(x, v)
        /\ SameEcho(x, v) /\ NoneDelayed(x, v) /\ v.nextRx = x.nextRx
        /\ v.ecnState = x.ecnState /\ v.wire = x.wire /\ v.delAckCount = x.delAckCount
    BY <1>1 DEF Socket, SameCounts, SameOut, SameEcho, NoneDelayed
  <1>4. v.prior <= v.nextRx /\ v.delAckCount <= DelAckMax
    BY <1>3 DEF Fit, Accounts, SameEcho
  <1>5. Fit(v, r, u)
    BY <1>2, <1>3, <1>4, SameFit
  <1>q. QED
    BY <1>3, <1>5 DEF MarkedOnly

LEMMA ArrivalFit ==
  ASSUME NEW e, NEW s, NEW r \in Nat, NEW u \in Nat, Fit(s, r, u),
         NEW p \in Segment, p.data => s.una <= p.ack,
         NEW ce \in BOOLEAN, NEW v, Arrives(e, s, p, ce, v)
  PROVE  ArrivedFit(s, p, r, u, v)
  <1>0. PICK x, y, z, n : Steps(e, s, p, ce, x, y, z, n, v)
    BY DEF Arrives
  <1>1. /\ x = CwrEvent(CeEvent(s, p, ce), p)
        /\ y = IF p.ack < x.una THEN x ELSE ReceivedAck(x, p)
        /\ z = IF p.data /\ p.ack >= x.una THEN ReceivedData(y) ELSE y
        /\ n \in IF p.ack < x.una THEN {0} ELSE Sendable(e, z)
        /\ v = [SendPendingData(z, n) EXCEPT
                  !.marked = IF p.data /\ ce THEN @ \cup {p.seq} ELSE @]
    BY <1>0 DEF Steps
  <1>2. s \in Socket /\ {s.una, s.nextRx, s.ecnCWRSeq} \subseteq Nat /\ p.ack \in Nat /\ p.seq \in Nat
    BY SocketFacts DEF Fit, Accounts, Segment
  <1> DEFINE c == CeEvent(s, p, ce)
  <1>3. /\ Fit(c, r, u) /\ c \in Socket
        /\ c.una = s.una /\ c.nextRx = s.nextRx /\ c.ecnCWRSeq = s.ecnCWRSeq
        /\ c.ecnCESeq \in {s.ecnCESeq, p.seq}
    <2>1. CeNoted(s, p, ce, c)
      BY <1>2, CeEventEffect
    <2>2. Fit(c, r, u)
      BY CeEventFit
    <2>q. QED
      BY <2>1, <2>2 DEF CeNoted, SameCounts, SameOut, SameIn, SameEcho
  <1>4. /\ Fit(x, r, u) /\ x \in Socket
        /\ x.una = s.una /\ x.nextRx = s.nextRx /\ x.ecnCWRSeq = s.ecnCWRSeq
        /\ x.ecnCESeq \in {s.ecnCESeq, p.seq}
    <2> HIDE DEF c
    <2>1. x = CwrEvent(c, p)
      BY <1>1 DEF c
    <2>2. Fit(x, r, u)
      BY <1>3, <2>1, CwrEventFit
    <2>3. /\ x \in Socket /\ SameCounts(c, x) /\ SameOut(c, x) /\ SameIn(c, x) /\ SameEcho(c, x)
      BY <1>3, <2>1, CwrEventEffect
    <2>q. QED
      BY <1>3, <2>2, <2>3 DEF SameCounts, SameOut, SameIn, SameEcho
  <1>5. /\ Fit(y, r, u) /\ y \in Socket
        /\ y.una = (IF p.ack < s.una THEN s.una ELSE p.ack)
        /\ y.nextRx = s.nextRx /\ y.ecnCWRSeq = s.ecnCWRSeq
        /\ y.ecnCESeq \in {s.ecnCESeq, p.seq}
    <2>1. CASE p.ack < x.una
      BY <1>1, <1>4, <2>1
    <2>2. CASE ~(p.ack < x.una)
      <3>1. y = ReceivedAck(x, p) /\ x.una <= p.ack
        BY <1>1, <1>2, <1>4, <2>2
      <3>2. Fit(y, r, u)
        BY <1>4, <3>1, ReceivedAckFit
      <3>3. AckTaken(x, p, y)
        BY <1>4, <3>1, ReceivedAckEffect
      <3>q. QED
        BY <1>4, <2>2, <3>2, <3>3 DEF AckTaken, SenderOnly, SameOut, SameIn, SameEcho
    <2>q. QED
      BY <2>1, <2>2
  <1>6. /\ Fit(z, r, u) /\ z \in Socket
        /\ z.una = (IF p.ack < s.una THEN s.una ELSE p.ack)
        /\ z.nextRx = s.nextRx + Length(p) /\ z.ecnCWRSeq = s.ecnCWRSeq
        /\ z.ecnCESeq \in {s.ecnCESeq, p.seq}
    <2>1. CASE p.data
      <3>1. z = ReceivedData(y)
        BY <1>1, <1>2, <1>4, <2>1
      <3>2. Fit(z, r, u)
        BY <1>5, <3>1, ReceivedDataFit
      <3>3. DataTaken(y, z)
        BY <1>5, <3>1, ReceivedDataEffect
      <3>4. Length(p) = 1
        BY <2>1 DEF Length
      <3>q. QED
        BY <1>5, <3>2, <3>3, <3>4 DEF DataTaken, SameCounts, SameOut, SameEcho
    <2>2. CASE ~p.data
      <3>1. z = y
        BY <1>1, <2>2
      <3>2. Length(p) = 0
        BY <2>2 DEF Length
      <3>q. QED
        BY <1>2, <1>5, <3>1, <3>2
    <2>q. QED
      BY <2>1, <2>2
  <1> DEFINE f == SendPendingData(z, n)
             m == IF p.data /\ ce THEN f.marked \cup {p.seq} ELSE f.marked
  <1>7. n \in Sendable(e, z)
    <2>1. 0 \in Sendable(e, z)
      BY FeedbackAssumption DEF FeedbackAssumption, Sendable
    <2>q. QED
      BY <1>1, <2>1
  <1>8. Fit(f, r, u) /\ n \in Nat
    BY <1>6, <1>7, SendPendingFit
  <1>9. DataSent(z, n, f)
    BY <1>6, <1>8, SendPendingEffect
  <1>10. v = [f EXCEPT !.marked = m]
    BY <1>1
  <1> HIDE DEF f
  <1>11. m \in SUBSET Nat
    <2>1. f.marked \subseteq Nat
      BY <1>8, SocketFacts DEF Fit, Accounts
    <2>q. QED
      BY <1>2, <2>1
  <1> HIDE DEF m
  <1>12. /\ Fit(v, r, u) /\ SameCounts(f, v) /\ SameOut(f, v) /\ SameEcho(f, v)
         /\ v.nextRx = f.nextRx
    <2>1. Fit(v, r, u) /\ MarkedOnly(f, m, v)
      BY <1>8, <1>10, <1>11, MarkedFit
    <2>q. QED
      BY <2>1 DEF MarkedOnly
  <1>13. /\ v.una = z.una /\ v.nextRx = z.nextRx /\ v.ecnCESeq = z.ecnCESeq
         /\ \/ v.ecnCWRSeq = z.ecnCWRSeq
            \/ z.ecnEchoSeq > z.ecnCWRSeq
    BY <1>9, <1>12 DEF DataSent, SameCounts, SameOut, SameIn, SameEcho
  <1>14. z.ecnEchoSeq <= z.una /\ {z.ecnEchoSeq, z.una, z.ecnCWRSeq} \subseteq Nat
    BY <1>6, SocketFacts DEF Fit, Accounts
  <1>15. v.ecnCWRSeq # s.ecnCWRSeq => v.una > s.ecnCWRSeq
    BY <1>6, <1>13, <1>14
  <1>q. QED
    BY <1>6, <1>12, <1>13, <1>15 DEF ArrivedFit

-----------------------------------------------------------------------------
(* Both ends of the connection                                               *)

SockInv ==
  /\ sock \in [Ends -> Socket]
  /\ \A e \in Ends : /\ Fit(sock[e], sock[Peer(e)].nextRx, sock[Peer(e)].una)
                     /\ sock[e].ecnCESeq <= NSegs + 1

(* An end that only receives.  Every echo under way is about the segment     *)
(* before the one it asks for, or about that one if it was received.         *)
EchoFits(x, a) ==
  /\ a.data = FALSE
  /\ \/ a.ece = (a.ack - 1 \in Heard(x))
     \/ a.ack < x.nextRx /\ a.ece = (a.ack \in Heard(x))

Receiver(x) ==
  /\ x.nextTx = 1
  /\ x.ecnState \in Echoing \cup {"IDLE"}
  /\ x.marked \subseteq 0..x.nextRx - 1
  /\ IF x.nextRx = 1 /\ 0 \in x.marked THEN x.ecnCESeq = 1 ELSE x.ecnCESeq < x.nextRx
  /\ x.ceState = (x.nextRx - 1 \in Heard(x))
  /\ x.ceState = (x.ecnState \in Echoing)
  /\ x.nextRx > 1 => x.prior = x.nextRx - 1
  /\ x.delayedAckReserved \/ x.delAckTimer => x.nextRx > 1
  /\ \A i \in 1..Len(x.wire) : EchoFits(x, x.wire[i])

(* Its peer: it receives no data, so that it only sends data. *)
OnlySends(x) ==
  /\ x.delayedAckReserved = FALSE /\ x.delAckTimer = FALSE
  /\ \A i \in 1..Len(x.wire) : x.wire[i].data = TRUE

EchoInv == \A e \in Ends \ Senders : Receiver(sock[e]) /\ OnlySends(sock[Peer(e)])

(* A socket after the handshake, which knows whether its last packet was     *)
(* marked.                                                                   *)
Fresh(x) ==
  /\ x \in Socket
  /\ x.una = 1 /\ x.nextTx = 1 /\ x.nextRx = 1 /\ x.wire = <<>>
  /\ x.ecnEchoSeq = 0 /\ x.ecnCWRSeq = 0 /\ x.nextSeq = 0 /\ x.prior \in {0, 1}
  /\ x.ackedTotal = 0 /\ x.ackedEcn = 0 /\ x.from = 1
  /\ x.delAckCount = DelAckMax /\ x.delAckTimer = FALSE /\ x.delayedAckReserved = FALSE
  /\ \/ x.marked = {} /\ x.ecnCESeq = 0 /\ x.ceState = FALSE /\ x.ecnState = "IDLE"
     \/ x.marked = {0} /\ x.ecnCESeq = 1 /\ x.ceState = TRUE /\ x.ecnState = "CE_RCVD"

LEMMA EstablishedIs == Fresh(Established)
  <1>1. DelAckMax \in Nat
    BY FeedbackAssumption DEF FeedbackAssumption
  <1>2. Established \in Socket
    BY <1>1 DEF Established, Socket, EcnStates
  <1>q. QED
    BY <1>2 DEF Established, Fresh

LEMMA AcceptedIs ==
  ASSUME NEW x \in Accepted
  PROVE  Fresh(x)
  <1> DEFINE E == Established
             p == [seq |-> 1]
  <1>1. Fresh(E) /\ E.marked = {} /\ E.ecnCESeq = 0 /\ E.ceState = FALSE /\ E.ecnState = "IDLE"
    BY EstablishedIs DEF Established
  <1>2. CASE x = E
    BY <1>1, <1>2
  <1>3. CASE x = [CeEvent(E, p, TRUE) EXCEPT !.marked = {0}]
    <2> DEFINE b == [E EXCEPT !.ecnCESeq = 1, !.ecnState = "CE_RCVD"]
    <2>1. CeEvent(E, p, TRUE) = CeState0to1(b)
      BY <1>1 DEF CeEvent
    <2>2. b \in Socket /\ b.delayedAckReserved = FALSE /\ b.nextRx = 1
      BY <1>1 DEF Fresh, Socket, EcnStates, Echoing
    <2> HIDE DEF b
    <2>3. CeState0to1(b) = [b EXCEPT !.prior = 1, !.ceState = TRUE, !.ecnState = "CE_RCVD"]
      BY <2>2 DEF CeState0to1, ChangeAcked
    <2> HIDE DEF E, p
    <2>4. x = [E EXCEPT !.ecnCESeq = 1, !.ecnState = "CE_RCVD", !.prior = 1,
                        !.ceState = TRUE, !.marked = {0}]
      BY <1>1, <1>3, <2>1, <2>3 DEF b, Fresh, Socket
    <2>5. x \in Socket
      BY <1>1, <2>4 DEF Fresh, Socket, EcnStates, Echoing
    <2>q. QED
      BY <1>1, <2>4, <2>5 DEF Fresh, Socket
  <1>4. CASE x = [CeEvent(E, p, FALSE) EXCEPT !.marked = {}]
    <2>1. CeEvent(E, p, FALSE) = CeState1to0(E)
      BY DEF CeEvent
    <2> HIDE DEF E, p
    <2>2. CeState1to0(E) = [E EXCEPT !.prior = 1, !.ceState = FALSE, !.ecnState = "IDLE"]
      BY <1>1 DEF Fresh, CeState1to0, ChangeAcked, Echoing
    <2>3. x = [E EXCEPT !.prior = 1, !.ceState = FALSE, !.ecnState = "IDLE", !.marked = {}]
      BY <1>4, <2>1, <2>2
    <2>4. x \in Socket
      BY <1>1, <2>3 DEF Fresh, Socket, EcnStates, Echoing
    <2>q. QED
      BY <1>1, <2>3, <2>4 DEF Fresh, Socket
  <1>5. CeEvent(E, p, FALSE).marked = {}
    <2>1. CeEvent(E, p, FALSE) = CeState1to0(E)
      BY DEF CeEvent
    <2> HIDE DEF E, p
    <2>q. QED
      BY <1>1, <2>1 DEF Fresh, Socket, CeState1to0, ChangeAcked
  <1>q. QED
    BY <1>2, <1>3, <1>4, <1>5 DEF Accepted

LEMMA InitIs ==
  ASSUME Init
  PROVE  /\ \A e \in Ends : Fresh(sock[e])
         /\ sock \in [Ends -> Socket]
  <1>1. PICK x \in Accepted : sock = [e \in Ends |-> IF e = "server" THEN x ELSE Established]
    BY DEF Init
  <1>2. Fresh(x) /\ Fresh(Established)
    BY AcceptedIs, EstablishedIs
  <1>3. \A e \in Ends : sock[e] = x \/ sock[e] = Established
    BY <1>1
  <1>4. \A e \in Ends : Fresh(sock[e])
    BY <1>2, <1>3
  <1>q. QED
    BY <1>1, <1>4 DEF Fresh

LEMMA SockInit == Init => SockInv
  <1> SUFFICES ASSUME Init PROVE SockInv
    OBVIOUS
  <1>2. NSegs \in Nat \ {0} /\ DelAckMax \in Nat \ {0}
    BY FeedbackAssumption DEF FeedbackAssumption
  <1>3. ASSUME NEW e \in Ends
        PROVE  /\ sock[e] \in Socket /\ Accounts(sock[e]) /\ sock[e].wire = <<>>
               /\ sock[e].ecnCESeq <= NSegs + 1
               /\ sock[e].una = 1 /\ sock[e].nextTx = 1 /\ sock[e].nextRx = 1
    <2>1. Fresh(sock[e])
      BY InitIs
    <2>2. Accounts(sock[e])
      BY <1>2, <2>1 DEF Fresh, Accounts
    <2>q. QED
      BY <1>2, <2>1, <2>2 DEF Fresh
  <1>4. Stream(<<>>, 1, 1, 1, 1)
    BY DEF Stream
  <1>5. ASSUME NEW e \in Ends
        PROVE  Fit(sock[e], sock[Peer(e)].nextRx, sock[Peer(e)].una)
    BY <1>3, <1>4, PeerIs DEF Fit
  <1>q. QED
    BY <1>3, <1>5, InitIs DEF SockInv

(* What SockInv says of an end and its peer. *)
LEMMA PairFacts ==
  ASSUME SockInv, NEW e \in Ends
  PROVE  /\ sock[e] \in Socket /\ sock[Peer(e)] \in Socket /\ Peer(e) \in Ends
         /\ Fit(sock[e], sock[Peer(e)].nextRx, sock[Peer(e)].una)
         /\ Fit(sock[Peer(e)], sock[e].nextRx, sock[e].una)
         /\ {sock[e].nextRx, sock[e].una, sock[Peer(e)].nextRx, sock[Peer(e)].una} \subseteq Nat
  <1>1. Peer(e) \in Ends /\ Peer(Peer(e)) = e
    BY PeerIs
  <1>2. sock[e] \in Socket /\ sock[Peer(e)] \in Socket
    BY <1>1 DEF SockInv
  <1>q. QED
    BY <1>1, <1>2, SocketFacts DEF SockInv

(* One end changes without receiving. *)
LEMMA OneEnd ==
  ASSUME SockInv, NEW e \in Ends, NEW v,
         sock' = [sock EXCEPT ![e] = v],
         Fit(v, sock[Peer(e)].nextRx, sock[Peer(e)].una),
         v.nextRx = sock[e].nextRx, v.una = sock[e].una, v.ecnCESeq = sock[e].ecnCESeq
  PROVE  SockInv'
  <1>1. v \in Socket /\ sock \in [Ends -> Socket]
    BY DEF Fit, Accounts, SockInv
  <1>2. sock' \in [Ends -> Socket]
    BY <1>1
  <1>3. ASSUME NEW c \in Ends
        PROVE  /\ Fit(sock'[c], sock'[Peer(c)].nextRx, sock'[Peer(c)].una)
               /\ sock'[c].ecnCESeq <= NSegs + 1
    <2>1. Peer(c) \in Ends /\ Peer(c) # c /\ Peer(Peer(c)) = c
      BY PeerIs
    <2>2. /\ sock'[c] = (IF c = e THEN v ELSE sock[c])
          /\ sock'[Peer(c)].nextRx = sock[Peer(c)].nextRx
          /\ sock'[Peer(c)].una = sock[Peer(c)].una
      BY <1>1, <2>1
    <2>3. CASE c = e
      BY <2>2, <2>3 DEF SockInv
    <2>4. CASE c # e
      BY <2>2, <2>4 DEF SockInv
    <2>q. QED
      BY <2>3, <2>4
  <1>q. QED
    BY <1>2, <1>3 DEF SockInv

(* One end receives the first segment of its peer. *)
HeadArrives(e, ce, v) ==
  /\ sock[Peer(e)].wire # <<>>
  /\ Arrives(e, sock[e], Head(sock[Peer(e)].wire), ce, v)
  /\ sock' = [[sock EXCEPT ![Peer(e)].wire = Tail(@)] EXCEPT ![e] = v]

(* What is then at the two ends. *)
PairStep(e, v, w) ==
  /\ sock' \in [Ends -> Socket]
  /\ sock'[e] = v /\ sock'[Peer(e)] = w
  /\ w = [sock[Peer(e)] EXCEPT !.wire = Tail(@)] /\ w \in Socket /\ v \in Socket
  /\ ArrivedFit(sock[e], Head(sock[Peer(e)].wire), sock[Peer(e)].nextRx, sock[Peer(e)].una, v)
  /\ Fit(w, v.nextRx, v.una)

LEMMA HeadStep ==
  ASSUME SockInv, NEW e \in Ends, NEW ce \in BOOLEAN, NEW v, HeadArrives(e, ce, v)
  PROVE  \E w : PairStep(e, v, w)
  <1> DEFINE d == Peer(e)
             p == Head(sock[d].wire)
             w == [sock[d] EXCEPT !.wire = Tail(@)]
  <1>1. /\ sock[e] \in Socket /\ sock[d] \in Socket /\ d \in Ends /\ d # e
        /\ Fit(sock[e], sock[d].nextRx, sock[d].una)
        /\ Fit(sock[d], sock[e].nextRx, sock[e].una)
        /\ {sock[e].nextRx, sock[e].una, sock[d].nextRx, sock[d].una, sock[d].nextTx} \subseteq Nat
    BY PairFacts, PeerIs, SocketFacts
  <1> HIDE DEF d
  <1>2. Stream(sock[d].wire, sock[e].nextRx, sock[d].nextTx, sock[e].una, sock[d].nextRx)
    BY <1>1 DEF Fit
  <1>3. sock[d].wire # <<>> /\ sock[d].wire \in Seq(Segment)
    BY <1>1, SocketFacts DEF HeadArrives, d
  <1>4. /\ p \in Segment /\ p.seq = sock[e].nextRx /\ p.ack \in 1..sock[d].nextRx
        /\ p.data => sock[e].una <= p.ack
        /\ \A a \in {sock[e].una, p.ack} :
             a >= sock[e].una =>
               Stream(Tail(sock[d].wire), sock[e].nextRx + Length(p), sock[d].nextTx, a,
                      sock[d].nextRx)
    <2>1. sock[d].nextTx \in Nat
      BY <1>1
    <2>2. HeadIs(sock[d].wire, sock[e].nextRx, sock[d].nextTx, sock[e].una, sock[d].nextRx)
      BY <1>1, <1>2, <1>3, <2>1, StreamTail
    <2>q. QED
      BY <2>2 DEF HeadIs
  <1>5. Arrives(e, sock[e], p, ce, v)
    BY DEF HeadArrives, d
  <1> HIDE DEF p
  <1>6. ArrivedFit(sock[e], p, sock[d].nextRx, sock[d].una, v)
    BY <1>1, <1>4, <1>5, ArrivalFit
  <1>7. Fit(v, sock[d].nextRx, sock[d].una) /\ v \in Socket
    BY <1>6 DEF ArrivedFit, Fit, Accounts
  <1>8. /\ w \in Socket /\ w.wire = Tail(sock[d].wire) /\ SameCounts(sock[d], w)
        /\ SameOut(sock[d], w) /\ w.nextRx = sock[d].nextRx /\ w.prior = sock[d].prior
        /\ w.delAckCount = sock[d].delAckCount
    <2>1. Tail(sock[d].wire) \in Seq(Segment)
      BY <1>3
    <2>2. w \in Socket
      BY <1>1, <2>1 DEF Socket
    <2>q. QED
      BY <1>1, <2>2 DEF Socket, SameCounts, SameOut
  <1> HIDE DEF w
  <1>9. Accounts(w)
    BY <1>1, <1>8, AccountsKept DEF Fit, Accounts
  <1>10. Fit(w, v.nextRx, v.una)
    <2>1. v.nextRx = sock[e].nextRx + Length(p) /\ v.una \in {sock[e].una, p.ack}
          /\ v.una >= sock[e].una
      BY <1>1, <1>4, <1>6 DEF ArrivedFit
    <2>2. Stream(Tail(sock[d].wire), v.nextRx, sock[d].nextTx, v.una, sock[d].nextRx)
      BY <1>4, <2>1
    <2>q. QED
      BY <1>8, <1>9, <2>2 DEF Fit, SameOut
  <1>11. /\ sock' \in [Ends -> Socket] /\ sock'[e] = v /\ sock'[d] = w
    <2>1. sock \in [Ends -> Socket]
      BY DEF SockInv
    <2>2. sock' = [[sock EXCEPT ![d] = w] EXCEPT ![e] = v]
      BY <1>1, <2>1 DEF HeadArrives, d, w
    <2>q. QED
      BY <1>1, <1>7, <1>8, <2>1, <2>2
  <1>12. PairStep(e, v, w)
    BY <1>6, <1>7, <1>8, <1>10, <1>11 DEF PairStep, d, w, p
  <1>q. QED
    BY <1>12

LEMMA HeadSeq ==
  ASSUME SockInv, NEW e \in Ends, sock[Peer(e)].wire # <<>>
  PROVE  LET p == Head(sock[Peer(e)].wire)
         IN  /\ p \in Segment /\ p.seq = sock[e].nextRx /\ p.ack \in 1..sock[Peer(e)].nextRx
             /\ p.data => sock[e].una <= p.ack /\ sock[e].nextRx + 1 <= sock[Peer(e)].nextTx
  <1>1. /\ Fit(sock[Peer(e)], sock[e].nextRx, sock[e].una)
        /\ {sock[e].nextRx, sock[e].una, sock[Peer(e)].nextRx, sock[Peer(e)].nextTx} \subseteq Nat
    BY PairFacts, SocketFacts
  <1>2. HeadIs(sock[Peer(e)].wire, sock[e].nextRx, sock[Peer(e)].nextTx, sock[e].una,
               sock[Peer(e)].nextRx)
    <2>1. Stream(sock[Peer(e)].wire, sock[e].nextRx, sock[Peer(e)].nextTx, sock[e].una,
                 sock[Peer(e)].nextRx)
      BY <1>1 DEF Fit
    <2>q. QED
      BY <1>1, <2>1, StreamTail
  <1>q. QED
    BY <1>2 DEF HeadIs

LEMMA ReceiveInv ==
  ASSUME SockInv, NEW e \in Ends, NEW ce \in BOOLEAN, Receive(e, ce)
  PROVE  SockInv'
  <1> DEFINE d == Peer(e)
             p == Head(sock[d].wire)
  <1>1. PICK v : HeadArrives(e, ce, v)
    BY ReceiveIs DEF SockInv, HeadArrives
  <1>2. PICK w : PairStep(e, v, w)
    BY <1>1, HeadStep
  <1>3. /\ d \in Ends /\ d # e /\ Peer(d) = e /\ \A c \in Ends : c = e \/ c = d
    BY PeerIs DEF Ends
  <1>4. /\ p.seq = sock[e].nextRx /\ sock[d].nextTx <= NSegs + 1
        /\ {sock[e].nextRx, sock[d].nextTx, sock[e].ecnCESeq} \subseteq Nat
        /\ sock[e].nextRx <= sock[d].nextTx
    <2>1. sock[d].wire # <<>>
      BY <1>1 DEF HeadArrives
    <2>2. p.seq = sock[e].nextRx
      BY <2>1, HeadSeq
    <2>3. sock[d].nextTx <= NSegs + 1 /\ sock[e].nextRx <= sock[d].nextTx
      BY PairFacts DEF Fit, Accounts, Stream
    <2>q. QED
      BY <1>3, <2>2, <2>3, PairFacts, SocketFacts
  <1>5. v.ecnCESeq <= NSegs + 1
    <2>1. v.ecnCESeq \in {sock[e].ecnCESeq, p.seq}
      BY <1>2 DEF PairStep, ArrivedFit
    <2>2. sock[e].ecnCESeq <= NSegs + 1 /\ NSegs \in Nat
      BY FeedbackAssumption DEF FeedbackAssumption, SockInv
    <2>q. QED
      BY <1>4, <2>1, <2>2
  <1>6. w.ecnCESeq <= NSegs + 1 /\ w.nextRx = sock[d].nextRx /\ w.una = sock[d].una
    <2>1. sock[d] \in Socket /\ sock[d].ecnCESeq <= NSegs + 1
      BY <1>3 DEF SockInv
    <2>2. w = [sock[d] EXCEPT !.wire = Tail(@)]
      BY <1>2 DEF PairStep
    <2>q. QED
      BY <2>1, <2>2 DEF Socket
  <1>7. Fit(v, w.nextRx, w.una) /\ Fit(w, v.nextRx, v.una)
    BY <1>2, <1>6 DEF PairStep, ArrivedFit
  <1>8. ASSUME NEW c \in Ends
        PROVE  /\ Fit(sock'[c], sock'[Peer(c)].nextRx, sock'[Peer(c)].una)
               /\ sock'[c].ecnCESeq <= NSegs + 1
    <2>1. sock'[e] = v /\ sock'[d] = w
      BY <1>2 DEF PairStep
    <2> HIDE DEF d
    <2>2. CASE c = e
      BY <1>5, <1>7, <2>1, <2>2 DEF d
    <2>3. CASE c = d
      BY <1>3, <1>6, <1>7, <2>1, <2>3
    <2>q. QED
      BY <1>3, <2>2, <2>3
  <1>q. QED
    BY <1>2, <1>8 DEF SockInv, PairStep

LEMMA SendInv ==
  ASSUME SockInv, NEW e \in Ends, Send(e)
  PROVE  SockInv'
  <1>1. PICK n \in Sendable(e, sock[e]) \ {0} :
          sock' = [sock EXCEPT ![e] = SendPendingData(sock[e], n)]
    BY DEF Send
  <1> DEFINE v == SendPendingData(sock[e], n)
  <1>2. /\ sock[e] \in Socket /\ Fit(sock[e], sock[Peer(e)].nextRx, sock[Peer(e)].una)
        /\ sock[Peer(e)].nextRx \in Nat /\ sock[Peer(e)].una \in Nat
    BY PairFacts
  <1>3. Fit(v, sock[Peer(e)].nextRx, sock[Peer(e)].una) /\ n \in Nat
    BY <1>2, SendPendingFit
  <1>4. DataSent(sock[e], n, v)
    BY <1>2, <1>3, SendPendingEffect
  <1> HIDE DEF v
  <1>5. v.nextRx = sock[e].nextRx /\ v.una = sock[e].una /\ v.ecnCESeq = sock[e].ecnCESeq
    BY <1>4 DEF DataSent, SameCounts, SameIn, SameEcho
  <1>6. sock' = [sock EXCEPT ![e] = v]
    BY <1>1 DEF v
  <1>q. QED
    BY <1>3, <1>5, <1>6, OneEnd

(* The socket when the timer of a delayed acknowledgement has expired. *)
TimedOut(x) ==
  [x EXCEPT !.delAckCount = 0, !.delAckTimer = FALSE, !.delayedAckReserved = TRUE]

LEMMA TimedOutEffect ==
  ASSUME NEW x \in Socket, NEW y, y = TimedOut(x)
  PROVE  /\ y \in Socket /\ SameCounts(x, y) /\ SameOut(x, y) /\ SameIn(x, y) /\ SameEcho(x, y)
         /\ y.wire = x.wire /\ y.ecnState = x.ecnState
         /\ y.delAckCount = 0 /\ y.delAckTimer = FALSE
  <1>1. TimedOut(x) \in Socket
    BY DEF TimedOut, Socket
  <1>2. /\ SameCounts(x, y) /\ SameOut(x, y) /\ SameIn(x, y) /\ SameEcho(x, y)
        /\ y.wire = x.wire /\ y.ecnState = x.ecnState
        /\ y.delAckCount = 0 /\ y.delAckTimer = FALSE
    BY DEF TimedOut, Socket, SameCounts, SameOut, SameIn, SameEcho
  <1>q. QED
    BY <1>1, <1>2

LEMMA TimeoutIs ==
  ASSUME NEW e \in Ends, DelAckTimeout(e)
  PROVE  /\ sock[e].delAckTimer
         /\ sock' = [sock EXCEPT ![e] = Acknowledge(TimedOut(sock[e]))]
  BY DEF DelAckTimeout, TimedOut

LEMMA TimeoutInv ==
  ASSUME SockInv, NEW e \in Ends, DelAckTimeout(e)
  PROVE  SockInv'
  <1> DEFINE r == sock[Peer(e)].nextRx
             u == sock[Peer(e)].una
             b == TimedOut(sock[e])
             v == Acknowledge(b)
  <1>1. sock[e] \in Socket /\ Fit(sock[e], r, u) /\ r \in Nat /\ u \in Nat
    BY PairFacts
  <1>2. /\ b \in Socket /\ SameCounts(sock[e], b) /\ SameOut(sock[e], b) /\ SameIn(sock[e], b)
        /\ SameEcho(sock[e], b) /\ b.wire = sock[e].wire /\ b.delAckCount = 0
    BY <1>1, TimedOutEffect
  <1>3. sock' = [sock EXCEPT ![e] = v]
    BY TimeoutIs
  <1> HIDE DEF b, r, u
  <1>4. Fit(b, r, u)
    <2>1. b.prior <= b.nextRx /\ b.delAckCount <= DelAckMax
      BY <1>1, <1>2, FeedbackAssumption
         DEF FeedbackAssumption, SameEcho, SameIn, Fit, Accounts
    <2>q. QED
      BY <1>1, <1>2, <2>1, SameFit DEF SameIn
  <1>5. Fit(v, r, u)
    BY <1>1, <1>4, AcknowledgeFit
  <1>6. SameCounts(b, v) /\ SameIn(b, v) /\ SameEcho(b, v)
    BY <1>2, AcknowledgeEffect
  <1>7. v.nextRx = sock[e].nextRx /\ v.una = sock[e].una /\ v.ecnCESeq = sock[e].ecnCESeq
    BY <1>2, <1>6 DEF SameCounts, SameIn, SameEcho
  <1> HIDE DEF v
  <1>q. QED
    BY <1>3, <1>5, <1>7, OneEnd DEF r, u

LEMMA SockNext ==
  ASSUME SockInv, [Next]_sock
  PROVE  SockInv'
  <1>1. CASE UNCHANGED sock
    BY <1>1 DEF SockInv
  <1>2. ASSUME NEW e \in Ends, Send(e)
        PROVE  SockInv'
    BY <1>2, SendInv
  <1>3. ASSUME NEW e \in Ends, NEW ce \in BOOLEAN, Receive(e, ce)
        PROVE  SockInv'
    BY <1>3, ReceiveInv
  <1>4. ASSUME NEW e \in Ends, DelAckTimeout(e)
        PROVE  SockInv'
    BY <1>4, TimeoutInv
  <1>q. QED
    BY <1>1, <1>2, <1>3, <1>4 DEF Next

LEMMA SockTypes ==
  ASSUME SockInv
  PROVE  TypeOK /\ CountsCover
  <1>1. NSegs \in Nat /\ DelAckMax \in Nat
    BY FeedbackAssumption DEF FeedbackAssumption
  <1>2. ASSUME NEW e \in Ends
        PROVE  /\ {sock[e].una, sock[e].nextTx, sock[e].nextRx, sock[e].from} \subseteq Seqs
               /\ sock[e].una <= sock[e].nextTx /\ sock[e].nextRx <= sock[Peer(e)].nextTx
               /\ {sock[e].ecnCESeq, sock[e].ecnEchoSeq, sock[e].ecnCWRSeq,
                   sock[e].prior, sock[e].nextSeq} \subseteq Seqs \cup {0}
               /\ sock[e].ecnState \in EcnStates
               /\ {sock[e].ceState, sock[e].delayedAckReserved, sock[e].delAckTimer}
                    \subseteq BOOLEAN
               /\ sock[e].delAckCount \in 0..DelAckMax
               /\ sock[e].ackedEcn \in 0..sock[e].ackedTotal
               /\ sock[e].ackedTotal >= sock[e].una - sock[e].from
    <2> DEFINE x == sock[e]
               d == sock[Peer(e)]
    <2>1. x \in Socket /\ d \in Socket /\ Fit(x, d.nextRx, d.una) /\ Fit(d, x.nextRx, x.una)
      BY PairFacts
    <2>2. x.ecnCESeq <= NSegs + 1
      BY DEF SockInv
    <2> HIDE DEF x, d
    <2>3. /\ {x.una, x.nextTx, x.nextRx, x.ecnCESeq, x.ecnEchoSeq, x.ecnCWRSeq, x.delAckCount,
              x.prior, x.nextSeq, x.ackedTotal, x.ackedEcn, x.from} \subseteq Nat
          /\ {d.nextRx, d.una, d.nextTx} \subseteq Nat
          /\ x.ecnState \in EcnStates
          /\ {x.delAckTimer, x.ceState, x.delayedAckReserved} \subseteq BOOLEAN
      BY <2>1, SocketFacts
    <2>4. /\ 1 <= d.nextRx /\ d.nextRx <= x.nextTx /\ x.nextTx <= NSegs + 1
          /\ 1 <= x.nextRx /\ x.nextRx <= d.nextTx /\ d.nextTx <= NSegs + 1
          /\ 1 <= x.una /\ x.una <= d.nextRx
      BY <2>1 DEF Fit, Accounts, Stream
    <2>5. /\ 1 <= x.from /\ x.from <= x.una
          /\ x.ackedEcn <= x.ackedTotal /\ x.una <= x.ackedTotal + x.from
          /\ x.ecnEchoSeq <= x.una
          /\ x.nextSeq <= x.nextTx /\ x.ecnCWRSeq <= x.nextTx
          /\ x.prior <= x.nextRx /\ x.delAckCount <= DelAckMax
      BY <2>1 DEF Fit, Accounts
    <2>6. {x.una, x.nextTx, x.nextRx, x.from} \subseteq Seqs
      BY <1>1, <2>3, <2>4, <2>5 DEF Seqs
    <2>7. {x.ecnCESeq, x.ecnEchoSeq, x.ecnCWRSeq, x.prior, x.nextSeq} \subseteq Seqs \cup {0}
      BY <1>1, <2>2, <2>3, <2>4, <2>5 DEF Seqs
    <2>8. x.una <= x.nextTx /\ x.nextRx <= d.nextTx
      BY <2>3, <2>4
    <2>9. /\ x.delAckCount \in 0..DelAckMax /\ x.ackedEcn \in 0..x.ackedTotal
          /\ x.ackedTotal >= x.una - x.from
      BY <1>1, <2>3, <2>5
    <2>q. QED
      BY <2>3, <2>6, <2>7, <2>8, <2>9 DEF x, d
  <1>q. QED
    BY <1>2 DEF TypeOK, CountsCover

(* The sockets have their types: sequence numbers are in the range of what   *)
(* was sent, nothing unsent is acknowledged or received, and at most         *)
(* DelAckMax segments wait for an acknowledgement.                           *)
THEOREM TypeCorrect == Spec => []TypeOK
  <1>1. Init => SockInv
    BY SockInit
  <1>2. SockInv /\ [Next]_sock => SockInv'
    BY SockNext
  <1>3. SockInv => TypeOK
    BY SockTypes
  <1>q. QED
    BY <1>1, <1>2, <1>3, PTL DEF Spec

(* No acknowledged segment is left out of the fraction alpha is made from,   *)
(* whatever windows and repeated acknowledgements there are.                 *)
THEOREM CountsCorrect == Spec => []CountsCover
  <1>1. Init => SockInv
    BY SockInit
  <1>2. SockInv /\ [Next]_sock => SockInv'
    BY SockNext
  <1>3. SockInv => CountsCover
    BY SockTypes
  <1>q. QED
    BY <1>1, <1>2, <1>3, PTL DEF Spec

-----------------------------------------------------------------------------
(* Reductions of the window                                                  *)

ReducesOnce(x, y) == y.ecnCWRSeq # x.ecnCWRSeq => y.una > x.ecnCWRSeq

LEMMA ReduceNext ==
  ASSUME SockInv, [Next]_sock, NEW e \in Ends
  PROVE  ReducesOnce(sock[e], sock'[e])
  <1>1. CASE UNCHANGED sock
    BY <1>1 DEF ReducesOnce
  <1>s. sock \in [Ends -> Socket]
    BY DEF SockInv
  <1>2. ASSUME NEW c \in Ends, Send(c)
        PROVE  ReducesOnce(sock[e], sock'[e])
    <2>1. PICK n \in Sendable(c, sock[c]) \ {0} :
            sock' = [sock EXCEPT ![c] = SendPendingData(sock[c], n)]
      BY <1>2 DEF Send
    <2>2. CASE e # c
      BY <1>s, <2>1, <2>2 DEF ReducesOnce
    <2>3. CASE e = c
      <3> DEFINE v == SendPendingData(sock[c], n)
      <3>1. /\ sock[c] \in Socket /\ Fit(sock[c], sock[Peer(c)].nextRx, sock[Peer(c)].una)
            /\ sock[Peer(c)].nextRx \in Nat /\ sock[Peer(c)].una \in Nat
        BY PairFacts
      <3>2. n \in Nat
        BY <3>1, SendPendingFit
      <3>3. DataSent(sock[c], n, v)
        BY <3>1, <3>2, SendPendingEffect
      <3>4. sock'[e] = v
        BY <1>s, <2>1, <2>3
      <3> HIDE DEF v
      <3>5. /\ sock[c].ecnEchoSeq <= sock[c].una
            /\ {sock[c].ecnEchoSeq, sock[c].una, sock[c].ecnCWRSeq} \subseteq Nat
        BY <3>1, SocketFacts DEF Fit, Accounts
      <3>6. v.una = sock[c].una
        BY <3>3 DEF DataSent, SameCounts
      <3>7. v.ecnCWRSeq = sock[c].ecnCWRSeq \/ sock[c].ecnEchoSeq > sock[c].ecnCWRSeq
        BY <3>3 DEF DataSent
      <3>q. QED
        BY <2>3, <3>4, <3>5, <3>6, <3>7 DEF ReducesOnce
    <2>q. QED
      BY <2>2, <2>3
  <1>3. ASSUME NEW c \in Ends, NEW ce \in BOOLEAN, Receive(c, ce)
        PROVE  ReducesOnce(sock[e], sock'[e])
    <2>1. PICK v : HeadArrives(c, ce, v)
      BY <1>3, <1>s, ReceiveIs DEF HeadArrives
    <2>2. PICK w : PairStep(c, v, w)
      BY <2>1, HeadStep
    <2>3. Peer(c) \in Ends /\ (e = c \/ e = Peer(c))
      BY PeerIs DEF Ends
    <2>4. CASE e = c
      BY <2>2, <2>4 DEF PairStep, ArrivedFit, ReducesOnce
    <2>5. CASE e = Peer(c)
      <3>1. sock'[e] = [sock[e] EXCEPT !.wire = Tail(@)] /\ sock[e] \in Socket
        BY <1>s, <2>2, <2>5 DEF PairStep
      <3>q. QED
        BY <3>1 DEF Socket, ReducesOnce
    <2>q. QED
      BY <2>3, <2>4, <2>5
  <1>4. ASSUME NEW c \in Ends, DelAckTimeout(c)
        PROVE  ReducesOnce(sock[e], sock'[e])
    <2>1. sock' = [sock EXCEPT ![c] = Acknowledge(TimedOut(sock[c]))]
      BY <1>4, TimeoutIs
    <2>2. CASE e # c
      BY <1>s, <2>1, <2>2 DEF ReducesOnce
    <2>3. CASE e = c
      <3>1. sock'[e] = Acknowledge(TimedOut(sock[c])) /\ sock[c] \in Socket
        BY <1>s, <2>1, <2>3
      <3>2. TimedOut(sock[c]) \in Socket /\ SameOut(sock[c], TimedOut(sock[c]))
        BY <3>1, TimedOutEffect
      <3>3. SameOut(TimedOut(sock[c]), sock'[e])
        BY <3>1, <3>2, AcknowledgeEffect
      <3>q. QED
        BY <2>3, <3>2, <3>3 DEF SameOut, ReducesOnce
    <2>q. QED
      BY <2>2, <2>3
  <1>q. QED
    BY <1>1, <1>2, <1>3, <1>4 DEF Next

(* The window is reduced once for every window of data: not again before the *)
(* segment that was the newest at the last reduction is acknowledged.        *)
THEOREM ReductionsCorrect == Spec => OncePerWindow
  <1>1. Init => SockInv
    BY SockInit
  <1>2. SockInv /\ [Next]_sock => SockInv'
    BY SockNext
  <1>3. SockInv /\ [Next]_sock =>
          [\A e \in Ends : sock'[e].ecnCWRSeq # sock[e].ecnCWRSeq
                             => sock'[e].una > sock[e].ecnCWRSeq]_sock
    BY ReduceNext DEF ReducesOnce
  <1>q. QED
    BY <1>1, <1>2, <1>3, PTL DEF Spec, OncePerWindow

-----------------------------------------------------------------------------
(* Echoes                                                                    *)

(* A mark changes what was heard of no other segment. *)
LEMMA HeardKept ==
  ASSUME NEW x, NEW y, NEW k \in Nat \ {0}, y.marked \in {x.marked, x.marked \cup {k}},
         NEW j, j # k
  PROVE  (j \in Heard(y)) = (j \in Heard(x))
  <1>1. (0 \in y.marked) = (0 \in x.marked) /\ (j \in y.marked) = (j \in x.marked)
    OBVIOUS
  <1>q. QED
    BY <1>1 DEF Heard

(* Another segment, marked or not, changes nothing for an echo that is       *)
(* already under way.                                                        *)
LEMMA EchoKept ==
  ASSUME NEW x, NEW y, NEW a, x.nextRx \in Nat, y.nextRx \in Nat, x.nextRx <= y.nextRx,
         a.ack \in 1..x.nextRx, y.marked \in {x.marked, x.marked \cup {x.nextRx}},
         EchoFits(x, a)
  PROVE  EchoFits(y, a)
  <1>1. a.data = FALSE /\ x.nextRx \in Nat \ {0}
    BY DEF EchoFits
  <1>2. CASE a.ece = (a.ack - 1 \in Heard(x))
    <2>1. a.ack - 1 # x.nextRx
      OBVIOUS
    <2>2. (a.ack - 1 \in Heard(y)) = (a.ack - 1 \in Heard(x))
      BY <1>1, <2>1, HeardKept
    <2>q. QED
      BY <1>1, <1>2, <2>2 DEF EchoFits
  <1>3. CASE a.ack < x.nextRx /\ a.ece = (a.ack \in Heard(x))
    <2>1. a.ack # x.nextRx /\ a.ack < y.nextRx
      BY <1>3
    <2>2. (a.ack \in Heard(y)) = (a.ack \in Heard(x))
      BY <1>1, <2>1, HeardKept
    <2>q. QED
      BY <1>1, <1>3, <2>1, <2>2 DEF EchoFits
  <1>q. QED
    BY <1>2, <1>3 DEF EchoFits

EchoesFit(x, w) == \A i \in 1..Len(w) : EchoFits(x, w[i])

LEMMA EchoesAppend ==
  ASSUME NEW x, NEW w \in Seq(Segment), NEW a \in Segment, EchoesFit(x, w), EchoFits(x, a)
  PROVE  EchoesFit(x, Append(w, a))
  <1> DEFINE W == Append(w, a)
  <1>1. /\ Len(w) \in Nat /\ Len(W) = Len(w) + 1
        /\ \A i \in 1..Len(w) : W[i] = w[i]
        /\ W[Len(w) + 1] = a
    OBVIOUS
  <1> HIDE DEF W
  <1>2. ASSUME NEW i \in 1..Len(w) + 1
        PROVE  EchoFits(x, W[i])
    <2>1. i \in 1..Len(w) \/ i = Len(w) + 1
      BY <1>1
    <2>q. QED
      BY <1>1, <2>1 DEF EchoesFit
  <1>q. QED
    BY <1>1, <1>2 DEF EchoesFit, W

LEMMA EchoesTail ==
  ASSUME NEW x, NEW w \in Seq(Segment), w # <<>>, EchoesFit(x, w)
  PROVE  EchoesFit(x, Tail(w)) /\ EchoFits(x, Head(w))
  <1>1. /\ Len(w) \in Nat /\ 1 \in 1..Len(w) /\ Head(w) = w[1]
        /\ Len(Tail(w)) = Len(w) - 1
        /\ \A i \in 1..Len(w) - 1 : Tail(w)[i] = w[i + 1] /\ i + 1 \in 1..Len(w)
    OBVIOUS
  <1>q. QED
    BY <1>1 DEF EchoesFit

(* The effect of a new segment of data on an end that only receives: marked  *)
(* or not, it is the one the CE state, the echo and prior are about.  Its    *)
(* mark is heard (h) unless it is the first and the handshake was marked.    *)
LEMMA ReceiverArrives ==
  ASSUME NEW e \in Ends \ Senders, NEW s, NEW r \in Nat, NEW u \in Nat, Fit(s, r, u),
         Receiver(s), s.una = 1,
         NEW p \in Segment, p.data = TRUE, p.ack = 1, p.seq = s.nextRx,
         NEW ce \in BOOLEAN, NEW v, Arrives(e, s, p, ce, v)
  PROVE  Receiver(v)
  <1>0. PICK x, y, z, n : Steps(e, s, p, ce, x, y, z, n, v)
    BY DEF Arrives
  <1>1. /\ x = CwrEvent(CeEvent(s, p, ce), p)
        /\ y = IF p.ack < x.una THEN x ELSE ReceivedAck(x, p)
        /\ z = IF p.data /\ p.ack >= x.una THEN ReceivedData(y) ELSE y
        /\ n \in IF p.ack < x.una THEN {0} ELSE Sendable(e, z)
        /\ v = [SendPendingData(z, n) EXCEPT
                  !.marked = IF p.data /\ ce THEN @ \cup {p.seq} ELSE @]
    BY <1>0 DEF Steps
  <1> DEFINE k == s.nextRx
             c == CeEvent(s, p, ce)
             h == ce /\ ~(k = 1 /\ 0 \in s.marked)
  <1>2. /\ s \in Socket /\ k \in Nat /\ 1 <= k /\ s.ecnCESeq \in Nat /\ s.prior \in Nat
        /\ s.wire \in Seq(Segment) /\ s.ceState \in BOOLEAN /\ s.ecnCESeq <= k
        /\ \A i \in 1..Len(s.wire) : s.wire[i].ack \in 1..k
    <2>1. s \in Socket
      BY DEF Fit, Accounts
    <2>2. Stream(s.wire, r, s.nextTx, u, k)
      BY DEF Fit
    <2>q. QED
      BY <2>1, <2>2, SocketFacts DEF Stream, Receiver
  <1>3. CeNoted(s, p, ce, c)
    BY <1>2, CeEventEffect
  <1>4. /\ c \in Socket /\ c.una = 1 /\ c.nextRx = k /\ c.nextTx = 1 /\ c.marked = s.marked
        /\ c.prior = k /\ MayAckPrior(s, c)
    BY <1>3 DEF CeNoted, SameCounts, SameOut, SameIn, Receiver
  <1>5. NewMark(s, p, ce) = h
    <2>1. (s.ecnCESeq < k) = ~(k = 1 /\ 0 \in s.marked)
      BY <1>2 DEF Receiver
    <2>q. QED
      BY <2>1, ZenonT(60) DEF NewMark
  <1>6. /\ c.ceState = h /\ c.ecnCESeq <= k
        /\ c.ecnState = IF h THEN "CE_RCVD" ELSE "IDLE"
    <2> HIDE DEF c, h
    <2>0. h \in BOOLEAN
      BY DEF h
    <2>1. CASE h = TRUE
      <3>1. NewMark(s, p, ce)
        BY <1>5, <2>1
      <3>2. c.ceState = TRUE /\ c.ecnState = "CE_RCVD" /\ c.ecnCESeq = p.seq
        BY <1>3, <3>1 DEF CeNoted
      <3>3. c.ceState = h
        BY <2>1, <3>2
      <3>4. c.ecnCESeq <= k
        BY <1>2, <3>2
      <3>5. c.ecnState = IF h THEN "CE_RCVD" ELSE "IDLE"
        BY <2>1, <3>2
      <3>q. QED
        BY <3>3, <3>4, <3>5
    <2>2. CASE h = FALSE
      <3>1. ~NewMark(s, p, ce)
        BY <1>5, <2>2
      <3>2. /\ c.ceState = FALSE /\ c.ecnCESeq = s.ecnCESeq
            /\ c.ecnState = IF s.ecnState \in Echoing THEN "IDLE" ELSE s.ecnState
        BY <1>3, <3>1 DEF CeNoted
      <3>3. c.ecnState = "IDLE"
        BY <3>2 DEF Receiver
      <3>4. c.ceState = h
        BY <2>2, <3>2
      <3>5. c.ecnCESeq <= k
        BY <1>2, <3>2
      <3>6. c.ecnState = IF h THEN "CE_RCVD" ELSE "IDLE"
        BY <2>2, <3>3
      <3>q. QED
        BY <3>4, <3>5, <3>6
    <2>q. QED
      BY <2>0, <2>1, <2>2
  <1>b. h \in BOOLEAN
    OBVIOUS
  <1> HIDE DEF c, h
  <1>7. /\ x \in Socket /\ x.una = 1 /\ x.nextRx = k /\ x.nextTx = 1 /\ x.marked = s.marked
        /\ x.prior = k /\ x.wire = c.wire /\ x.ceState = h /\ x.ecnCESeq <= k
        /\ x.ecnState = IF h THEN "CE_RCVD" ELSE "IDLE"
    <2>1. x = CwrEvent(c, p)
      BY <1>1 DEF c
    <2>2. /\ x \in Socket
          /\ SameCounts(c, x) /\ SameOut(c, x) /\ SameIn(c, x) /\ SameEcho(c, x)
          /\ x.wire = c.wire
          /\ x.ecnState = IF p.cwr /\ c.ecnState # "CE_RCVD" THEN "IDLE" ELSE c.ecnState
      BY <1>4, <2>1, CwrEventEffect
    <2>3. x.ecnState = IF h THEN "CE_RCVD" ELSE "IDLE"
      BY <1>6, <2>2
    <2>q. QED
      BY <1>4, <1>6, <2>2, <2>3 DEF SameCounts, SameOut, SameIn, SameEcho
  <1>8. /\ y \in Socket /\ y.una = 1 /\ y.nextRx = k /\ y.nextTx = 1 /\ y.marked = s.marked
        /\ y.prior = k /\ y.wire = c.wire /\ y.ceState = h /\ y.ecnCESeq <= k
        /\ y.ecnState = IF h THEN "CE_RCVD" ELSE "IDLE"
    <2>1. y = ReceivedAck(x, p)
      BY <1>1, <1>7
    <2>2. AckTaken(x, p, y)
      BY <1>7, <2>1, ReceivedAckEffect
    <2>3. p.ack <= x.una /\ x.ecnState # "ECE_RCVD"
      BY <1>7
    <2>4. y.ecnState = x.ecnState /\ y.una = 1
      BY <2>2, <2>3 DEF AckTaken
    <2>q. QED
      BY <1>7, <2>2, <2>4 DEF AckTaken, SenderOnly, SameOut, SameIn, SameEcho
  <1>9. /\ z \in Socket /\ z.nextRx = k + 1 /\ z.nextTx = 1 /\ z.marked = s.marked
        /\ z.prior = k /\ z.ceState = h /\ z.ecnCESeq <= k
        /\ z.ecnState \in Echoing \cup {"IDLE"} /\ h = (z.ecnState \in Echoing)
        /\ z.wire \in {c.wire, Append(c.wire, EmptyAck(y, k + 1, h))}
    <2>1. z = ReceivedData(y)
      BY <1>1, <1>7
    <2>2. DataTaken(y, z)
      BY <1>8, <2>1, ReceivedDataEffect
    <2>3. (y.ecnState \in Echoing) = h
      BY <1>b, <1>8 DEF Echoing
    <2>4. z.wire \in {c.wire, Append(c.wire, EmptyAck(y, k + 1, h))}
      BY <1>8, <2>2, <2>3 DEF DataTaken
    <2>5. z.ecnState \in Echoing \cup {"IDLE"} /\ h = (z.ecnState \in Echoing)
      BY <1>8, <2>2, <2>3, SMTT(40) DEF DataTaken, Echoing
    <2>q. QED
      BY <1>8, <2>2, <2>4, <2>5 DEF DataTaken, SameOut, SameEcho
  <1>10. v = [z EXCEPT !.marked = IF ce THEN s.marked \cup {k} ELSE s.marked]
    <2>1. n = 0
      BY <1>1, <1>7 DEF Sendable
    <2>2. SendPendingData(z, n) = z
      BY <2>1 DEF SendPendingData
    <2>q. QED
      BY <1>1, <1>9, <2>2, ZenonT(60)
  <1> DEFINE m == IF ce THEN s.marked \cup {k} ELSE s.marked
  <1>11. /\ v.nextRx = k + 1 /\ v.nextTx = 1 /\ v.marked = m
         /\ v.prior = k /\ v.ceState = h /\ v.ecnCESeq <= k /\ v.ecnCESeq \in Nat
         /\ v.ecnState = z.ecnState /\ v.wire = z.wire
    <2>1. z.ecnCESeq \in Nat
      BY <1>9, SocketFacts
    <2> HIDE DEF m
    <2>2. v = [z EXCEPT !.marked = m]
      BY <1>10 DEF m
    <2>q. QED
      BY <1>9, <2>1, <2>2 DEF Socket
  <1>n. k \in Nat /\ 1 <= k /\ v.nextRx = k + 1
    BY <1>2, <1>11
  <1>12. v.marked \subseteq 0..k /\ h = (k \in Heard(v))
    <2>1. s.marked \subseteq 0..k - 1
      BY DEF Receiver
    <2>2. k \notin s.marked
      BY <1>2, <2>1
    <2>3. v.marked \subseteq 0..k
      BY <1>2, <1>11, <2>1
    <2>4. (k \in v.marked) = ce /\ (0 \in v.marked) = (0 \in s.marked)
      <3>1. CASE ce = TRUE
        <4>1. v.marked = s.marked \cup {k} /\ k # 0
          BY <1>2, <1>11, <3>1
        <4>2. (k \in v.marked) = TRUE /\ (0 \in v.marked) = (0 \in s.marked)
          BY <4>1
        <4>q. QED
          BY <3>1, <4>2
      <3>2. CASE ce = FALSE
        <4>1. v.marked = s.marked
          BY <1>11, <3>2
        <4>2. (k \in v.marked) = FALSE
          BY <2>2, <4>1
        <4>q. QED
          BY <3>2, <4>1, <4>2
      <3>q. QED
        BY <3>1, <3>2
    <2>5. (k \in Heard(v)) = (k \in v.marked /\ ~(k = 1 /\ 0 \in v.marked))
      BY <1>2 DEF Heard
    <2> HIDE DEF k, m
    <2>q. QED
      BY <2>3, <2>4, <2>5, ZenonT(60) DEF h
  <1>13. EchoesFit(v, s.wire)
    <2>1. ASSUME NEW i \in 1..Len(s.wire)
          PROVE  EchoFits(v, s.wire[i])
      <3>1. EchoFits(s, s.wire[i]) /\ s.wire[i].ack \in 1..s.nextRx
        BY <1>2 DEF Receiver
      <3>2. v.marked \in {s.marked, s.marked \cup {s.nextRx}}
        BY <1>11
      <3>3. s.nextRx \in Nat /\ v.nextRx \in Nat /\ s.nextRx <= v.nextRx
        BY <1>n
      <3> HIDE DEF k, m
      <3>q. QED
        BY <3>1, <3>2, <3>3, EchoKept
    <2>q. QED
      BY <2>1 DEF EchoesFit
  <1>14. EchoesFit(v, c.wire) /\ c.wire \in Seq(Segment)
    <2>1. CASE c.wire = s.wire
      BY <1>2, <1>13, <2>1
    <2>2. CASE /\ s.delayedAckReserved /\ s.prior # 0
               /\ c.wire = Append(s.wire, EmptyAck(s, s.prior, s.ceState))
      <3> DEFINE a == EmptyAck(s, s.prior, s.ceState)
      <3>1. s.nextTx \in Nat
        BY <1>2, SocketFacts
      <3>2. /\ a \in Segment /\ a.data = FALSE /\ a.ack = s.prior /\ a.ece = s.ceState
        BY <1>2, <3>1 DEF EmptyAck, Segment
      <3>3. k > 1 /\ s.prior = k - 1 /\ s.ceState = (k - 1 \in Heard(s))
        BY <2>2 DEF Receiver
      <3>4. (k - 1 \in Heard(v)) = (k - 1 \in Heard(s))
        <4>1. v.marked \in {s.marked, s.marked \cup {k}} /\ k \in Nat \ {0} /\ k - 1 # k
          BY <1>2, <1>11
        <4> HIDE DEF k, m
        <4>q. QED
          BY <4>1, HeardKept
      <3> HIDE DEF a, m
      <3>5. EchoFits(v, a)
        <4>1. a.ack < v.nextRx
          BY <1>2, <1>11, <3>2, <3>3
        <4>2. a.ece = (a.ack \in Heard(v))
          BY <1>11, <3>2, <3>3, <3>4
        <4>q. QED
          BY <3>2, <4>1, <4>2 DEF EchoFits
      <3>6. c.wire = Append(s.wire, a)
        BY <2>2 DEF a
      <3>q. QED
        BY <1>2, <1>13, <3>2, <3>5, <3>6, EchoesAppend
    <2>q. QED
      BY <1>4, <2>1, <2>2 DEF MayAckPrior
  <1>15. EchoesFit(v, v.wire)
    <2>1. CASE z.wire = c.wire
      BY <1>11, <1>14, <2>1
    <2>2. CASE z.wire = Append(c.wire, EmptyAck(y, k + 1, h))
      <3> DEFINE a == EmptyAck(y, k + 1, h)
      <3>1. a \in Segment /\ a.data = FALSE /\ a.ack = k + 1 /\ a.ece = h
        BY <1>2, <1>8, <1>b DEF EmptyAck, Segment
      <3> HIDE DEF a, m
      <3>2. EchoFits(v, a)
        <4>1. a.ack - 1 = k
          BY <1>2, <3>1
        <4>2. a.ece = (a.ack - 1 \in Heard(v))
          BY <1>11, <1>12, <3>1, <4>1
        <4>q. QED
          BY <3>1, <4>2 DEF EchoFits
      <3>3. z.wire = Append(c.wire, a)
        BY <2>2 DEF a
      <3>q. QED
        BY <1>11, <1>14, <3>1, <3>2, <3>3, EchoesAppend
    <2>3. z.wire = c.wire \/ z.wire = Append(c.wire, EmptyAck(y, k + 1, h))
      BY <1>9, Zenon
    <2>q. QED
      BY <2>1, <2>2, <2>3, Zenon
  <1> HIDE DEF m
  <1>16. /\ v.nextTx = 1 /\ v.ecnState \in Echoing \cup {"IDLE"}
         /\ v.ceState = (v.ecnState \in Echoing)
    BY <1>9, <1>11
  <1>17. /\ v.nextRx - 1 = k /\ v.nextRx > 1 /\ v.ecnCESeq < v.nextRx
    BY <1>2, <1>11
  <1>18. /\ v.marked \subseteq 0..v.nextRx - 1 /\ v.ceState = (v.nextRx - 1 \in Heard(v))
         /\ v.prior = v.nextRx - 1
    BY <1>11, <1>12, <1>17
  <1>q. QED
    BY <1>15, <1>16, <1>17, <1>18 DEF Receiver, EchoesFit

(* The segments that the peer of such an end sends are data. *)
LEMMA OnlyDataSent ==
  ASSUME NEW x \in Socket, OnlySends(x), NEW n \in Nat, NEW y, DataSent(x, n, y)
  PROVE  OnlySends(y)
  <1>1. y.delayedAckReserved = FALSE /\ y.delAckTimer = FALSE
    <2>1. NoneDelayed(x, y) /\ y \in Socket
      BY DEF DataSent
    <2>2. y.delAckTimer \in BOOLEAN
      BY <2>1 DEF Socket
    <2>q. QED
      BY <2>1, <2>2 DEF NoneDelayed, OnlySends
  <1>2. CASE n = 0
    BY <1>2 DEF DataSent
  <1>3. CASE n # 0
    <2> DEFINE w == x.wire
               b == Burst(x, n)
    <2>1. y.wire = w \o b /\ w \in Seq(Segment)
      BY <1>3, SocketFacts DEF DataSent
    <2>2. b \in Seq(Segment) /\ Len(b) = n /\ \A i \in 1..n : b[i].data = TRUE
      BY BurstIs DEF IsBurst
    <2>3. \A i \in 1..Len(w) : w[i].data = TRUE
      BY DEF OnlySends
    <2> HIDE DEF w, b
    <2>4. ASSUME NEW i \in 1..Len(y.wire)
          PROVE  y.wire[i].data = TRUE
      <3>a. w \in Seq(Segment) /\ b \in Seq(Segment) /\ Len(b) = n
        BY <2>1, <2>2
      <3>b. /\ Len(w \o b) = Len(w) + n /\ Len(w) \in Nat
            /\ \A j \in 1..Len(w) + n :
                 (w \o b)[j] = IF j <= Len(w) THEN w[j] ELSE b[j - Len(w)]
        BY <3>a
      <3>c. i \in 1..Len(w) + n
        BY <2>1, <3>b
      <3>1. /\ Len(w) \in Nat /\ i \in 1..Len(w) + n
            /\ (w \o b)[i] = IF i <= Len(w) THEN w[i] ELSE b[i - Len(w)]
        BY <3>b, <3>c
      <3>2. i \in 1..Len(w) \/ (~(i <= Len(w)) /\ i - Len(w) \in 1..n)
        BY <3>1
      <3>q. QED
        BY <2>1, <2>2, <2>3, <3>1, <3>2
    <2>q. QED
      BY <1>1, <2>4 DEF OnlySends
  <1>q. QED
    BY <1>2, <1>3

(* An acknowledgement makes the peer count, and perhaps send more data.      *)
LEMMA SenderArrives ==
  ASSUME NEW e, NEW s, NEW r \in Nat, NEW u \in Nat, Fit(s, r, u), OnlySends(s),
         NEW p \in Segment, p.data = FALSE, NEW ce \in BOOLEAN,
         NEW v, Arrives(e, s, p, ce, v)
  PROVE  OnlySends(v)
  <1>0. PICK x, y, z, n : Steps(e, s, p, ce, x, y, z, n, v)
    BY DEF Arrives
  <1>1. /\ x = CwrEvent(CeEvent(s, p, ce), p)
        /\ y = IF p.ack < x.una THEN x ELSE ReceivedAck(x, p)
        /\ z = y
        /\ n \in IF p.ack < x.una THEN {0} ELSE Sendable(e, z)
        /\ v = [SendPendingData(z, n) EXCEPT !.marked = @]
    BY <1>0 DEF Steps
  <1> DEFINE c == CeEvent(s, p, ce)
             Kept(t) == /\ t \in Socket /\ t.wire = s.wire
                        /\ t.delayedAckReserved = FALSE /\ t.delAckTimer = FALSE
  <1>2. s \in Socket /\ s.delayedAckReserved = FALSE /\ s.delAckTimer = FALSE
    BY DEF Fit, Accounts, OnlySends
  <1>3. ASSUME NEW a, NEW b, Kept(a), b \in Socket, NoneDelayed(a, b), b.wire = a.wire
        PROVE  Kept(b)
    <2>1. b.delAckTimer \in BOOLEAN
      BY <1>3 DEF Socket
    <2>q. QED
      BY <1>3, <2>1 DEF NoneDelayed
  <1>4. Kept(s)
    BY <1>2
  <1>5. CeNoted(s, p, ce, c)
    BY <1>2, CeEventEffect
  <1>6. c \in Socket /\ NoneDelayed(s, c) /\ c.wire = s.wire
    BY <1>2, <1>5 DEF CeNoted, MayAckPrior
  <1> HIDE DEF c, Kept
  <1>7. Kept(c)
    BY <1>3, <1>4, <1>6
  <1>8. x \in Socket /\ NoneDelayed(c, x) /\ x.wire = c.wire
    <2>1. x = CwrEvent(c, p)
      BY <1>1 DEF c
    <2>q. QED
      BY <1>6, <2>1, CwrEventEffect
  <1>9. Kept(x)
    BY <1>3, <1>7, <1>8
  <1>10. Kept(y)
    <2>1. CASE y = x
      BY <1>9, <2>1
    <2>2. CASE y = ReceivedAck(x, p)
      <3>1. AckTaken(x, p, y)
        BY <1>8, <2>2, ReceivedAckEffect
      <3>2. y \in Socket /\ NoneDelayed(x, y) /\ y.wire = x.wire
        BY <3>1 DEF AckTaken, SenderOnly
      <3>q. QED
        BY <1>3, <1>9, <3>2
    <2>q. QED
      BY <1>1, <2>1, <2>2
  <1>11. z \in Socket /\ OnlySends(z)
    BY <1>1, <1>10 DEF Kept, OnlySends
  <1> DEFINE f == SendPendingData(z, n)
  <1>12. n \in Nat
    BY <1>1, FeedbackAssumption DEF FeedbackAssumption, Sendable
  <1>13. DataSent(z, n, f)
    BY <1>11, <1>12, SendPendingEffect
  <1> HIDE DEF f
  <1>14. OnlySends(f) /\ f \in Socket
    BY <1>11, <1>12, <1>13, OnlyDataSent DEF DataSent
  <1>15. v = [f EXCEPT !.marked = f.marked]
    BY <1>1 DEF f
  <1>16. v.wire = f.wire /\ v.delAckTimer = f.delAckTimer
         /\ v.delayedAckReserved = f.delayedAckReserved
    BY <1>14, <1>15 DEF Socket
  <1>q. QED
    BY <1>14, <1>16 DEF OnlySends

LEMMA EchoInit == Init => EchoInv
  <1> SUFFICES ASSUME Init PROVE EchoInv
    OBVIOUS
  <1>1. ASSUME NEW x, Fresh(x)
        PROVE  Receiver(x) /\ OnlySends(x)
    <2>1. x.nextTx = 1 /\ x.nextRx = 1 /\ x.wire = <<>> /\ Len(x.wire) = 0
          /\ x.delayedAckReserved = FALSE /\ x.delAckTimer = FALSE
      BY <1>1 DEF Fresh
    <2>2. /\ x.ceState = (0 \in Heard(x))
          /\ x.ceState = (x.ecnState \in Echoing)
          /\ x.ecnState \in Echoing \cup {"IDLE"}
          /\ x.marked \subseteq 0..0
          /\ IF 0 \in x.marked THEN x.ecnCESeq = 1 ELSE x.ecnCESeq < 1
      <3>1. CASE x.marked = {} /\ x.ecnCESeq = 0 /\ x.ceState = FALSE /\ x.ecnState = "IDLE"
        <4>1. Heard(x) = {}
          BY <3>1 DEF Heard
        <4>2. (x.ecnState \in Echoing) = FALSE
          BY <3>1 DEF Echoing
        <4>3. (0 \in Heard(x)) = FALSE /\ ~(0 \in x.marked)
          BY <3>1, <4>1
        <4>4. x.marked \subseteq 0..0 /\ x.ecnCESeq < 1
          BY <3>1
        <4>q. QED
          BY <3>1, <4>2, <4>3, <4>4, Zenon
      <3>2. CASE x.marked = {0} /\ x.ecnCESeq = 1 /\ x.ceState = TRUE /\ x.ecnState = "CE_RCVD"
        <4>1. (0 \in Heard(x)) = TRUE /\ 0 \in x.marked
          BY <3>2 DEF Heard
        <4>2. (x.ecnState \in Echoing) = TRUE
          BY <3>2 DEF Echoing
        <4>3. x.marked \subseteq 0..0
          BY <3>2
        <4>q. QED
          BY <3>2, <4>1, <4>2, <4>3, Zenon
      <3>q. QED
        BY <1>1, <3>1, <3>2, Zenon DEF Fresh
    <2>q. QED
      BY <2>1, <2>2 DEF Receiver, OnlySends
  <1>2. \A e \in Ends : Receiver(sock[e]) /\ OnlySends(sock[e])
    BY <1>1, InitIs
  <1>q. QED
    BY <1>2, PeerIs DEF EchoInv

(* The delayed acknowledgement of an end that only receives. *)
LEMMA ReceiverTimeout ==
  ASSUME NEW x \in Socket, Receiver(x), x.delAckTimer, NEW v, v = Acknowledge(TimedOut(x))
  PROVE  Receiver(v)
  <1> DEFINE b == TimedOut(x)
             a == EmptyAck(x, x.nextRx, x.ecnState \in Echoing)
  <1>1. /\ x.nextRx \in Nat /\ x.nextTx \in Nat /\ x.wire \in Seq(Segment)
        /\ x.ecnCESeq \in Nat
    BY SocketFacts
  <1>2. /\ b \in Socket /\ SameCounts(x, b) /\ SameOut(x, b) /\ SameIn(x, b) /\ SameEcho(x, b)
        /\ b.wire = x.wire /\ b.ecnState = x.ecnState
    BY TimedOutEffect
  <1> HIDE DEF b
  <1>3. /\ v \in Socket
        /\ SameOut(b, v) /\ SameIn(b, v) /\ SameEcho(b, v)
        /\ v.ecnState = (IF b.ecnState \in Echoing THEN "SENDING_ECE" ELSE b.ecnState)
        /\ v.wire = Append(b.wire, EmptyAck(b, b.nextRx, b.ecnState \in Echoing))
    <2>1. v = Acknowledge(b)
      BY DEF b
    <2>q. QED
      BY <1>2, <2>1, AcknowledgeEffect
  <1>4. EmptyAck(b, b.nextRx, b.ecnState \in Echoing) = a
    BY <1>2 DEF EmptyAck, SameIn, SameOut
  <1>5. /\ v.nextTx = x.nextTx /\ v.nextRx = x.nextRx /\ v.marked = x.marked
        /\ v.prior = x.prior /\ v.ceState = x.ceState /\ v.ecnCESeq = x.ecnCESeq
        /\ v.wire = Append(x.wire, a)
    BY <1>2, <1>3, <1>4 DEF SameIn, SameOut, SameEcho
  <1>6. /\ v.ecnState \in Echoing \cup {"IDLE"}
        /\ (v.ecnState \in Echoing) = (x.ecnState \in Echoing)
    BY <1>2, <1>3 DEF Receiver, Echoing
  <1>7. a \in Segment /\ a.data = FALSE /\ a.ack = x.nextRx /\ a.ece = (x.ecnState \in Echoing)
    BY <1>1 DEF EmptyAck, Segment
  <1> HIDE DEF a
  <1>8. EchoFits(x, a)
    <2>1. x.ceState = (x.nextRx - 1 \in Heard(x)) /\ x.ceState = (x.ecnState \in Echoing)
      BY DEF Receiver
    <2>2. a.ece = (a.ack - 1 \in Heard(x))
      BY <1>7, <2>1
    <2>q. QED
      BY <1>7, <2>2 DEF EchoFits
  <1>9. EchoesFit(x, v.wire)
    <2>1. EchoesFit(x, x.wire)
      BY DEF Receiver, EchoesFit
    <2>q. QED
      BY <1>1, <1>5, <1>7, <1>8, <2>1, EchoesAppend
  <1>10. \A i \in 1..Len(v.wire) : EchoFits(v, v.wire[i])
    BY <1>5, <1>9 DEF EchoesFit, EchoFits, Heard
  <1>11. x.nextRx > 1
    BY DEF Receiver
  <1>12. /\ v.ceState = (v.nextRx - 1 \in Heard(v))
         /\ v.ceState = (v.ecnState \in Echoing)
    BY <1>5, <1>6 DEF Receiver, Heard
  <1>13. /\ v.nextTx = 1 /\ v.marked \subseteq 0..v.nextRx - 1 /\ v.ecnCESeq < v.nextRx
         /\ v.prior = v.nextRx - 1 /\ v.nextRx > 1
    BY <1>5, <1>11 DEF Receiver
  <1>q. QED
    BY <1>6, <1>10, <1>12, <1>13 DEF Receiver

(* What SockInv says of a connection on which only one end sends. *)
LEMMA OneWay ==
  ASSUME SockInv, NEW e \in Ends, sock[e].nextTx = 1
  PROVE  sock[e].una = 1 /\ sock[Peer(e)].nextRx = 1
  <1>1. /\ Fit(sock[e], sock[Peer(e)].nextRx, sock[Peer(e)].una)
        /\ Fit(sock[Peer(e)], sock[e].nextRx, sock[e].una)
        /\ {sock[e].una, sock[Peer(e)].nextRx} \subseteq Nat
    BY PairFacts
  <1>2. /\ 1 <= sock[Peer(e)].nextRx /\ sock[Peer(e)].nextRx <= sock[e].nextTx
        /\ 1 <= sock[e].una /\ sock[e].una <= sock[Peer(e)].nextRx
    BY <1>1 DEF Fit, Stream
  <1>q. QED
    BY <1>1, <1>2

LEMMA WireTail ==
  ASSUME NEW x \in Socket, x.wire # <<>>, NEW w \in Socket, w = [x EXCEPT !.wire = Tail(@)]
  PROVE  (Receiver(x) => Receiver(w)) /\ (OnlySends(x) => OnlySends(w))
  <1>1. /\ x.wire \in Seq(Segment) /\ w.wire = Tail(x.wire)
        /\ SameOut(x, w) /\ SameIn(x, w) /\ SameEcho(x, w) /\ w.ecnState = x.ecnState
        /\ w.delayedAckReserved = x.delayedAckReserved /\ w.delAckTimer = x.delAckTimer
    BY DEF Socket, SameOut, SameIn, SameEcho
  <1>2. /\ Len(x.wire) \in Nat /\ Len(w.wire) = Len(x.wire) - 1
        /\ \A i \in 1..Len(x.wire) - 1 : w.wire[i] = x.wire[i + 1] /\ i + 1 \in 1..Len(x.wire)
    BY <1>1
  <1>3. ASSUME Receiver(x) PROVE Receiver(w)
    <2>1. \A i \in 1..Len(w.wire) : EchoFits(x, w.wire[i])
      BY <1>2, <1>3 DEF Receiver
    <2>2. \A i \in 1..Len(w.wire) : EchoFits(w, w.wire[i])
      BY <1>1, <2>1 DEF EchoFits, SameIn, Heard
    <2>3. Heard(w) = Heard(x) /\ w.marked = x.marked /\ w.nextRx = x.nextRx
      BY <1>1 DEF SameIn, Heard
    <2>q. QED
      BY <1>1, <1>3, <2>2, <2>3 DEF Receiver, SameOut, SameIn, SameEcho
  <1>4. ASSUME OnlySends(x) PROVE OnlySends(w)
    BY <1>1, <1>2, <1>4 DEF OnlySends
  <1>q. QED
    BY <1>3, <1>4

LEMMA EchoNext ==
  ASSUME SockInv, EchoInv, [Next]_sock
  PROVE  EchoInv'
  <1>s. sock \in [Ends -> Socket]
    BY DEF SockInv
  <1>0. SUFFICES ASSUME NEW e \in Ends \ Senders
                 PROVE  Receiver(sock'[e]) /\ OnlySends(sock'[Peer(e)])
    BY DEF EchoInv
  <1> DEFINE d == Peer(e)
  <1>1. /\ e \in Ends /\ d \in Ends /\ d # e /\ Peer(d) = e /\ \A c \in Ends : c = e \/ c = d
    BY PeerIs DEF Ends
  <1>2. /\ Receiver(sock[e]) /\ OnlySends(sock[d])
        /\ sock[e] \in Socket /\ sock[d] \in Socket
    BY <1>s, <1>1 DEF EchoInv
  <1>3. sock[e].nextTx = 1 /\ sock[e].una = 1 /\ sock[d].nextRx = 1
    <2>1. sock[e].nextTx = 1
      BY <1>2 DEF Receiver
    <2>q. QED
      BY <1>1, <2>1, OneWay
  <1> HIDE DEF d
  <1>4. CASE UNCHANGED sock
    BY <1>2, <1>4 DEF d
  <1>5. ASSUME NEW c \in Ends, Send(c)
        PROVE  Receiver(sock'[e]) /\ OnlySends(sock'[Peer(e)])
    <2>1. PICK n \in Sendable(c, sock[c]) \ {0} :
            sock' = [sock EXCEPT ![c] = SendPendingData(sock[c], n)]
      BY <1>5 DEF Send
    <2>2. c \in Senders
      BY <2>1 DEF Sendable
    <2>3. c = d
      BY <1>1, <2>2
    <2> DEFINE v == SendPendingData(sock[d], n)
    <2>4. n \in Nat
      BY <2>1, FeedbackAssumption DEF FeedbackAssumption, Sendable
    <2>5. DataSent(sock[d], n, v)
      BY <1>2, <2>4, SendPendingEffect
    <2>6. sock'[d] = v /\ sock'[e] = sock[e]
      BY <1>s, <1>1, <2>1, <2>3
    <2> HIDE DEF v
    <2>7. OnlySends(v)
      BY <1>2, <2>4, <2>5, OnlyDataSent
    <2>q. QED
      BY <1>2, <2>6, <2>7 DEF d
  <1>6. ASSUME NEW c \in Ends, NEW ce \in BOOLEAN, Receive(c, ce)
        PROVE  Receiver(sock'[e]) /\ OnlySends(sock'[Peer(e)])
    <2>1. PICK v : HeadArrives(c, ce, v)
      BY <1>6, <1>s, ReceiveIs DEF HeadArrives
    <2>2. PICK w : PairStep(c, v, w)
      BY <2>1, HeadStep
    <2> DEFINE p == Head(sock[Peer(c)].wire)
    <2>3. /\ sock[Peer(c)].wire # <<>> /\ Arrives(c, sock[c], p, ce, v)
      BY <2>1 DEF HeadArrives
    <2>4. /\ p \in Segment /\ p.seq = sock[c].nextRx /\ p.ack \in 1..sock[Peer(c)].nextRx
      BY <2>3, HeadSeq
    <2>5. /\ Fit(sock[c], sock[Peer(c)].nextRx, sock[Peer(c)].una)
          /\ sock[Peer(c)].nextRx \in Nat /\ sock[Peer(c)].una \in Nat
          /\ sock[Peer(c)] \in Socket
      BY PairFacts
    <2>6. /\ sock'[c] = v /\ sock'[Peer(c)] = w /\ w \in Socket
          /\ w = [sock[Peer(c)] EXCEPT !.wire = Tail(@)]
      BY <2>2 DEF PairStep
    <2>7. sock[Peer(c)].wire \in Seq(Segment)
      BY <2>5, SocketFacts
    <2> HIDE DEF p
    <2>8. CASE c = e
      <3>1. Peer(c) = d
        BY <2>8 DEF d
      <3>2. p.data = TRUE
        <4>1. p = sock[d].wire[1] /\ 1 \in 1..Len(sock[d].wire)
          BY <2>3, <2>7, <3>1 DEF p
        <4>q. QED
          BY <1>2, <4>1 DEF OnlySends
      <3>3. p.ack = 1
        BY <1>3, <2>4, <3>1
      <3>4. Receiver(v)
        BY <1>2, <1>3, <2>3, <2>4, <2>5, <2>8, <3>2, <3>3, ReceiverArrives
      <3>5. OnlySends(w)
        BY <1>2, <2>3, <2>5, <2>6, <3>1, WireTail
      <3>q. QED
        BY <2>6, <2>8, <3>1, <3>4, <3>5 DEF d
    <2>9. CASE c = d
      <3>1. Peer(c) = e
        BY <1>1, <2>9
      <3>2. p.data = FALSE
        <4>1. p = sock[e].wire[1] /\ 1 \in 1..Len(sock[e].wire)
          BY <2>3, <2>7, <3>1 DEF p
        <4>q. QED
          BY <1>2, <4>1 DEF Receiver, EchoFits
      <3>3. OnlySends(v)
        <4>1. OnlySends(sock[c])
          BY <1>2, <2>9
        <4>q. QED
          BY <2>3, <2>4, <2>5, <3>2, <4>1, SenderArrives
      <3>4. Receiver(w)
        BY <1>2, <2>3, <2>5, <2>6, <3>1, WireTail
      <3>q. QED
        BY <2>6, <2>9, <3>1, <3>3, <3>4 DEF d
    <2>q. QED
      BY <1>1, <2>8, <2>9
  <1>7. ASSUME NEW c \in Ends, DelAckTimeout(c)
        PROVE  Receiver(sock'[e]) /\ OnlySends(sock'[Peer(e)])
    <2>1. /\ sock[c].delAckTimer
          /\ sock' = [sock EXCEPT ![c] = Acknowledge(TimedOut(sock[c]))]
      BY <1>7, TimeoutIs
    <2>2. c = e
      BY <1>1, <1>2, <2>1 DEF OnlySends
    <2>3. sock'[e] = Acknowledge(TimedOut(sock[e])) /\ sock'[d] = sock[d]
      BY <1>s, <1>1, <2>1, <2>2
    <2>4. Receiver(sock'[e])
      BY <1>2, <2>1, <2>2, <2>3, ReceiverTimeout
    <2>q. QED
      BY <1>2, <2>3, <2>4 DEF d
  <1>q. QED
    BY <1>4, <1>5, <1>6, <1>7 DEF Next

LEMMA EchoSafe ==
  ASSUME EchoInv
  PROVE  EchoFollowsMark /\ EchoOffByOne
  <1>1. ASSUME NEW e \in Ends \ Senders
        PROVE  /\ sock[e].ceState = (sock[e].nextRx - 1 \in Heard(sock[e]))
               /\ sock[e].ceState = (sock[e].ecnState \in Echoing)
               /\ \A i \in 1..Len(sock[e].wire) : EchoFits(sock[e], sock[e].wire[i])
    BY DEF EchoInv, Receiver
  <1>2. EchoFollowsMark
    BY <1>1 DEF EchoFollowsMark
  <1>3. EchoOffByOne
    BY <1>1 DEF EchoOffByOne, EchoFits
  <1>q. QED
    BY <1>2, <1>3

LEMMA EchoAlways == Spec => [](SockInv /\ EchoInv)
  <1>1. Init => SockInv /\ EchoInv
    BY SockInit, EchoInit
  <1>2. SockInv /\ EchoInv /\ [Next]_sock => (SockInv /\ EchoInv)'
    BY SockNext, EchoNext
  <1>q. QED
    BY <1>1, <1>2, PTL DEF Spec

(* A receiver knows the mark of the last packet and echoes it, whatever CWR, *)
(* timers and early acknowledgements did to m_ecnState in the meantime: all  *)
(* marks but that of the first segment after a marked packet of the          *)
(* handshake, which ForwardUp takes for an old one.                          *)
THEOREM EchoCorrect == Spec => []EchoFollowsMark
  <1>1. SockInv /\ EchoInv => EchoFollowsMark
    BY EchoSafe
  <1>q. QED
    BY <1>1, EchoAlways, PTL

(* An echo is the mark, as far as it was heard, of the last segment it       *)
(* acknowledges, or of the next.                                             *)
THEOREM EchoDistance == Spec => []EchoOffByOne
  <1>1. SockInv /\ EchoInv => EchoOffByOne
    BY EchoSafe
  <1>q. QED
    BY <1>1, EchoAlways, PTL
=============================================================================
