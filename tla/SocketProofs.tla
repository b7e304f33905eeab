----------------------------- MODULE SocketProofs -----------------------------
(***************************************************************************)
(* Facts about one connection that the proofs about the readers on it      *)
(* share.  The stream is what a reader has still to read, what has arrived *)
(* and what is on its way: its byte p is StreamAt(p).  The network moves   *)
(* bytes from one part to the other, and may cut the stream at its end.    *)
(***************************************************************************)
EXTENDS Socket, TLAPS

StreamLength == Len(rx) + Len(wire)
StreamAt(p) == IF p <= Len(rx) THEN rx[p] ELSE wire[p - Len(rx)]

\* What is left of the stream when d bytes are taken from its front and some
\* may be lost at its end.
StreamCut(d) ==
  /\ StreamLength' > 0 => StreamLength' <= StreamLength - d
  /\ \A p \in 1..StreamLength' : StreamAt(p)' = StreamAt(p + d)
  /\ up' /\ peer' # "gone" => up /\ peer # "gone" /\ StreamLength' = StreamLength - d

\* Lengths are natural numbers.
LEMMA StreamNat ==
  ASSUME SocketTypeOK
  PROVE  Len(rx) \in Nat /\ Len(wire) \in Nat /\ StreamLength \in Nat
<1>1. Len(rx) \in Nat /\ Len(wire) \in Nat
  BY DEF SocketTypeOK
<1> QED BY <1>1 DEF StreamLength

\* The first part of a sequence, and the rest behind it.
LEMMA SequenceParts ==
  ASSUME NEW s \in Seq(Byte), NEW k \in 0..Len(s)
  PROVE  /\ SubSeq(s, 1, k) \in Seq(Byte) /\ Len(SubSeq(s, 1, k)) = k
         /\ \A p \in 1..k : SubSeq(s, 1, k)[p] = s[p]
         /\ SubSeq(s, k + 1, Len(s)) \in Seq(Byte)
         /\ Len(SubSeq(s, k + 1, Len(s))) = Len(s) - k
         /\ \A p \in 1..Len(s) - k : SubSeq(s, k + 1, Len(s))[p] = s[k + p]
  OBVIOUS

\* Two sequences behind each other.
LEMMA SequencesJoined ==
  ASSUME NEW s \in Seq(Byte), NEW t \in Seq(Byte)
  PROVE  /\ s \o t \in Seq(Byte) /\ Len(s \o t) = Len(s) + Len(t)
         /\ \A p \in 1..Len(s) : (s \o t)[p] = s[p]
         /\ \A p \in Len(s) + 1..Len(s) + Len(t) : (s \o t)[p] = t[p - Len(s)]
  OBVIOUS

\* The network keeps the ranges of the socket's variables.
LEMMA NetworkType ==
  ASSUME SocketTypeOK, (\E k \in 1..Len(wire) : Arrive(k)) \/ PeerCloses \/ PeerVanishes
  PROVE  SocketTypeOK'
<1>1. <<>> \in Seq(Byte)
  OBVIOUS
<1>2. ASSUME NEW k \in 1..Len(wire), Arrive(k) PROVE SocketTypeOK'
  <2>1. wire \in Seq(Byte) /\ rx \in Seq(Byte) /\ k \in 0..Len(wire)
    BY DEF SocketTypeOK
  <2>2. rx \o SubSeq(wire, 1, k) \in Seq(Byte) /\ SubSeq(wire, k + 1, Len(wire)) \in Seq(Byte)
    BY <2>1, SequenceParts, SequencesJoined
  <2> QED BY <1>2, <2>2 DEF Arrive, SocketTypeOK
<1>3. CASE PeerCloses
  BY <1>3 DEF PeerCloses, SocketTypeOK
<1>4. CASE PeerVanishes
  BY <1>1, <1>4 DEF PeerVanishes, SocketTypeOK
<1> QED BY <1>2, <1>3, <1>4

\* What is written at the other end comes at the end of the stream.
LEMMA StreamGrows ==
  ASSUME SocketTypeOK, NEW bytes \in Seq(Byte), wire' = wire \o bytes, rx' = rx
  PROVE  /\ wire' \in Seq(Byte)
         /\ StreamLength' = StreamLength + Len(bytes)
         /\ \A p \in 1..StreamLength : StreamAt(p)' = StreamAt(p)
         /\ \A p \in StreamLength + 1..StreamLength + Len(bytes) :
              StreamAt(p)' = bytes[p - StreamLength]
<1>1. wire \in Seq(Byte) /\ rx \in Seq(Byte)
  BY DEF SocketTypeOK
<1>2. wire' \in Seq(Byte) /\ Len(wire') = Len(wire) + Len(bytes)
  BY <1>1, SequencesJoined
<1>3. /\ \A p \in 1..Len(wire) : wire'[p] = wire[p]
      /\ \A p \in Len(wire) + 1..Len(wire) + Len(bytes) : wire'[p] = bytes[p - Len(wire)]
  BY <1>1, SequencesJoined
<1> DEFINE r == Len(rx)
           w == Len(wire)
           n == Len(bytes)
<1>5. r \in Nat /\ w \in Nat /\ n \in Nat
  BY <1>1
<1>6. /\ StreamLength = r + w /\ StreamLength' = r + (w + n)
      /\ \A p : StreamAt(p) = IF p <= r THEN rx[p] ELSE wire[p - r]
      /\ \A p : StreamAt(p)' = IF p <= r THEN rx[p] ELSE wire'[p - r]
  BY <1>1, <1>2 DEF StreamLength, StreamAt
<1>7. /\ \A p \in 1..w : wire'[p] = wire[p]
      /\ \A p \in w + 1..w + n : wire'[p] = bytes[p - w]
  BY <1>3
<1> HIDE DEF r, w, n
<1>8. \A p \in 1..StreamLength : StreamAt(p)' = StreamAt(p)
  <2> SUFFICES ASSUME NEW p \in 1..r + w PROVE StreamAt(p)' = StreamAt(p)
    BY <1>6
  <2>1. CASE p <= r
    BY <1>6, <2>1
  <2>2. CASE ~(p <= r)
    <3>1. p - r \in 1..w
      BY <1>5, <2>2
    <3> QED BY <1>6, <1>7, <2>2, <3>1
  <2> QED BY <2>1, <2>2
<1>9. \A p \in StreamLength + 1..StreamLength + n : StreamAt(p)' = bytes[p - StreamLength]
  <2> SUFFICES ASSUME NEW p \in r + w + 1..r + w + n PROVE StreamAt(p)' = bytes[p - (r + w)]
    BY <1>6
  <2>1. ~(p <= r) /\ p - r \in w + 1..w + n /\ (p - r) - w = p - (r + w)
    BY <1>5
  <2> QED BY <1>6, <1>7, <2>1
<1> QED BY <1>2, <1>5, <1>6, <1>8, <1>9 DEF n

\* What the peer writes.
LEMMA WritesGrow ==
  ASSUME SocketTypeOK, NEW bytes \in Seq(Byte), PeerWrites(bytes)
  PROVE  /\ SocketTypeOK'
         /\ StreamLength' = StreamLength + Len(bytes)
         /\ \A p \in 1..StreamLength : StreamAt(p)' = StreamAt(p)
         /\ \A p \in StreamLength + 1..StreamLength + Len(bytes) :
              StreamAt(p)' = bytes[p - StreamLength]
<1>1. wire' = wire \o bytes /\ UNCHANGED <<up, peer, rx, tx>>
  BY DEF PeerWrites
<1>2. SocketTypeOK'
  BY <1>1, StreamGrows DEF SocketTypeOK
<1> QED BY <1>1, <1>2, StreamGrows

\* The network delivers, or the peer leaves: nothing is taken from the front.
LEMMA NetworkCut ==
  ASSUME SocketTypeOK, (\E k \in 1..Len(wire) : Arrive(k)) \/ PeerCloses \/ PeerVanishes
  PROVE  StreamCut(0)
<1>0. /\ rx \in Seq(Byte) /\ wire \in Seq(Byte) /\ StreamLength \in Nat
  BY StreamNat DEF SocketTypeOK
<1>1. ASSUME NEW k \in 1..Len(wire), Arrive(k) PROVE StreamCut(0)
  <2>1. /\ rx' = rx \o SubSeq(wire, 1, k) /\ wire' = SubSeq(wire, k + 1, Len(wire))
        /\ UNCHANGED <<up, peer>>
    BY <1>1 DEF Arrive
  <2>2. /\ Len(rx') = Len(rx) + k /\ Len(wire') = Len(wire) - k
        /\ \A p \in 1..Len(rx) : rx'[p] = rx[p]
        /\ \A p \in Len(rx) + 1..Len(rx) + k : rx'[p] = wire[p - Len(rx)]
        /\ \A p \in 1..Len(wire) - k : wire'[p] = wire[k + p]
    <3> DEFINE part == SubSeq(wire, 1, k)
    <3>1. /\ part \in Seq(Byte) /\ Len(part) = k /\ \A p \in 1..k : part[p] = wire[p]
          /\ Len(wire') = Len(wire) - k /\ \A p \in 1..Len(wire) - k : wire'[p] = wire[k + p]
      <4>1. k \in 0..Len(wire)
        BY <1>0
      <4> QED BY <1>0, <2>1, <4>1, SequenceParts
    <3>2. rx' = rx \o part
      BY <2>1
    <3> HIDE DEF part
    <3>3. /\ Len(rx') = Len(rx) + k
          /\ \A p \in 1..Len(rx) : rx'[p] = rx[p]
          /\ \A p \in Len(rx) + 1..Len(rx) + k : rx'[p] = part[p - Len(rx)]
      BY <1>0, <3>1, <3>2, SequencesJoined
    <3>4. \A p \in Len(rx) + 1..Len(rx) + k : part[p - Len(rx)] = wire[p - Len(rx)]
      BY <1>0, <3>1
    <3> QED BY <3>1, <3>3, <3>4
  <2>3. StreamLength' = StreamLength
    BY <1>0, <2>2 DEF StreamLength
  <2>4. ASSUME NEW p \in 1..StreamLength' PROVE StreamAt(p)' = StreamAt(p)
    <3>1. CASE p <= Len(rx)
      BY <1>0, <2>2, <3>1 DEF StreamAt
    <3>2. CASE p > Len(rx) /\ p <= Len(rx) + k
      BY <1>0, <2>2, <3>2 DEF StreamAt
    <3>3. CASE p > Len(rx) + k
      <4>1. p - Len(rx') \in 1..Len(wire) - k /\ k + (p - Len(rx')) = p - Len(rx)
        BY <1>0, <2>2, <2>3, <3>3 DEF StreamLength
      <4>2. StreamAt(p)' = wire'[p - Len(rx')]
        BY <1>0, <2>2, <3>3 DEF StreamAt
      <4>3. StreamAt(p) = wire[p - Len(rx)]
        BY <1>0, <3>3 DEF StreamAt
      <4> QED BY <2>2, <4>1, <4>2, <4>3
    <3> QED BY <1>0, <3>1, <3>2, <3>3
  <2> QED BY <1>0, <2>1, <2>3, <2>4 DEF StreamCut
<1>2. CASE PeerCloses
  BY <1>0, <1>2 DEF PeerCloses, StreamCut, StreamLength, StreamAt
<1>3. CASE PeerVanishes
  <2>1. peer' = "gone" /\ wire' = <<>> /\ rx' \in {rx, <<>>}
    BY <1>3 DEF PeerVanishes
  <2>2. CASE rx' = rx
    BY <1>0, <2>1, <2>2 DEF StreamCut, StreamLength, StreamAt
  <2>3. CASE rx' = <<>>
    BY <1>0, <2>1, <2>3 DEF StreamCut, StreamLength
  <2> QED BY <2>1, <2>2, <2>3
<1> QED BY <1>1, <1>2, <1>3

\* A reader takes n bytes that have arrived.
LEMMA ReadCut ==
  ASSUME SocketTypeOK, NEW n \in 0..Len(rx), rx' = SubSeq(rx, n + 1, Len(rx)),
         UNCHANGED <<up, peer, wire>>
  PROVE  rx' \in Seq(Byte) /\ StreamCut(n) /\ StreamLength' = StreamLength - n
<1>1. /\ rx \in Seq(Byte) /\ wire \in Seq(Byte) /\ Len(wire) \in Nat /\ Len(rx) \in Nat
  BY StreamNat DEF SocketTypeOK
<1>2. rx' \in Seq(Byte) /\ Len(rx') = Len(rx) - n /\ \A p \in 1..Len(rx) - n : rx'[p] = rx[n + p]
  BY <1>1, SequenceParts
<1> DEFINE r == Len(rx)
           w == Len(wire)
<1>3. /\ StreamLength = r + w /\ StreamLength' = (r - n) + w
      /\ \A p : StreamAt(p) = IF p <= r THEN rx[p] ELSE wire[p - r]
      /\ \A p : StreamAt(p)' = IF p <= r - n THEN rx'[p] ELSE wire[p - (r - n)]
  BY <1>2 DEF StreamLength, StreamAt
<1>4. r \in Nat /\ w \in Nat /\ n \in 0..r /\ \A p \in 1..r - n : rx'[p] = rx[n + p]
  BY <1>1, <1>2
<1> HIDE DEF r, w
<1>5. StreamLength' = StreamLength - n
  BY <1>3, <1>4
<1>6. ASSUME NEW p \in 1..StreamLength' PROVE StreamAt(p)' = StreamAt(p + n)
  <2>1. p \in 1..(r - n) + w
    BY <1>3
  <2>2. CASE p <= r - n
    <3>1. p \in 1..r - n /\ p + n <= r /\ n + p = p + n
      BY <1>4, <2>1, <2>2
    <3> QED BY <1>3, <1>4, <2>2, <3>1
  <2>3. CASE ~(p <= r - n)
    <3>1. ~(p + n <= r) /\ p - (r - n) = (p + n) - r
      BY <1>4, <2>1, <2>3
    <3> QED BY <1>3, <2>3, <3>1
  <2> QED BY <2>2, <2>3
<1>7. StreamLength' <= StreamLength - n
  BY <1>3, <1>4
<1> QED BY <1>2, <1>5, <1>6, <1>7 DEF StreamCut
===============================================================================
