------------------------------ MODULE UdpProofs ------------------------------
(***************************************************************************)
(* Safety of a UDP association for every number of datagrams, answers and  *)
(* control segments, and that it implements the abstract association.      *)
(*                                                                         *)
(* Every action is one completion, which changes one or two of the three   *)
(* records and perhaps the state.  So the invariant has one part for each  *)
(* of the two UDP sockets, whatever the session's state (LocalGood,        *)
(* HostGood), one for what their queues wait for while the session lives   *)
(* (LocalServed, HostServed), and one for what each state waits for        *)
(* (Waiting).  A packet that moves from one queue to the next leaves the   *)
(* concatenation of the queues as it was (MoveHead): only taking a packet  *)
(* changes it (InsertNumbered).                                            *)
(***************************************************************************)
EXTENDS UdpRelay, StreamsProofs, SequenceTheorems

(* The packets 1..n, each once; those of one kind in the order they came *)
Numbered(q, n) ==
    /\ Len(q) = n
    /\ \A i \in DOMAIN q : q[i].n \in 1..n
    /\ \A m \in 1..n : \E i \in DOMAIN q : q[i].n = m
    /\ \A i, j \in DOMAIN q : i # j => q[i].n # q[j].n
    /\ \A i, j \in DOMAIN q : i < j /\ q[i].to = q[j].to => q[i].n < q[j].n

LEMMA MoveHead ==
    ASSUME NEW S, NEW a \in Seq(S), NEW b \in Seq(S), b # <<>>
    PROVE  /\ Append(a, Head(b)) \in Seq(S) /\ Tail(b) \in Seq(S)
           /\ Append(a, Head(b)) \o Tail(b) = a \o b
  <1>1. /\ Head(b) \in S /\ Tail(b) \in Seq(S)
        /\ <<Head(b)>> \o Tail(b) = b
    BY HeadTailProperties
  <1>2. Append(a, Head(b)) \in Seq(S) /\ Append(a, Head(b)) = a \o <<Head(b)>>
    BY <1>1, AppendProperties, AppendIsConcat
  <1>3. <<Head(b)>> \in Seq(S)
    BY <1>1
  <1>4. (a \o <<Head(b)>>) \o Tail(b) = a \o (<<Head(b)>> \o Tail(b))
    BY <1>1, <1>3, ConcatAssociative
  <1>5. QED BY <1>1, <1>2, <1>4

(* An element behind the second of two sequences is one behind both. *)
LEMMA AppendRight ==
    ASSUME NEW S, NEW a \in Seq(S), NEW b \in Seq(S), NEW e \in S
    PROVE  /\ Append(b, e) \in Seq(S) /\ a \o Append(b, e) \in Seq(S)
           /\ a \o Append(b, e) = Append(a \o b, e)
  <1>1. Append(b, e) \in Seq(S) /\ Append(b, e) = b \o <<e>>
    BY AppendProperties, AppendIsConcat
  <1>2. a \o b \in Seq(S) /\ a \o Append(b, e) \in Seq(S)
    BY <1>1, ConcatProperties
  <1>3. Append(a \o b, e) = (a \o b) \o <<e>>
    BY <1>2, AppendIsConcat
  <1>4. <<e>> \in Seq(S)
    OBVIOUS
  <1>5. (a \o b) \o <<e>> = a \o (b \o <<e>>)
    BY <1>4, ConcatAssociative
  <1>6. QED BY <1>1, <1>2, <1>3, <1>5

(* A packet that is taken goes behind all of its kind. *)
LEMMA InsertNumbered ==
    ASSUME NEW a \in Seq(Packet), NEW b \in Seq(Packet), NEW n \in Nat, Numbered(a \o b, n),
           NEW p \in Packet, p.n = n + 1, \A i \in DOMAIN b : b[i].to # p.to
    PROVE  Numbered(Append(a, p) \o b, n + 1)
  <1> DEFINE q == a \o b
             r == Append(a, p) \o b
             k == Len(a) + 1
  <1>1. Len(a) \in Nat /\ Len(b) \in Nat /\ DOMAIN b = 1..Len(b)
    BY LenProperties
  <1>2. /\ Append(a, p) \in Seq(Packet) /\ Len(Append(a, p)) = k
        /\ \A i \in 1..Len(a) : Append(a, p)[i] = a[i]
        /\ Append(a, p)[k] = p
    BY AppendProperties
  <1>3. /\ q \in Seq(Packet) /\ Len(q) = Len(a) + Len(b) /\ DOMAIN q = 1..Len(q)
        /\ \A i \in 1..(Len(a) + Len(b)) : q[i] = IF i <= Len(a) THEN a[i] ELSE b[i - Len(a)]
    BY ConcatProperties, LenProperties
  <1>4. /\ r \in Seq(Packet) /\ Len(r) = k + Len(b) /\ DOMAIN r = 1..Len(r)
        /\ \A i \in 1..(k + Len(b)) : r[i] = IF i <= k THEN Append(a, p)[i] ELSE b[i - k]
    <2> DEFINE c == Append(a, p)
    <2>1. c \in Seq(Packet) /\ Len(c) = k
      BY <1>2
    <2> HIDE DEF c, k
    <2>2. /\ c \o b \in Seq(Packet) /\ Len(c \o b) = Len(c) + Len(b)
          /\ \A i \in 1..(Len(c) + Len(b)) : (c \o b)[i] = IF i <= Len(c) THEN c[i] ELSE b[i - Len(c)]
      BY <2>1, ConcatProperties
    <2>3. DOMAIN (c \o b) = 1..Len(c \o b)
      BY <2>2, LenProperties
    <2>4. QED BY <2>1, <2>2, <2>3 DEF c
  <1>5. /\ Len(q) = n
        /\ \A i \in DOMAIN q : q[i].n \in 1..n
        /\ \A m \in 1..n : \E i \in DOMAIN q : q[i].n = m
        /\ \A i, j \in DOMAIN q : i # j => q[i].n # q[j].n
        /\ \A i, j \in DOMAIN q : i < j /\ q[i].to = q[j].to => q[i].n < q[j].n
    BY DEF Numbered
  <1> HIDE DEF q, r
  <1>6. Len(r) = n + 1 /\ DOMAIN q = 1..n /\ DOMAIN r = 1..(n + 1) /\ k \in 1..(n + 1)
    BY <1>1, <1>3, <1>4, <1>5
  <1>7. /\ \A i \in 1..n : q[i].n \in 1..n
        /\ \A m \in 1..n : \E i \in 1..n : q[i].n = m
        /\ \A i, j \in 1..n : i # j => q[i].n # q[j].n
        /\ \A i, j \in 1..n : i < j /\ q[i].to = q[j].to => q[i].n < q[j].n
    BY <1>5, <1>6
  <1>8. r[k] = p
    BY <1>1, <1>2, <1>4
  <1>9. ASSUME NEW i \in 1..(n + 1), i < k PROVE i \in 1..n /\ r[i] = q[i]
    <2>1. i \in 1..Len(a) /\ i \in 1..(Len(a) + Len(b)) /\ i \in 1..(k + Len(b))
      BY <1>1, <1>9
    <2>2. i <= Len(a) /\ i <= k
      BY <1>1, <1>9
    <2>3. q[i] = a[i] /\ r[i] = a[i]
      BY <1>2, <1>3, <1>4, <2>1, <2>2
    <2>4. i \in 1..n
      BY <1>3, <1>5, <2>1
    <2>5. QED BY <2>3, <2>4
  <1>10. ASSUME NEW i \in 1..(n + 1), i > k
        PROVE  i - 1 \in 1..n /\ r[i] = q[i - 1] /\ r[i].to # p.to
    <2>1. /\ i - 1 \in 1..n /\ n = Len(a) + Len(b) /\ i \in 1..(k + Len(b))
          /\ i - 1 \in 1..(Len(a) + Len(b)) /\ ~(i - 1 <= Len(a)) /\ ~(i <= k)
          /\ (i - 1) - Len(a) = i - k /\ i - k \in 1..Len(b)
      <3>1. i \in Int /\ k \in Int /\ k = Len(a) + 1 /\ n = Len(a) + Len(b)
        BY <1>1, <1>3, <1>5
      <3> HIDE DEF k
      <3>2. i - 1 \in 1..n /\ i \in 1..(k + Len(b)) /\ i - 1 \in 1..(Len(a) + Len(b))
        BY <1>1, <1>10, <3>1
      <3>3. ~(i - 1 <= Len(a)) /\ ~(i <= k) /\ (i - 1) - Len(a) = i - k
        BY <1>1, <1>10, <3>1
      <3>4. i - k \in 1..Len(b)
        BY <1>1, <1>10, <3>1
      <3>5. QED BY <3>1, <3>2, <3>3, <3>4
    <2>2. r[i] = b[i - k]
      BY <1>4, <2>1
    <2>3. q[i - 1] = b[(i - 1) - Len(a)]
      BY <1>3, <2>1
    <2>4. QED BY <1>1, <2>1, <2>2, <2>3
  <1> HIDE DEF k
  <1>11. ASSUME NEW i \in 1..(n + 1)
         PROVE  r[i].n \in 1..(n + 1) /\ (i # k => r[i].n \in 1..n)
    <2>1. CASE i = k
      <3>1. r[i].n = n + 1
        BY <1>8, <2>1
      <3>2. QED BY <2>1, <3>1
    <2>2. CASE i < k
      <3>1. r[i].n \in 1..n
        BY <1>9, <1>7, <2>2
      <3>2. QED BY <3>1
    <2>3. CASE i > k
      <3>1. r[i].n \in 1..n
        BY <1>10, <1>7, <2>3
      <3>2. QED BY <3>1
    <2>4. QED BY <1>6, <2>1, <2>2, <2>3
  <1>12. ASSUME NEW m \in 1..(n + 1) PROVE \E i \in 1..(n + 1) : r[i].n = m
    <2>1. CASE m = n + 1
      BY <1>6, <1>8, <2>1
    <2>2. CASE m \in 1..n
      <3>1. PICK i \in 1..n : q[i].n = m
        BY <1>7, <2>2
      <3>2. CASE i < k
        BY <1>9, <3>1, <3>2
      <3>3. CASE i \geq k
        <4>1. i + 1 \in 1..(n + 1) /\ i + 1 > k /\ i + 1 - 1 = i
          BY <1>6, <3>3
        <4>2. r[i + 1] = q[i]
          BY <1>10, <4>1
        <4>3. QED BY <3>1, <4>1, <4>2
      <3>4. QED BY <1>6, <3>2, <3>3
    <2>3. QED BY <2>1, <2>2
  <1>13. ASSUME NEW i \in 1..(n + 1), NEW j \in 1..(n + 1), i < j
         PROVE  r[i].n # r[j].n /\ (r[i].to = r[j].to => r[i].n < r[j].n)
    <2>1. CASE j = k
      BY <1>6, <1>8, <1>11, <1>13, <2>1
    <2>2. CASE i = k
      BY <1>6, <1>8, <1>10, <1>11, <1>13, <2>2
    <2>3. CASE i < k /\ j < k
      <3>1. r[i] = q[i] /\ i \in 1..n /\ r[j] = q[j] /\ j \in 1..n
        BY <1>9, <2>3
      <3>2. QED BY <1>13, <1>7, <3>1
    <2>4. CASE i < k /\ j > k
      <3>1. r[i] = q[i] /\ i \in 1..n
        BY <1>9, <2>4
      <3>2. r[j] = q[j - 1] /\ j - 1 \in 1..n
        BY <1>10, <2>4
      <3>3. i < j - 1
        BY <1>6, <2>4
      <3>4. i # j - 1
        BY <3>3
      <3>5. /\ q[i].n # q[j - 1].n
            /\ q[i].to = q[j - 1].to => q[i].n < q[j - 1].n
        BY <1>7, <3>1, <3>2, <3>3, <3>4
      <3>6. QED BY <3>1, <3>2, <3>5
    <2>5. CASE i > k /\ j > k
      <3>1. r[i] = q[i - 1] /\ i - 1 \in 1..n
        BY <1>10, <2>5
      <3>2. r[j] = q[j - 1] /\ j - 1 \in 1..n
        BY <1>10, <2>5
      <3>3. i - 1 < j - 1
        BY <1>13
      <3>4. i - 1 # j - 1
        BY <3>3
      <3>5. /\ q[i - 1].n # q[j - 1].n
            /\ q[i - 1].to = q[j - 1].to => q[i - 1].n < q[j - 1].n
        BY <1>7, <3>1, <3>2, <3>3, <3>4
      <3>6. QED BY <3>1, <3>2, <3>5
    <2>6. QED BY <1>6, <1>13, <2>1, <2>2, <2>3, <2>4, <2>5
  <1>14. \A i, j \in 1..(n + 1) : i # j => r[i].n # r[j].n
    <2>1. \A i, j \in 1..(n + 1) : i # j => i < j \/ j < i
      OBVIOUS
    <2>2. QED BY <1>13, <2>1
  <1>15. Numbered(r, n + 1)
    BY <1>6, <1>11, <1>12, <1>13, <1>14 DEF Numbered
  <1>16. QED BY <1>15 DEF r

-----------------------------------------------------------------------------
Count(n) == [i \in 1..n |-> i]

(* The client's UDP socket: one send at most, of the front of the queue, and *)
(* the answers that went back and those still queued are 1..heard in order.  *)
LocalGood(l) ==
    /\ l \in LocalSocket
    /\ l.sends + l.doomed \leq 1
    /\ l.sends + l.doomed > 0 => l.writing = TRUE /\ l.queue # <<>>
    /\ l.back \o l.queue = Count(l.heard)

(* While the session lives the queue is being served *)
LocalServed(l) ==
    /\ l.writing = TRUE => l.sends + l.doomed > 0
    /\ l.queue # <<>> => l.sends + l.doomed > 0

Held(l) == l.receives + Len(l.filled)

(* r differs from l in nothing that concerns the answers *)
SameAnswers(l, r) ==
    /\ r \in LocalSocket
    /\ r.queue = l.queue /\ r.writing = l.writing /\ r.sends = l.sends /\ r.doomed = l.doomed
    /\ r.heard = l.heard /\ r.back = l.back

LEMMA SameAnswersGood ==
    ASSUME NEW l, NEW r, LocalGood(l), SameAnswers(l, r)
    PROVE  LocalGood(r) /\ (LocalServed(l) => LocalServed(r))
  BY DEF LocalGood, LocalServed, SameAnswers

(* A receive is started, done, handed over, or fails; the socket is opened or *)
(* closed: none of this touches the answers.                                  *)
LEMMA ReadUdp ==
    ASSUME NEW l \in LocalSocket
    PROVE  SameAnswers(l, read_udp(l)) /\ Held(read_udp(l)) = Held(l) + 1
  <1>1. l.receives \in Nat /\ l.receives + 1 \in Nat /\ l.filled \in Seq(Nat) /\ Len(l.filled) \in Nat
    BY LenProperties DEF LocalSocket
  <1>2. read_udp(l) \in LocalSocket
    BY <1>1 DEF read_udp, LocalSocket
  <1>3. SameAnswers(l, read_udp(l))
    BY <1>2 DEF read_udp, LocalSocket, SameAnswers
  <1>4. read_udp(l).receives = l.receives + 1 /\ read_udp(l).filled = l.filled
    BY DEF read_udp, LocalSocket
  <1>5. QED BY <1>1, <1>3, <1>4 DEF Held

LEMMA OpenUdp ==
    ASSUME NEW l \in LocalSocket
    PROVE  /\ SameAnswers(l, udp_associate(l)) /\ Held(udp_associate(l)) = Held(l)
           /\ udp_associate(l).bound = TRUE
           /\ SameAnswers(l, [udp_associate(l) EXCEPT !.use_udp = TRUE])
           /\ Held([udp_associate(l) EXCEPT !.use_udp = TRUE]) = Held(l)
           /\ SameAnswers(l, close_udp(l))
           /\ close_udp(l).receives = l.receives
  BY DEF udp_associate, close_udp, LocalSocket, SameAnswers, Held

LEMMA ReceiveDone ==
    ASSUME NEW l \in LocalSocket, l.receives > 0, NEW to \in Destinations
    PROVE  /\ SameAnswers(l, receive_done(l, to)) /\ Held(receive_done(l, to)) = Held(l)
           /\ receive_done(l, to).receives \leq l.receives
  <1> DEFINE r == receive_done(l, to)
  <1>1. /\ l.receives \in Nat /\ l.receives - 1 \in Nat /\ l.arrived + 1 \in Nat
        /\ l.filled \in Seq(Nat) /\ Len(l.filled) \in Nat
    BY LenProperties DEF LocalSocket
  <1>2. Append(l.filled, l.arrived + 1) \in Seq(Nat)
        /\ Len(Append(l.filled, l.arrived + 1)) = Len(l.filled) + 1
    BY <1>1, AppendProperties
  <1>3. r \in LocalSocket
    BY <1>1, <1>2 DEF receive_done, LocalSocket
  <1>4. SameAnswers(l, r)
    BY <1>3 DEF receive_done, LocalSocket, SameAnswers
  <1>5. r.receives = l.receives - 1 /\ r.filled = Append(l.filled, l.arrived + 1)
    BY DEF receive_done, LocalSocket
  <1> HIDE DEF r
  <1>6. Held(r) = Held(l) /\ r.receives \leq l.receives
    <2>1. Len(r.filled) = Len(l.filled) + 1
      BY <1>2, <1>5
    <2>2. Held(r) = (l.receives - 1) + (Len(l.filled) + 1) /\ Held(l) = l.receives + Len(l.filled)
      BY <1>5, <2>1 DEF Held
    <2>3. r.receives \leq l.receives
      BY <1>1, <1>5
    <2>4. (l.receives - 1) + (Len(l.filled) + 1) = l.receives + Len(l.filled)
      BY <1>1
    <2>5. QED BY <2>2, <2>3, <2>4
  <1>7. QED BY <1>4, <1>6 DEF r

LEMMA Received ==
    ASSUME NEW l \in LocalSocket, l.filled # <<>>
    PROVE  /\ SameAnswers(l, received(l)) /\ Held(received(l)) = Held(l) - 1
           /\ received(l).receives = l.receives
           /\ Understood(l) \subseteq Destinations
  <1> DEFINE r == received(l)
  <1>1. l.receives \in Nat /\ l.filled \in Seq(Nat) /\ Len(l.filled) \in Nat
    BY LenProperties DEF LocalSocket
  <1>2. Tail(l.filled) \in Seq(Nat) /\ Len(Tail(l.filled)) = Len(l.filled) - 1
    BY <1>1, HeadTailProperties
  <1>3. r \in LocalSocket
    BY <1>2 DEF received, LocalSocket
  <1>4. SameAnswers(l, r)
    BY <1>3 DEF received, LocalSocket, SameAnswers
  <1>5. r.receives = l.receives /\ r.filled = Tail(l.filled)
    BY DEF received, LocalSocket
  <1>6. Understood(l) \subseteq Destinations
    BY DEF Understood, LocalSocket, Destinations
  <1>7. QED BY <1>1, <1>2, <1>4, <1>5, <1>6 DEF Held

(* write_udp starts a send if none is under way and something is queued. *)
LEMMA WriteUdp ==
    ASSUME NEW l \in LocalSocket, l.sends + l.doomed \leq 1,
           l.sends + l.doomed > 0 => l.writing = TRUE /\ l.queue # <<>>
    PROVE  LET r == write_udp(l)
           IN /\ r \in LocalSocket
              /\ r.receives = l.receives /\ r.filled = l.filled
              /\ r.queue = l.queue /\ r.heard = l.heard /\ r.back = l.back
              /\ r.sends + r.doomed \leq 1
              /\ r.sends + r.doomed > 0 => r.writing = TRUE /\ r.queue # <<>>
              /\ (l.writing = TRUE => l.sends + l.doomed > 0) => LocalServed(r)
  <1>1. /\ l.sends \in Nat /\ l.doomed \in Nat
        /\ l.sends + 1 \in Nat /\ l.doomed + 1 \in Nat
    BY DEF LocalSocket
  <1>2. CASE l.queue = <<>> \/ l.writing = TRUE
    <2>0. l.queue = <<>> \/ l.writing
      BY <1>2
    <2>1. write_udp(l) = l
      BY <2>0 DEF write_udp
    <2>2. QED BY <1>2, <2>1 DEF LocalServed
  <1>3. CASE l.queue # <<>> /\ l.writing = FALSE /\ l.open = TRUE /\ l.known = TRUE
    <2> DEFINE r == [l EXCEPT !.writing = TRUE, !.sends = @ + 1]
    <2>1. write_udp(l) = r
      BY <1>3 DEF write_udp
    <2>2. r \in LocalSocket
      BY <1>1 DEF LocalSocket
    <2>3. /\ r.receives = l.receives /\ r.filled = l.filled
          /\ r.queue = l.queue /\ r.heard = l.heard /\ r.back = l.back
          /\ r.writing = TRUE /\ r.sends = l.sends + 1 /\ r.doomed = l.doomed
      BY DEF LocalSocket
    <2>4. l.sends = 0 /\ l.doomed = 0
      BY <1>1, <1>3
    <2> HIDE DEF r
    <2>5. r.sends + r.doomed = 1
      BY <1>1, <2>3, <2>4
    <2>6. QED BY <1>3, <2>1, <2>2, <2>3, <2>5 DEF LocalServed
  <1>4. CASE l.queue # <<>> /\ l.writing = FALSE /\ ~(l.open = TRUE /\ l.known = TRUE)
    <2> DEFINE r == [l EXCEPT !.writing = TRUE, !.doomed = @ + 1]
    <2>1. write_udp(l) = r
      BY <1>4 DEF write_udp
    <2>2. r \in LocalSocket
      BY <1>1 DEF LocalSocket
    <2>3. /\ r.receives = l.receives /\ r.filled = l.filled
          /\ r.queue = l.queue /\ r.heard = l.heard /\ r.back = l.back
          /\ r.writing = TRUE /\ r.sends = l.sends /\ r.doomed = l.doomed + 1
      BY DEF LocalSocket
    <2>4. l.sends = 0 /\ l.doomed = 0
      BY <1>1, <1>4
    <2> HIDE DEF r
    <2>5. r.sends + r.doomed = 1
      BY <1>1, <2>3, <2>4
    <2>6. QED BY <1>4, <2>1, <2>2, <2>3, <2>5 DEF LocalServed
  <1>5. l.writing \in BOOLEAN
    BY DEF LocalSocket
  <1>6. QED BY <1>2, <1>3, <1>4, <1>5

(* The answers taken, in order, are those sent and those queued. *)
LEMMA NextAnswer ==
    ASSUME NEW a \in Seq(Nat), NEW b \in Seq(Nat), NEW n \in Nat, a \o b = Count(n)
    PROVE  /\ Append(b, n + 1) \in Seq(Nat)
           /\ a \o Append(b, n + 1) = Count(n + 1)
  <1>1. n + 1 \in Nat
    OBVIOUS
  <1>2. Append(b, n + 1) \in Seq(Nat) /\ a \o Append(b, n + 1) = Append(a \o b, n + 1)
    BY <1>1, AppendRight
  <1>3. Append(Count(n), n + 1) = Count(n + 1)
    BY DEF Count
  <1>4. QED BY <1>2, <1>3

-----------------------------------------------------------------------------
(* An answer is taken: it goes to the end of the queue, which is then served. *)
LEMMA WriteAnswer ==
    ASSUME NEW l, LocalGood(l)
    PROVE  /\ LocalGood(write_answer(l)) /\ (LocalServed(l) => LocalServed(write_answer(l)))
           /\ Held(write_answer(l)) = Held(l)
           /\ write_answer(l).receives = l.receives
           /\ write_answer(l).heard = l.heard + 1 /\ write_answer(l).back = l.back
  <1> DEFINE m == [l EXCEPT !.heard = @ + 1, !.queue = Append(@, l.heard + 1)]
             r == write_udp(m)
  <1>1. /\ l \in LocalSocket /\ l.heard \in Nat /\ l.heard + 1 \in Nat
        /\ l.back \in Seq(Nat) /\ l.queue \in Seq(Nat)
        /\ l.sends \in Nat /\ l.doomed \in Nat
    BY DEF LocalGood, LocalSocket
  <1>2. /\ Append(l.queue, l.heard + 1) \in Seq(Nat)
        /\ l.back \o Append(l.queue, l.heard + 1) = Count(l.heard + 1)
    <2>1. l.back \o l.queue = Count(l.heard)
      BY DEF LocalGood
    <2>2. QED BY <1>1, <2>1, NextAnswer
  <1>3. Append(l.queue, l.heard + 1) # <<>>
    BY <1>1, AppendProperties
  <1>4. m \in LocalSocket
    BY <1>1, <1>2 DEF LocalSocket
  <1>5. /\ m.queue = Append(l.queue, l.heard + 1) /\ m.heard = l.heard + 1 /\ m.back = l.back
        /\ m.writing = l.writing /\ m.sends = l.sends /\ m.doomed = l.doomed
        /\ m.receives = l.receives /\ m.filled = l.filled
    BY <1>1 DEF LocalSocket
  <1>6. write_answer(l) = r
    BY DEF write_answer
  <1> HIDE DEF m
  <1>7. m.sends + m.doomed \leq 1 /\ (m.sends + m.doomed > 0 => m.writing = TRUE /\ m.queue # <<>>)
    BY <1>3, <1>5 DEF LocalGood
  <1>8. /\ r \in LocalSocket
        /\ r.receives = m.receives /\ r.filled = m.filled
        /\ r.queue = m.queue /\ r.heard = m.heard /\ r.back = m.back
        /\ r.sends + r.doomed \leq 1
        /\ r.sends + r.doomed > 0 => r.writing = TRUE /\ r.queue # <<>>
        /\ (m.writing = TRUE => m.sends + m.doomed > 0) => LocalServed(r)
    BY <1>4, <1>7, WriteUdp
  <1> HIDE DEF r
  <1>9. LocalGood(r)
    BY <1>2, <1>5, <1>8 DEF LocalGood
  <1>10. LocalServed(l) => LocalServed(r)
    BY <1>5, <1>8 DEF LocalServed
  <1>11. Held(r) = Held(l) /\ r.receives = l.receives /\ r.heard = l.heard + 1 /\ r.back = l.back
    BY <1>5, <1>8 DEF Held
  <1>12. QED BY <1>6, <1>9, <1>10, <1>11

(* An answer went back: the next one, and there was one. *)
LEMMA AnswerSent ==
    ASSUME NEW l, LocalGood(l), l.sends > 0
    PROVE  /\ LocalGood(answer_sent(l)) /\ LocalServed(answer_sent(l))
           /\ Held(answer_sent(l)) = Held(l)
           /\ answer_sent(l).receives = l.receives
           /\ answer_sent(l).heard = l.heard
           /\ answer_sent(l).back = Append(l.back, Len(l.back) + 1)
           /\ Len(l.back) < l.heard
  <1> DEFINE m == [l EXCEPT !.sends = @ - 1, !.back = Append(@, Head(l.queue)),
                            !.queue = Tail(@), !.writing = FALSE]
             r == write_udp(m)
             q == l.back \o l.queue
  <1>1. /\ l \in LocalSocket /\ l.heard \in Nat
        /\ l.back \in Seq(Nat) /\ l.queue \in Seq(Nat)
        /\ l.sends \in Nat /\ l.doomed \in Nat /\ l.sends - 1 = 0 /\ l.doomed = 0
        /\ l.queue # <<>>
    BY DEF LocalGood, LocalSocket
  <1>2. /\ Append(l.back, Head(l.queue)) \in Seq(Nat) /\ Tail(l.queue) \in Seq(Nat)
        /\ Append(l.back, Head(l.queue)) \o Tail(l.queue) = q
    BY <1>1, MoveHead
  <1>3. m \in LocalSocket
    BY <1>1, <1>2 DEF LocalSocket
  <1>4. /\ m.queue = Tail(l.queue) /\ m.heard = l.heard /\ m.back = Append(l.back, Head(l.queue))
        /\ m.writing = FALSE /\ m.sends = 0 /\ m.doomed = 0
        /\ m.receives = l.receives /\ m.filled = l.filled
    BY <1>1 DEF LocalSocket
  <1>5. answer_sent(l) = r
    BY DEF answer_sent
  <1> HIDE DEF m
  <1>6. /\ r \in LocalSocket
        /\ r.receives = m.receives /\ r.filled = m.filled
        /\ r.queue = m.queue /\ r.heard = m.heard /\ r.back = m.back
        /\ r.sends + r.doomed \leq 1
        /\ r.sends + r.doomed > 0 => r.writing = TRUE /\ r.queue # <<>>
        /\ LocalServed(r)
    <2>1. m.sends + m.doomed = 0
      BY <1>4
    <2>2. m.sends + m.doomed \leq 1 /\ ~(m.sends + m.doomed > 0)
      BY <2>1
    <2>3. QED BY <1>3, <1>4, <2>2, WriteUdp
  <1> HIDE DEF r
  <1>7. q = Count(l.heard)
    BY DEF LocalGood
  <1>8. Len(l.back) < l.heard /\ Head(l.queue) = Len(l.back) + 1
    <2>1. Len(l.back) \in Nat /\ Len(l.queue) \in Nat \ {0} /\ Head(l.queue) = l.queue[1]
      BY <1>1, EmptySeq, LenProperties
    <2>2. /\ q \in Seq(Nat) /\ Len(q) = Len(l.back) + Len(l.queue)
          /\ \A i \in 1..(Len(l.back) + Len(l.queue)) :
                 q[i] = IF i <= Len(l.back) THEN l.back[i] ELSE l.queue[i - Len(l.back)]
      BY <1>1, ConcatProperties
    <2>3. Len(q) = l.heard
      BY <1>1, <1>7 DEF Count
    <2> DEFINE k == Len(l.back) + 1
    <2> HIDE DEF q
    <2>4. k \in 1..(Len(l.back) + Len(l.queue)) /\ ~(k <= Len(l.back)) /\ k - Len(l.back) = 1
      <3>1. \A x, y \in Nat : y # 0 => /\ x + 1 \in 1..(x + y) /\ ~(x + 1 <= x) /\ (x + 1) - x = 1
        OBVIOUS
      <3>2. QED BY <2>1, <3>1
    <2>5. q[k] = l.queue[1]
      BY <2>2, <2>4
    <2>6. k \in 1..l.heard
      BY <2>2, <2>3, <2>4
    <2> HIDE DEF k
    <2>7. q[k] = k
      BY <1>7, <2>6 DEF Count
    <2>8. Len(l.back) < l.heard
      <3>1. \A x, y \in Nat : y # 0 => x < x + y
        OBVIOUS
      <3>2. l.heard = Len(l.back) + Len(l.queue)
        BY <2>2, <2>3
      <3>3. QED BY <2>1, <3>1, <3>2
    <2>9. QED BY <2>1, <2>5, <2>7, <2>8 DEF k
  <1>9. LocalGood(r)
    BY <1>2, <1>4, <1>6, <1>7 DEF LocalGood
  <1>10. Held(r) = Held(l) /\ r.receives = l.receives /\ r.heard = l.heard
         /\ r.back = Append(l.back, Len(l.back) + 1)
    BY <1>4, <1>6, <1>8 DEF Held
  <1>11. QED BY <1>5, <1>6, <1>8, <1>9, <1>10

(* An operation of the socket fails: its queue keeps what could not be sent. *)
LEMMA LocalFailed ==
    ASSUME NEW l, LocalGood(l), NEW op \in LocalFailures(l)
    PROVE  /\ LocalGood(local_failed(l, op))
           /\ local_failed(l, op).receives \leq l.receives
           /\ local_failed(l, op).heard = l.heard /\ local_failed(l, op).back = l.back
  <1> DEFINE r == local_failed(l, op)
  <1>1. l \in LocalSocket /\ l.receives \in Nat /\ l.sends \in Nat /\ l.doomed \in Nat
    BY DEF LocalGood, LocalSocket
  <1>2. CASE op = "receive"
    <2>1. r = [l EXCEPT !.receives = @ - 1] /\ l.receives - 1 \in Nat
      BY <1>1, <1>2 DEF local_failed, LocalFailures
    <2>2. SameAnswers(l, r) /\ r.receives = l.receives - 1
      BY <1>1, <2>1 DEF SameAnswers, LocalSocket
    <2>3. QED BY <1>1, <2>2, SameAnswersGood DEF SameAnswers
  <1>3. CASE op = "send"
    <2>1. r = [l EXCEPT !.sends = @ - 1] /\ l.sends - 1 \in Nat
      BY <1>1, <1>3 DEF local_failed, LocalFailures
    <2>2. /\ r \in LocalSocket /\ r.sends = l.sends - 1 /\ r.doomed = l.doomed
          /\ r.writing = l.writing /\ r.queue = l.queue
          /\ r.heard = l.heard /\ r.back = l.back /\ r.receives = l.receives
      BY <1>1, <2>1 DEF LocalSocket
    <2>3. r.sends + r.doomed \leq 1 /\ (r.sends + r.doomed > 0 => l.sends + l.doomed > 0)
      BY <1>1, <2>1, <2>2 DEF LocalGood
    <2> HIDE DEF r
    <2>4. LocalGood(r)
      BY <2>2, <2>3 DEF LocalGood
    <2>5. QED BY <1>1, <2>2, <2>4 DEF r
  <1>4. CASE op = "doomed"
    <2>1. r = [l EXCEPT !.doomed = @ - 1] /\ l.doomed - 1 \in Nat
      BY <1>1, <1>4 DEF local_failed, LocalFailures
    <2>2. /\ r \in LocalSocket /\ r.sends = l.sends /\ r.doomed = l.doomed - 1
          /\ r.writing = l.writing /\ r.queue = l.queue
          /\ r.heard = l.heard /\ r.back = l.back /\ r.receives = l.receives
      BY <1>1, <2>1 DEF LocalSocket
    <2>3. r.sends + r.doomed \leq 1 /\ (r.sends + r.doomed > 0 => l.sends + l.doomed > 0)
      BY <1>1, <2>1, <2>2 DEF LocalGood
    <2> HIDE DEF r
    <2>4. LocalGood(r)
      BY <2>2, <2>3 DEF LocalGood
    <2>5. QED BY <1>1, <2>2, <2>4 DEF r
  <1>5. QED BY <1>2, <1>3, <1>4 DEF LocalFailures

-----------------------------------------------------------------------------
(* The hosts' UDP socket: a flag is set exactly while its operation is       *)
(* outstanding, which refers to the front of its queue.                      *)
HostFlags(h) ==
    /\ h.receives \leq 1
    /\ h.sends = IF h.writing = TRUE THEN 1 ELSE 0
    /\ h.resolves = IF h.resolving = TRUE THEN 1 ELSE 0
    /\ h.writing = TRUE => h.write_queue # <<>>
    /\ h.resolving = TRUE => h.dns_queue # <<>>

Packets(h) == h.sent \o h.write_queue \o h.dns_queue

(* Every packet that was taken is in one place, only names are resolved *)
HostQueues(h) ==
    /\ \A i \in DOMAIN h.dns_queue : h.dns_queue[i].to = "name"
    /\ Numbered(Packets(h), h.taken)

HostGood(h) == h \in HostSocket /\ HostFlags(h) /\ HostQueues(h)

(* While the session lives both queues are being served, but for packets     *)
(* whose name was resolved.                                                  *)
HostServed(h) ==
    /\ h.dns_queue # <<>> => h.resolves > 0
    /\ (\E i \in DOMAIN h.write_queue : h.write_queue[i].to = "address") => h.sends > 0

(* r differs from h in nothing that concerns the packets *)
SamePackets(h, r) ==
    /\ r \in HostSocket
    /\ r.write_queue = h.write_queue /\ r.writing = h.writing /\ r.sends = h.sends
    /\ r.dns_queue = h.dns_queue /\ r.resolving = h.resolving /\ r.resolves = h.resolves
    /\ r.taken = h.taken /\ r.sent = h.sent

LEMMA SamePacketsGood ==
    ASSUME NEW h, NEW r, HostGood(h), SamePackets(h, r), r.receives \leq 1
    PROVE  HostGood(r) /\ (HostServed(h) => HostServed(r))
  BY DEF HostGood, HostFlags, HostQueues, Packets, HostServed, SamePackets

(* A receive is started, is done or fails. *)
LEMMA HostReceives ==
    ASSUME NEW h \in HostSocket
    PROVE  /\ SamePackets(h, host_read(h)) /\ host_read(h).receives = h.receives + 1
           /\ SamePackets(h, UdpClientStream_start(h))
           /\ UdpClientStream_start(h).receives = h.receives + 1
           /\ h.receives > 0 => /\ SamePackets(h, host_received(h))
                                /\ host_received(h).receives = h.receives - 1
  <1>1. h.receives \in Nat /\ h.receives + 1 \in Nat
    BY DEF HostSocket
  <1>2. SamePackets(h, host_read(h)) /\ host_read(h).receives = h.receives + 1
    BY <1>1 DEF host_read, HostSocket, SamePackets
  <1>3. /\ SamePackets(h, UdpClientStream_start(h))
        /\ UdpClientStream_start(h).receives = h.receives + 1
    BY <1>1 DEF UdpClientStream_start, host_read, HostSocket, SamePackets
  <1>4. ASSUME h.receives > 0
        PROVE  SamePackets(h, host_received(h)) /\ host_received(h).receives = h.receives - 1
    <2>1. h.receives - 1 \in Nat
      BY <1>1, <1>4
    <2>2. QED BY <2>1 DEF host_received, HostSocket, SamePackets
  <1>5. QED BY <1>2, <1>3, <1>4

(* write_packet starts a send if none is under way and a packet is queued. *)
LEMMA WritePacket ==
    ASSUME NEW h \in HostSocket, HostFlags(h)
    PROVE  LET r == write_packet(h)
           IN /\ r \in HostSocket /\ HostFlags(r)
              /\ r.receives = h.receives /\ r.resolves = h.resolves
              /\ r.write_queue = h.write_queue /\ r.dns_queue = h.dns_queue
              /\ r.taken = h.taken /\ r.sent = h.sent
              /\ r.write_queue # <<>> => r.sends > 0
  <1>1. CASE h.write_queue = <<>> \/ h.writing = TRUE
    <2>0. h.write_queue = <<>> \/ h.writing
      BY <1>1
    <2>1. write_packet(h) = h
      BY <2>0 DEF write_packet
    <2>2. QED BY <1>1, <2>1 DEF HostFlags
  <1>2. CASE h.write_queue # <<>> /\ h.writing = FALSE
    <2> DEFINE r == [h EXCEPT !.writing = TRUE, !.sends = @ + 1]
    <2>1. write_packet(h) = r
      BY <1>2 DEF write_packet
    <2>2. h.sends = 0 /\ h.sends + 1 \in Nat
      BY <1>2 DEF HostFlags
    <2>3. r \in HostSocket
      BY <2>2 DEF HostSocket
    <2>4. /\ r.writing = TRUE /\ r.sends = 1
          /\ r.receives = h.receives /\ r.resolves = h.resolves /\ r.resolving = h.resolving
          /\ r.write_queue = h.write_queue /\ r.dns_queue = h.dns_queue
          /\ r.taken = h.taken /\ r.sent = h.sent
      BY <2>2 DEF HostSocket
    <2> HIDE DEF r
    <2>5. HostFlags(r)
      BY <1>2, <2>4 DEF HostFlags
    <2>6. QED BY <2>1, <2>3, <2>4, <2>5
  <1>3. QED BY <1>1, <1>2 DEF HostSocket

(* make_dns_resolve starts a resolution if none is under way. *)
LEMMA MakeDnsResolve ==
    ASSUME NEW h \in HostSocket, HostFlags(h)
    PROVE  LET r == make_dns_resolve(h)
           IN /\ r \in HostSocket /\ HostFlags(r)
              /\ r.receives = h.receives /\ r.sends = h.sends
              /\ r.write_queue = h.write_queue /\ r.dns_queue = h.dns_queue
              /\ r.taken = h.taken /\ r.sent = h.sent
              /\ r.dns_queue # <<>> => r.resolves > 0
  <1>1. CASE h.dns_queue = <<>> \/ h.resolving = TRUE
    <2>0. h.dns_queue = <<>> \/ h.resolving
      BY <1>1
    <2>1. make_dns_resolve(h) = h
      BY <2>0 DEF make_dns_resolve
    <2>2. QED BY <1>1, <2>1 DEF HostFlags
  <1>2. CASE h.dns_queue # <<>> /\ h.resolving = FALSE
    <2> DEFINE r == [h EXCEPT !.resolving = TRUE, !.resolves = @ + 1]
    <2>1. make_dns_resolve(h) = r
      BY <1>2 DEF make_dns_resolve
    <2>2. h.resolves = 0 /\ h.resolves + 1 \in Nat
      BY <1>2 DEF HostFlags
    <2>3. r \in HostSocket
      BY <2>2 DEF HostSocket
    <2>4. /\ r.resolving = TRUE /\ r.resolves = 1
          /\ r.receives = h.receives /\ r.sends = h.sends /\ r.writing = h.writing
          /\ r.write_queue = h.write_queue /\ r.dns_queue = h.dns_queue
          /\ r.taken = h.taken /\ r.sent = h.sent
      BY <2>2 DEF HostSocket
    <2> HIDE DEF r
    <2>5. HostFlags(r)
      BY <1>2, <2>4 DEF HostFlags
    <2>6. QED BY <2>1, <2>3, <2>4, <2>5
  <1>3. QED BY <1>1, <1>2 DEF HostSocket

(* The packets are grouped as one likes. *)
LEMMA Regroup ==
    \A a, b, c \in Seq(Packet) : (a \o b) \o c = a \o (b \o c)
  <1>1. TAKE a, b, c \in Seq(Packet)
  <1>2. QED BY ConcatAssociative

(* The front of the send queue was sent; the next one follows. *)
LEMMA PacketSent ==
    ASSUME NEW h, HostGood(h), h.sends > 0
    PROVE  /\ HostGood(packet_sent(h)) /\ (HostServed(h) => HostServed(packet_sent(h)))
           /\ packet_sent(h).receives = h.receives /\ packet_sent(h).taken = h.taken
           /\ h.write_queue # <<>> /\ packet_sent(h).sent = Append(h.sent, Head(h.write_queue))
  <1> DEFINE m == [h EXCEPT !.sends = @ - 1, !.writing = FALSE,
                            !.sent = Append(@, Head(h.write_queue)), !.write_queue = Tail(@)]
             r == write_packet(m)
  <1>1. /\ h \in HostSocket /\ h.sent \in Seq(Packet) /\ h.write_queue \in Seq(Packet)
        /\ h.writing = TRUE /\ h.sends - 1 = 0 /\ h.sends - 1 \in Nat /\ h.write_queue # <<>>
    BY DEF HostGood, HostFlags, HostSocket
  <1>2. /\ Append(h.sent, Head(h.write_queue)) \in Seq(Packet) /\ Tail(h.write_queue) \in Seq(Packet)
        /\ Append(h.sent, Head(h.write_queue)) \o Tail(h.write_queue) = h.sent \o h.write_queue
    BY <1>1, MoveHead
  <1>3. m \in HostSocket
    BY <1>1, <1>2 DEF HostSocket
  <1>4. /\ m.sends = 0 /\ m.writing = FALSE /\ m.write_queue = Tail(h.write_queue)
        /\ m.sent = Append(h.sent, Head(h.write_queue)) /\ m.dns_queue = h.dns_queue
        /\ m.resolves = h.resolves /\ m.resolving = h.resolving
        /\ m.receives = h.receives /\ m.taken = h.taken
    BY <1>1 DEF HostSocket
  <1>5. packet_sent(h) = r
    BY DEF packet_sent
  <1> HIDE DEF m
  <1>6. HostFlags(m)
    BY <1>4 DEF HostGood, HostFlags
  <1>7. /\ r \in HostSocket /\ HostFlags(r)
        /\ r.receives = m.receives /\ r.resolves = m.resolves
        /\ r.write_queue = m.write_queue /\ r.dns_queue = m.dns_queue
        /\ r.taken = m.taken /\ r.sent = m.sent
        /\ r.write_queue # <<>> => r.sends > 0
    BY <1>3, <1>6, WritePacket
  <1> HIDE DEF r
  <1>8. Packets(r) = Packets(h)
    BY <1>2, <1>4, <1>7 DEF Packets
  <1>9. HostGood(r)
    BY <1>4, <1>7, <1>8 DEF HostGood, HostQueues
  <1>10. HostServed(h) => HostServed(r)
    <2>1. ASSUME \E i \in DOMAIN r.write_queue : r.write_queue[i].to = "address"
          PROVE  r.write_queue # <<>>
      BY <2>1
    <2>2. QED BY <1>4, <1>7, <2>1 DEF HostServed
  <1>11. QED BY <1>1, <1>4, <1>5, <1>7, <1>9, <1>10

(* The name at the front of the DNS queue is resolved: the packet changes    *)
(* queues, and the next name follows.                                        *)
LEMMA NameResolved ==
    ASSUME NEW h, HostGood(h), h.resolves > 0
    PROVE  /\ HostGood(name_resolved(h)) /\ (HostServed(h) => HostServed(name_resolved(h)))
           /\ name_resolved(h).receives = h.receives /\ name_resolved(h).taken = h.taken
           /\ name_resolved(h).sent = h.sent
  <1> DEFINE m == [h EXCEPT !.resolves = @ - 1, !.resolving = FALSE, !.dns_queue = Tail(@),
                            !.write_queue = Append(@, Head(h.dns_queue))]
             r == make_dns_resolve(m)
  <1>1. /\ h \in HostSocket /\ h.sent \in Seq(Packet) /\ h.write_queue \in Seq(Packet)
        /\ h.dns_queue \in Seq(Packet)
        /\ h.resolving = TRUE /\ h.resolves - 1 = 0 /\ h.resolves - 1 \in Nat /\ h.dns_queue # <<>>
    BY DEF HostGood, HostFlags, HostSocket
  <1>2. /\ Append(h.write_queue, Head(h.dns_queue)) \in Seq(Packet) /\ Tail(h.dns_queue) \in Seq(Packet)
        /\ Append(h.write_queue, Head(h.dns_queue)) \o Tail(h.dns_queue) = h.write_queue \o h.dns_queue
    BY <1>1, MoveHead
  <1>3. m \in HostSocket
    BY <1>1, <1>2 DEF HostSocket
  <1>4. /\ m.resolves = 0 /\ m.resolving = FALSE /\ m.dns_queue = Tail(h.dns_queue)
        /\ m.write_queue = Append(h.write_queue, Head(h.dns_queue))
        /\ m.sends = h.sends /\ m.writing = h.writing /\ m.sent = h.sent
        /\ m.receives = h.receives /\ m.taken = h.taken
    BY <1>1 DEF HostSocket
  <1>5. name_resolved(h) = r
    BY DEF name_resolved
  <1>6. /\ Append(h.write_queue, Head(h.dns_queue)) # <<>>
        /\ Len(Append(h.write_queue, Head(h.dns_queue))) = Len(h.write_queue) + 1
        /\ Append(h.write_queue, Head(h.dns_queue))[Len(h.write_queue) + 1] = Head(h.dns_queue)
        /\ \A i \in 1..Len(h.write_queue) :
               Append(h.write_queue, Head(h.dns_queue))[i] = h.write_queue[i]
    <2>1. Head(h.dns_queue) \in Packet
      BY <1>1, HeadTailProperties
    <2>2. QED BY <1>1, <2>1, AppendProperties
  <1>7. /\ Head(h.dns_queue).to = "name"
        /\ \A i \in DOMAIN Tail(h.dns_queue) : Tail(h.dns_queue)[i].to = "name"
    <2>1. Len(h.dns_queue) \in Nat \ {0} /\ DOMAIN h.dns_queue = 1..Len(h.dns_queue)
      BY <1>1, EmptySeq, LenProperties
    <2>2. \A i \in 1..Len(h.dns_queue) : h.dns_queue[i].to = "name"
      BY <2>1 DEF HostGood, HostQueues
    <2>3. Head(h.dns_queue) = h.dns_queue[1]
      BY <1>1
    <2>4. DOMAIN Tail(h.dns_queue) = 1..Len(Tail(h.dns_queue))
      BY <1>2, LenProperties
    <2>5. /\ Len(Tail(h.dns_queue)) = Len(h.dns_queue) - 1
          /\ \A i \in 1..Len(Tail(h.dns_queue)) : Tail(h.dns_queue)[i] = h.dns_queue[i + 1]
      BY <1>1, HeadTailProperties
    <2>6. ASSUME NEW i \in DOMAIN Tail(h.dns_queue) PROVE Tail(h.dns_queue)[i].to = "name"
      <3>1. i \in 1..Len(Tail(h.dns_queue)) /\ i + 1 \in 1..Len(h.dns_queue)
        BY <2>1, <2>4, <2>5
      <3>2. QED BY <2>2, <2>5, <3>1
    <2>7. QED BY <2>1, <2>2, <2>3, <2>6
  <1> HIDE DEF m
  <1>8. HostFlags(m)
    BY <1>4, <1>6 DEF HostGood, HostFlags
  <1>9. /\ r \in HostSocket /\ HostFlags(r)
        /\ r.receives = m.receives /\ r.sends = m.sends
        /\ r.write_queue = m.write_queue /\ r.dns_queue = m.dns_queue
        /\ r.taken = m.taken /\ r.sent = m.sent
        /\ r.dns_queue # <<>> => r.resolves > 0
    BY <1>3, <1>8, MakeDnsResolve
  <1> HIDE DEF r
  <1>10. Packets(r) = Packets(h)
    <2> DEFINE b == Append(h.write_queue, Head(h.dns_queue))
               c == Tail(h.dns_queue)
    <2>0. b \in Seq(Packet) /\ c \in Seq(Packet)
      BY <1>2
    <2>1. b \o c = h.write_queue \o h.dns_queue
      BY <1>2
    <2>2. r.sent = h.sent /\ r.write_queue = b /\ r.dns_queue = c
      BY <1>4, <1>9
    <2> HIDE DEF b, c
    <2>3. h.sent \in Seq(Packet) /\ h.write_queue \in Seq(Packet) /\ h.dns_queue \in Seq(Packet)
      BY <1>1
    <2>4. (h.sent \o b) \o c = h.sent \o (b \o c)
      BY <2>0, <2>3, Regroup, Zenon
    <2>5. (h.sent \o h.write_queue) \o h.dns_queue = h.sent \o (h.write_queue \o h.dns_queue)
      BY <2>3, Regroup, Zenon
    <2>6. QED BY <2>1, <2>2, <2>4, <2>5 DEF Packets
  <1>11. HostGood(r)
    BY <1>4, <1>7, <1>9, <1>10 DEF HostGood, HostQueues
  <1>12. HostServed(h) => HostServed(r)
    <2>1. SUFFICES ASSUME HostServed(h), NEW i \in DOMAIN r.write_queue, r.write_queue[i].to = "address"
                   PROVE  r.sends > 0
      BY <1>9 DEF HostServed
    <2>2. Len(h.write_queue) \in Nat /\ DOMAIN h.write_queue = 1..Len(h.write_queue)
      BY <1>1, LenProperties
    <2>3. DOMAIN r.write_queue = 1..(Len(h.write_queue) + 1)
      BY <1>2, <1>4, <1>6, <1>9, LenProperties
    <2>4. i # Len(h.write_queue) + 1
      BY <1>4, <1>6, <1>7, <1>9, <2>1
    <2>5. i \in DOMAIN h.write_queue
      BY <2>2, <2>3, <2>4
    <2>6. h.write_queue[i].to = "address"
      BY <1>4, <1>6, <1>9, <2>1, <2>2, <2>5
    <2>7. QED BY <1>4, <1>9, <2>1, <2>5, <2>6 DEF HostServed
  <1>13. QED BY <1>4, <1>5, <1>9, <1>11, <1>12

LEMMA AppendPacket ==
    \A a, b \in Seq(Packet) : \A e \in Packet : a \o Append(b, e) = Append(a \o b, e)
  <1>1. TAKE a, b \in Seq(Packet)
  <1>2. TAKE e \in Packet
  <1>3. QED BY AppendRight

(* A datagram for a host is taken as the next packet, or for nothing.        *)
LEMMA HostWrite ==
    ASSUME NEW h, HostGood(h), NEW to \in {"address", "name", "bad"}
    PROVE  LET r == UdpClientStream_write(h, to)
           IN /\ HostGood(r) /\ (HostServed(h) => HostServed(r))
              /\ r.receives = h.receives /\ r.sent = h.sent
              /\ r.taken = IF to = "bad" THEN h.taken ELSE h.taken + 1
  <1> DEFINE p == [n |-> h.taken + 1, to |-> to]
  <1>1. /\ h \in HostSocket /\ h.sent \in Seq(Packet) /\ h.write_queue \in Seq(Packet)
        /\ h.dns_queue \in Seq(Packet) /\ h.taken \in Nat /\ h.taken + 1 \in Nat
    BY DEF HostGood, HostSocket
  <1>2. Numbered(Packets(h), h.taken) /\ \A i \in DOMAIN h.dns_queue : h.dns_queue[i].to = "name"
    BY DEF HostGood, HostQueues
  <1>3. h.sent \o h.write_queue \in Seq(Packet) /\ Packets(h) \in Seq(Packet)
    BY <1>1, ConcatProperties DEF Packets
  <1>4. CASE to = "bad"
    BY <1>4 DEF UdpClientStream_write
  <1>5. CASE to = "address"
    <2> DEFINE m == [h EXCEPT !.taken = @ + 1, !.write_queue = Append(@, p)]
               r == write_packet(m)
    <2>1. UdpClientStream_write(h, to) = r
      BY <1>5 DEF UdpClientStream_write
    <2>2. p \in Packet /\ p.n = h.taken + 1 /\ p.to = "address"
      BY <1>1, <1>5 DEF Packet
    <2> HIDE DEF p
    <2>3. Append(h.write_queue, p) \in Seq(Packet) /\ Append(h.write_queue, p) # <<>>
      BY <1>1, <2>2, AppendProperties
    <2>4. m \in HostSocket
      BY <1>1, <2>3 DEF HostSocket
    <2>5. /\ m.taken = h.taken + 1 /\ m.write_queue = Append(h.write_queue, p)
          /\ m.sends = h.sends /\ m.writing = h.writing /\ m.sent = h.sent
          /\ m.dns_queue = h.dns_queue /\ m.resolves = h.resolves /\ m.resolving = h.resolving
          /\ m.receives = h.receives
      BY <1>1 DEF HostSocket
    <2> HIDE DEF m
    <2>6. HostFlags(m)
      BY <2>3, <2>5 DEF HostGood, HostFlags
    <2>7. /\ r \in HostSocket /\ HostFlags(r)
          /\ r.receives = m.receives /\ r.resolves = m.resolves
          /\ r.write_queue = m.write_queue /\ r.dns_queue = m.dns_queue
          /\ r.taken = m.taken /\ r.sent = m.sent
          /\ r.write_queue # <<>> => r.sends > 0
      BY <2>4, <2>6, WritePacket
    <2> HIDE DEF r
    <2>8. Numbered(Packets(r), r.taken)
      <3>1. h.sent \o Append(h.write_queue, p) = Append(h.sent \o h.write_queue, p)
        BY <1>1, <2>2, AppendPacket, Zenon
      <3>2. Packets(r) = Append(h.sent \o h.write_queue, p) \o h.dns_queue
        BY <2>5, <2>7, <3>1 DEF Packets
      <3>3. \A i \in DOMAIN h.dns_queue : h.dns_queue[i].to # p.to
        BY <1>2, <2>2
      <3>4. Numbered((h.sent \o h.write_queue) \o h.dns_queue, h.taken)
        BY <1>2 DEF Packets
      <3>5. Numbered(Append(h.sent \o h.write_queue, p) \o h.dns_queue, h.taken + 1)
        BY <1>1, <1>3, <2>2, <3>3, <3>4, InsertNumbered
      <3>6. QED BY <2>5, <2>7, <3>2, <3>5
    <2>9. HostGood(r)
      BY <1>2, <2>5, <2>7, <2>8 DEF HostGood, HostQueues
    <2>10. HostServed(h) => HostServed(r)
      BY <2>3, <2>5, <2>7 DEF HostServed
    <2>11. QED BY <1>5, <2>1, <2>5, <2>7, <2>9, <2>10
  <1>6. CASE to = "name"
    <2> DEFINE m == [h EXCEPT !.taken = @ + 1, !.dns_queue = Append(@, p)]
               r == make_dns_resolve(m)
    <2>1. UdpClientStream_write(h, to) = r
      BY <1>6 DEF UdpClientStream_write
    <2>2. p \in Packet /\ p.n = h.taken + 1 /\ p.to = "name"
      BY <1>1, <1>6 DEF Packet
    <2> HIDE DEF p
    <2>3. Append(h.dns_queue, p) \in Seq(Packet) /\ Append(h.dns_queue, p) # <<>>
      BY <1>1, <2>2, AppendProperties
    <2>4. m \in HostSocket
      BY <1>1, <2>3 DEF HostSocket
    <2>5. /\ m.taken = h.taken + 1 /\ m.dns_queue = Append(h.dns_queue, p)
          /\ m.sends = h.sends /\ m.writing = h.writing /\ m.sent = h.sent
          /\ m.write_queue = h.write_queue /\ m.resolves = h.resolves /\ m.resolving = h.resolving
          /\ m.receives = h.receives
      BY <1>1 DEF HostSocket
    <2> HIDE DEF m
    <2>6. HostFlags(m)
      BY <2>3, <2>5 DEF HostGood, HostFlags
    <2>7. /\ r \in HostSocket /\ HostFlags(r)
          /\ r.receives = m.receives /\ r.sends = m.sends
          /\ r.write_queue = m.write_queue /\ r.dns_queue = m.dns_queue
          /\ r.taken = m.taken /\ r.sent = m.sent
          /\ r.dns_queue # <<>> => r.resolves > 0
      BY <2>4, <2>6, MakeDnsResolve
    <2> HIDE DEF r
    <2>8. Numbered(Packets(r), r.taken)
      <3>1. (h.sent \o h.write_queue) \o Append(h.dns_queue, p)
                = Append((h.sent \o h.write_queue) \o h.dns_queue, p)
        BY <1>1, <1>3, <2>2, AppendPacket, Zenon
      <3>2. Packets(r) = Append(Packets(h), p)
        BY <2>5, <2>7, <3>1 DEF Packets
      <3>3. <<>> \in Seq(Packet) /\ Packets(h) \o <<>> = Packets(h)
        BY <1>3, EmptySeq, ConcatEmptySeq
      <3>4. Append(Packets(h), p) \in Seq(Packet)
        BY <1>3, <2>2, AppendProperties
      <3>5. Append(Packets(h), p) \o <<>> = Append(Packets(h), p)
        BY <3>4, ConcatEmptySeq
      <3>6. Numbered(Packets(h) \o <<>>, h.taken)
        BY <1>2, <3>3
      <3>7. \A i \in DOMAIN <<>> : <<>>[i].to # p.to
        OBVIOUS
      <3>8. Numbered(Append(Packets(h), p) \o <<>>, h.taken + 1)
        BY <1>1, <1>3, <2>2, <3>3, <3>6, <3>7, InsertNumbered
      <3>9. QED BY <2>5, <2>7, <3>2, <3>5, <3>8
    <2>9. \A i \in DOMAIN r.dns_queue : r.dns_queue[i].to = "name"
      <3>1. /\ Len(h.dns_queue) \in Nat /\ DOMAIN h.dns_queue = 1..Len(h.dns_queue)
            /\ DOMAIN Append(h.dns_queue, p) = 1..Len(Append(h.dns_queue, p))
        BY <1>1, <2>3, LenProperties
      <3>2. /\ Len(Append(h.dns_queue, p)) = Len(h.dns_queue) + 1
            /\ \A i \in 1..Len(h.dns_queue) : Append(h.dns_queue, p)[i] = h.dns_queue[i]
            /\ Append(h.dns_queue, p)[Len(h.dns_queue) + 1] = p
        BY <1>1, <2>2, AppendProperties
      <3>3. ASSUME NEW i \in 1..(Len(h.dns_queue) + 1)
            PROVE  Append(h.dns_queue, p)[i].to = "name"
        <4>1. CASE i = Len(h.dns_queue) + 1
          BY <2>2, <3>2, <4>1
        <4>2. CASE i \in 1..Len(h.dns_queue)
          BY <1>2, <3>1, <3>2, <4>2
        <4>3. QED BY <3>1, <4>1, <4>2
      <3>4. QED BY <2>5, <2>7, <3>1, <3>2, <3>3
    <2>10. HostGood(r)
      BY <2>7, <2>8, <2>9 DEF HostGood, HostQueues
    <2>11. HostServed(h) => HostServed(r)
      BY <2>5, <2>7 DEF HostServed
    <2>12. QED BY <1>6, <2>1, <2>5, <2>7, <2>10, <2>11
  <1>7. QED BY <1>4, <1>5, <1>6

(* An operation of the socket fails: its flag is reset, its packet stays.    *)
LEMMA HostFailed ==
    ASSUME NEW h, HostGood(h), NEW op \in HostFailures(h)
    PROVE  LET r == host_failed(h, op)
           IN HostGood(r) /\ r.receives \leq h.receives /\ r.taken = h.taken /\ r.sent = h.sent
  <1> DEFINE r == host_failed(h, op)
  <1>1. h \in HostSocket /\ h.receives \in Nat /\ h.sends \in Nat /\ h.resolves \in Nat /\ h.receives \leq 1
    BY DEF HostGood, HostFlags, HostSocket
  <1>2. CASE op = "receive"
    <2>1. r = host_received(h) /\ h.receives > 0
      BY <1>2 DEF host_failed, HostFailures
    <2>2. SamePackets(h, r) /\ r.receives = h.receives - 1
      BY <1>1, <2>1, HostReceives
    <2> HIDE DEF r
    <2>3. r.receives \leq 1 /\ r.receives \leq h.receives
      BY <1>1, <2>2
    <2>4. HostGood(r)
      BY <2>2, <2>3, SamePacketsGood
    <2>5. QED BY <2>2, <2>3, <2>4 DEF SamePackets, r
  <1>3. CASE op = "send"
    <2>1. r = [h EXCEPT !.sends = @ - 1, !.writing = FALSE] /\ h.sends - 1 = 0 /\ h.sends - 1 \in Nat
      BY <1>1, <1>3 DEF host_failed, HostFailures, HostGood, HostFlags
    <2>2. /\ r \in HostSocket /\ r.sends = 0 /\ r.writing = FALSE
          /\ r.resolves = h.resolves /\ r.resolving = h.resolving /\ r.receives = h.receives
          /\ r.write_queue = h.write_queue /\ r.dns_queue = h.dns_queue
          /\ r.taken = h.taken /\ r.sent = h.sent
      BY <1>1, <2>1 DEF HostSocket
    <2> HIDE DEF r
    <2>3. HostGood(r)
      BY <2>2 DEF HostGood, HostFlags, HostQueues, Packets
    <2>4. QED BY <1>1, <2>2, <2>3 DEF r
  <1>4. CASE op = "resolve"
    <2>1. r = [h EXCEPT !.resolves = @ - 1, !.resolving = FALSE] /\ h.resolves - 1 = 0 /\ h.resolves - 1 \in Nat
      BY <1>1, <1>4 DEF host_failed, HostFailures, HostGood, HostFlags
    <2>2. /\ r \in HostSocket /\ r.resolves = 0 /\ r.resolving = FALSE
          /\ r.sends = h.sends /\ r.writing = h.writing /\ r.receives = h.receives
          /\ r.write_queue = h.write_queue /\ r.dns_queue = h.dns_queue
          /\ r.taken = h.taken /\ r.sent = h.sent
      BY <1>1, <2>1 DEF HostSocket
    <2> HIDE DEF r
    <2>3. HostGood(r)
      BY <2>2 DEF HostGood, HostFlags, HostQueues, Packets
    <2>4. QED BY <1>1, <2>2, <2>3 DEF r
  <1>5. QED BY <1>2, <1>3, <1>4 DEF HostFailures

(* The packet at the front of the send queue was taken and not yet sent.     *)
LEMMA FrontIsFresh ==
    ASSUME NEW h, HostGood(h), h.write_queue # <<>>
    PROVE  /\ Head(h.write_queue).n \in 1..h.taken
           /\ \A i \in DOMAIN h.sent : h.sent[i].n # Head(h.write_queue).n
  <1> DEFINE a == h.sent
             b == h.write_queue
             c == h.dns_queue
             q == Packets(h)
             k == Len(a) + 1
  <1>1. a \in Seq(Packet) /\ b \in Seq(Packet) /\ c \in Seq(Packet) /\ b # <<>> /\ Head(b) = b[1]
    BY DEF HostGood, HostSocket
  <1>2. q = (a \o b) \o c /\ Numbered(q, h.taken)
    BY DEF HostGood, HostQueues, Packets
  <1> HIDE DEF a, b, c, q
  <1>3. /\ Len(a) \in Nat /\ Len(b) \in Nat \ {0} /\ Len(c) \in Nat
        /\ DOMAIN a = 1..Len(a)
    BY <1>1, EmptySeq, LenProperties
  <1>4. /\ a \o b \in Seq(Packet) /\ Len(a \o b) = Len(a) + Len(b)
        /\ \A i \in 1..(Len(a) + Len(b)) : (a \o b)[i] = IF i <= Len(a) THEN a[i] ELSE b[i - Len(a)]
    BY <1>1, ConcatProperties
  <1> DEFINE d == a \o b
  <1>5. d \in Seq(Packet) /\ q = d \o c /\ Len(d) = Len(a) + Len(b)
    BY <1>2, <1>4
  <1> HIDE DEF d
  <1>6. /\ q \in Seq(Packet) /\ Len(q) = Len(d) + Len(c)
        /\ \A i \in 1..(Len(d) + Len(c)) : q[i] = IF i <= Len(d) THEN d[i] ELSE c[i - Len(d)]
    <2>1. /\ d \o c \in Seq(Packet) /\ Len(d \o c) = Len(d) + Len(c)
          /\ \A i \in 1..(Len(d) + Len(c)) :
                 (d \o c)[i] = IF i <= Len(d) THEN d[i] ELSE c[i - Len(d)]
      <3>1. d \in Seq(Packet) /\ c \in Seq(Packet)
        BY <1>1, <1>5
      <3>2. QED BY <3>1, ConcatProperties
    <2>2. QED BY <1>5, <2>1
  <1>7. DOMAIN q = 1..Len(q)
    BY <1>6, LenProperties
  <1>8. /\ k \in 1..(Len(a) + Len(b)) /\ ~(k <= Len(a)) /\ k - Len(a) = 1
        /\ k \in 1..(Len(d) + Len(c)) /\ k <= Len(d)
    <2>1. \A x, y, z \in Nat : y # 0 =>
              /\ x + 1 \in 1..(x + y) /\ ~(x + 1 <= x) /\ (x + 1) - x = 1
              /\ x + 1 \in 1..((x + y) + z) /\ x + 1 <= x + y
      OBVIOUS
    <2>2. QED BY <1>3, <1>5, <2>1
  <1> HIDE DEF k
  <1>9. q[k] = d[k] /\ d[k] = b[1] /\ k \in DOMAIN q
    BY <1>4, <1>6, <1>7, <1>8 DEF d
  <1>10. ASSUME NEW i \in 1..Len(a) PROVE q[i] = a[i] /\ i \in DOMAIN q /\ i # k
    <2>1. /\ i \in 1..(Len(a) + Len(b)) /\ i <= Len(a) /\ i # k
          /\ i \in 1..(Len(d) + Len(c)) /\ i <= Len(d)
      <3>1. i \in Nat /\ 1 \leq i /\ i \leq Len(a)
        BY <1>3
      <3>2. \A w, x, y, z \in Nat : 1 \leq w /\ w \leq x =>
                /\ w \in 1..(x + y) /\ w \in 1..((x + y) + z) /\ w <= x + y
        OBVIOUS
      <3>3. QED BY <1>3, <1>5, <1>8, <3>1, <3>2
    <2>2. q[i] = d[i] /\ d[i] = a[i]
      BY <1>4, <1>6, <2>1 DEF d
    <2>3. QED BY <1>6, <1>7, <2>1, <2>2
  <1>11. q[k].n \in 1..h.taken /\ \A i \in 1..Len(a) : q[i].n # q[k].n
    BY <1>2, <1>9, <1>10 DEF Numbered
  <1>12. b[1].n \in 1..h.taken /\ \A i \in 1..Len(a) : a[i].n # b[1].n
    BY <1>9, <1>10, <1>11
  <1>13. QED BY <1>1, <1>3, <1>12 DEF a, b

-----------------------------------------------------------------------------
(* What each state waits for.  In SocksConnectionRequest nothing was done    *)
(* with datagrams yet; a request of another length than its answer leaves    *)
(* the state with a bound socket and no read.                                *)
Requesting(s, l, h, segs, ans) ==
    /\ l.bound = TRUE => s.reads = 0
    /\ l.bound = FALSE => s.reads = 1
    /\ s.writes = 0 /\ s.wip = FALSE
    /\ Len(s.said) = 1
    /\ Held(l) = 0 /\ l.heard = 0 /\ h.receives = 0
    /\ segs = 0 /\ ans = 0

Answering(s, l, h, segs, ans) ==
    /\ s.reads + segs = 1 /\ s.writes = 1 /\ s.wbuf.kind = "succeeded"
    /\ Len(s.said) = 1
    /\ Held(l) \leq 1 /\ l.heard = 0 /\ h.receives + ans = 1

Relaying(s, l, h, segs, ans) ==
    /\ s.reads = (IF segs = 0 THEN 1 ELSE 0) /\ s.writes = 0
    /\ Len(s.said) = 2
    /\ Held(l) \geq 1 /\ Held(l) \leq 2 + segs
    /\ h.receives = (IF ans = l.heard THEN 1 ELSE 0) /\ l.heard \leq ans

Waiting(st, s, l, h, segs, ans) ==
    /\ st = "SocksConnectionRequest" => Requesting(s, l, h, segs, ans)
    /\ st = "SocksReadyUdpTransferData" => Answering(s, l, h, segs, ans)
    /\ st = "SocksDataUdpTransferMode" => Relaying(s, l, h, segs, ans)

Typed(st, s, l, h, segs, ans) ==
    /\ st \in States \cup {Erased, Ended}
    /\ s \in ServerStream /\ LocalGood(l) /\ HostGood(h)
    /\ segs \in Nat /\ ans \in Nat

AssocInv(st, s, l, h, segs, ans) ==
    /\ Typed(st, s, l, h, segs, ans)
    /\ st \in States => LocalServed(l) /\ HostServed(h) /\ Waiting(st, s, l, h, segs, ans)

IInv == AssocInv(session, control, local, host, segments, answers)

-----------------------------------------------------------------------------
(* The steps of the abstract association, told by what they change.          *)
Phase(st, s) == IF st \in {Erased, Ended} THEN "closed"
                ELSE IF Len(s.said) > 1 THEN "open" ELSE "asking"

SentNumbers(h) == [i \in DOMAIN h.sent |-> h.sent[i].n]

SamePhase == Phase(session', control') = Phase(session, control)
SameUp    == host'.taken = host.taken /\ host'.sent = host.sent
SameDown  == local'.heard = local.heard /\ local'.back = local.back

Refines == [Abstract!Next]_(Abstract!avars)

LEMMA Stutters ==
    ASSUME SamePhase, SameUp, SameDown
    PROVE  Refines
  BY DEF Refines, SamePhase, SameUp, SameDown, Phase, Live, Abstract!avars

LEMMA Opens ==
    ASSUME Phase(session, control) = "asking", Phase(session', control') = "open", SameUp, SameDown
    PROVE  Refines
  BY DEF Refines, SameUp, SameDown, Phase, Live, Abstract!Next, Abstract!Open

LEMMA Closes ==
    ASSUME Phase(session', control') = "closed", SameUp, SameDown
    PROVE  Refines
  <1>1. CASE Phase(session, control) = "closed"
    BY <1>1, Stutters DEF SamePhase
  <1>2. CASE Phase(session, control) # "closed"
    BY <1>2 DEF Refines, SameUp, SameDown, Phase, Live, Abstract!Next, Abstract!Close
  <1>3. QED BY <1>1, <1>2

LEMMA Takes ==
    ASSUME Phase(session, control) = "open", SamePhase, SameDown,
           host'.taken = host.taken + 1, host'.sent = host.sent
    PROVE  Refines
  BY DEF Refines, SamePhase, SameDown, Phase, Live, Abstract!Next, Abstract!Take

LEMMA Hears ==
    ASSUME Phase(session, control) = "open", SamePhase, SameUp,
           local'.heard = local.heard + 1, local'.back = local.back
    PROVE  Refines
  BY DEF Refines, SamePhase, SameUp, Phase, Live, Abstract!Next, Abstract!Hear

LEMMA Returns ==
    ASSUME SamePhase, SameUp, local'.heard = local.heard, Len(local.back) < local.heard,
           local'.back = Append(local.back, Len(local.back) + 1)
    PROVE  Refines
  BY DEF Refines, SamePhase, SameUp, Phase, Live, Abstract!Next, Abstract!Return

LEMMA Sends ==
    ASSUME SamePhase, SameDown, host'.taken = host.taken, HostGood(host), host.write_queue # <<>>,
           host'.sent = Append(host.sent, Head(host.write_queue))
    PROVE  Refines
  <1> DEFINE p == Head(host.write_queue)
  <1>1. p.n \in 1..host.taken /\ \A i \in DOMAIN host.sent : host.sent[i].n # p.n
    BY FrontIsFresh
  <1>2. host.sent \in Seq(Packet) /\ p \in Packet /\ host.taken \in Nat
    BY HeadTailProperties DEF HostGood, HostSocket
  <1> HIDE DEF p
  <1>3. SentNumbers(host)' = Append(SentNumbers(host), p.n)
    <2>1. /\ Append(host.sent, p) \in Seq(Packet) /\ Len(Append(host.sent, p)) = Len(host.sent) + 1
          /\ \A i \in 1..Len(host.sent) : Append(host.sent, p)[i] = host.sent[i]
          /\ Append(host.sent, p)[Len(host.sent) + 1] = p
      BY <1>2, AppendProperties
    <2>2. /\ Len(host.sent) \in Nat /\ DOMAIN host.sent = 1..Len(host.sent)
          /\ DOMAIN Append(host.sent, p) = 1..(Len(host.sent) + 1)
      BY <1>2, <2>1, LenProperties
    <2> DEFINE f == [i \in 1..Len(host.sent) |-> host.sent[i].n]
    <2>3. f \in Seq(Nat) /\ Len(f) = Len(host.sent) /\ p.n \in Nat
      <3>1. \A i \in 1..Len(host.sent) : host.sent[i].n \in Nat
        <4>1. \A i \in 1..Len(host.sent) : host.sent[i] \in Packet
          BY <1>2, <2>2
        <4>2. QED BY <4>1 DEF Packet
      <3>2. p.n \in Nat
        BY <1>2 DEF Packet
      <3>3. f \in [1..Len(host.sent) -> Nat]
        BY <3>1
      <3>4. f \in Seq(Nat)
        BY <2>2, <3>3, SeqDef
      <3>5. Len(f) = Len(host.sent)
        BY <2>2, <3>4, LenProperties
      <3>6. QED BY <3>2, <3>4, <3>5
    <2>4. Append(f, p.n) = [i \in 1..(Len(host.sent) + 1) |-> Append(host.sent, p)[i].n]
      BY <2>1, <2>2, <2>3
    <2>5. SentNumbers(host) = f
      BY <2>2 DEF SentNumbers
    <2>6. SentNumbers(host)' = [i \in 1..(Len(host.sent) + 1) |-> Append(host.sent, p)[i].n]
      BY <2>2 DEF SentNumbers, p
    <2>7. QED BY <2>4, <2>5, <2>6
  <1>4. \A i \in DOMAIN SentNumbers(host) : SentNumbers(host)[i] # p.n
    BY <1>1 DEF SentNumbers
  <1>5. QED
    BY <1>1, <1>3, <1>4
       DEF Refines, SamePhase, SameDown, Phase, Live, SentNumbers, Abstract!Next, Abstract!Send

-----------------------------------------------------------------------------
(* An erased association, or an ended program, waits for nothing.            *)
LEMMA NoLonger ==
    ASSUME NEW st \in {Erased, Ended}, NEW s \in ServerStream, NEW l, LocalGood(l),
           NEW h, HostGood(h), NEW segs \in Nat, NEW ans \in Nat
    PROVE  AssocInv(st, s, l, h, segs, ans)
  BY DEF AssocInv, Typed, States, Erased, Ended

(* stop() closes what it can, and ends the abstract association.             *)
LEMMA Stopped ==
    ASSUME NEW s \in ServerStream, NEW l, LocalGood(l), NEW h, HostGood(h), stop(s, l, h),
           segments' \in Nat, answers' \in Nat,
           l.heard = local.heard, l.back = local.back, h.taken = host.taken, h.sent = host.sent
    PROVE  IInv' /\ Refines
  <1>1. /\ session' = Erased /\ control' = TcpServerStream_stop(s)
        /\ local' = close_udp(l) /\ host' = h
    BY DEF stop, Handled, UdpClientStream_stop
  <1>2. control' \in ServerStream
    BY <1>1, ServerStop, UdpAssumption DEF server_stop
  <1>3. SameAnswers(l, local')
    BY <1>1, OpenUdp DEF LocalGood
  <1>4. LocalGood(local')
    BY <1>3, SameAnswersGood
  <1>5. IInv'
    BY <1>1, <1>2, <1>4, NoLonger DEF IInv
  <1>6. Refines
    BY <1>1, <1>3, Closes DEF Phase, SameUp, SameDown, SameAnswers
  <1>7. QED BY <1>5, <1>6

-----------------------------------------------------------------------------
(* One lemma per action: it keeps the invariant and is a step of the         *)
(* abstract association, or none.                                            *)

LEMMA RequestRead ==
    ASSUME IInv, session = "SocksConnectionRequest", control.reads > 0,
           SocksConnectionRequest_handle_server_read(server_read_ok(control), local, host),
           UNCHANGED <<segments, answers>>
    PROVE  IInv' /\ Refines
  <1> DEFINE s == server_read_ok(control)
             r == TcpServerStream_read_tcp(TcpServerStream_write_tcp(s, Message("succeeded")))
             l == [udp_associate(local) EXCEPT !.use_udp = TRUE]
  <1>1. /\ control \in ServerStream /\ LocalGood(local) /\ HostGood(host)
        /\ local \in LocalSocket /\ host \in HostSocket
        /\ segments \in Nat /\ answers \in Nat
        /\ LocalServed(local) /\ HostServed(host)
        /\ Requesting(control, local, host, segments, answers)
    BY DEF IInv, AssocInv, Typed, Waiting, States, LocalGood, HostGood
  <1>2. /\ s \in ServerStream /\ s.reads = 0 /\ s.rip = FALSE
        /\ s.writes = 0 /\ s.wip = FALSE /\ s.said = control.said
        /\ local.bound = FALSE
    <2>1. /\ s \in ServerStream /\ s.reads = control.reads - 1 /\ s.rip = FALSE
          /\ s.writes = control.writes /\ s.wip = control.wip /\ s.said = control.said
      BY <1>1, ServerReadOk
    <2> HIDE DEF s, r, l
    <2>2. /\ local.bound = TRUE => control.reads = 0
          /\ local.bound = FALSE => control.reads = 1
          /\ control.writes = 0 /\ control.wip = FALSE
      BY <1>1 DEF Requesting
    <2>3. local.bound = FALSE
      BY <1>1, <2>2 DEF LocalSocket
    <2>4. s.reads = 0
      BY <2>1, <2>2, <2>3
    <2>5. QED BY <2>1, <2>2, <2>3, <2>4
  <1> HIDE DEF s
  <1>3. Phase(session, control) = "asking" /\ Len(control.said) = 1
    BY <1>1 DEF Requesting, Phase, Erased, Ended
  <1>4. PICK request \in Requests :
            \/ Handled(Ended, s, local, host)
            \/ CASE request = "udp"              -> Associate(s, local, host)
                 [] request = "udp_other_length" -> Ignored(s, udp_associate(local), host)
                 [] request = "bad"              -> stop(s, local, host)
    BY DEF SocksConnectionRequest_handle_server_read, Requests, s
  <1>5. CASE Handled(Ended, s, local, host)
    <2>1. session' = Ended /\ control' = s /\ local' = local /\ host' = host
      BY <1>5 DEF Handled
    <2>2. IInv'
      BY <1>1, <1>2, <2>1, NoLonger DEF IInv
    <2>3. Refines
      BY <1>3, <2>1, Closes DEF Phase, SameUp, SameDown
    <2>4. QED BY <2>2, <2>3
  <1>6. CASE request = "udp" /\ Associate(s, local, host)
    <2>1. /\ session' = "SocksReadyUdpTransferData" /\ control' = r
          /\ local' = read_udp(l) /\ host' = UdpClientStream_start(host)
      BY <1>6 DEF Associate, Handled
    <2>2. Message("succeeded") \in Content /\ Message("succeeded").kind = "succeeded"
      BY ContentType DEF Kinds
    <2> DEFINE w == server_write(s, Message("succeeded"))
    <2>3. /\ w \in ServerStream /\ w.writes = 1 /\ w.wbuf.kind = "succeeded"
          /\ w.reads = 0 /\ w.rip = FALSE /\ w.said = control.said
      <3>1. /\ w \in ServerStream /\ w.writes = s.writes + 1 /\ w.wbuf = Message("succeeded")
            /\ w.reads = s.reads /\ w.rip = s.rip /\ w.said = s.said
        BY <1>2, <2>2, ServerWrite
      <3>2. QED BY <1>2, <2>2, <3>1
    <2> HIDE DEF w
    <2>4. r = server_read(w)
      BY UdpAssumption DEF server_read, server_write, w
    <2>5. /\ r \in ServerStream /\ r.reads = 1 /\ r.writes = 1 /\ r.wbuf.kind = "succeeded"
          /\ r.said = control.said
      <3>1. /\ server_read(w) \in ServerStream /\ server_read(w).reads = w.reads + 1
            /\ server_read(w).writes = w.writes /\ server_read(w).wbuf = w.wbuf
            /\ server_read(w).said = w.said
        BY <2>3, ServerRead
      <3>2. QED BY <2>3, <2>4, <3>1
    <2>6. SameAnswers(local, l) /\ Held(l) = 0
      BY <1>1, OpenUdp DEF Requesting
    <2> HIDE DEF l, r
    <2>7. LocalGood(l) /\ LocalServed(l)
      BY <1>1, <2>6, SameAnswersGood
    <2>8. SameAnswers(l, local') /\ Held(local') = 1
      BY <2>1, <2>6, ReadUdp DEF SameAnswers
    <2>9. LocalGood(local') /\ LocalServed(local')
      BY <2>7, <2>8, SameAnswersGood
    <2>10. SamePackets(host, host') /\ host'.receives = 1
      BY <1>1, <2>1, HostReceives DEF Requesting
    <2>11. HostGood(host') /\ HostServed(host')
      BY <1>1, <2>10, SamePacketsGood
    <2>12. Answering(control', local', host', segments', answers')
      BY <1>1, <1>3, <2>1, <2>5, <2>6, <2>8, <2>10 DEF Answering, Requesting, SameAnswers
    <2>13. IInv'
      BY <1>1, <2>1, <2>5, <2>9, <2>11, <2>12
         DEF IInv, AssocInv, Typed, Waiting, States, Erased, Ended
    <2>14. Refines
      BY <1>3, <2>1, <2>5, <2>6, <2>8, <2>10, Stutters
         DEF SamePhase, SameUp, SameDown, SameAnswers, SamePackets, Phase, Erased, Ended
    <2>15. QED BY <2>13, <2>14
  <1>7. CASE request = "udp_other_length" /\ Ignored(s, udp_associate(local), host)
    <2>1. session' = session /\ control' = s /\ local' = udp_associate(local) /\ host' = host
      BY <1>7 DEF Ignored, Handled
    <2>2. SameAnswers(local, local') /\ Held(local') = 0 /\ local'.bound = TRUE
      BY <1>1, <2>1, OpenUdp DEF Requesting
    <2>3. LocalGood(local') /\ LocalServed(local')
      BY <1>1, <2>2, SameAnswersGood
    <2>4. Requesting(control', local', host', segments', answers')
      BY <1>1, <1>2, <1>3, <2>1, <2>2 DEF Requesting, SameAnswers
    <2>5. IInv'
      BY <1>1, <1>2, <2>1, <2>3, <2>4 DEF IInv, AssocInv, Typed, Waiting, States, Erased, Ended
    <2>6. Refines
      BY <1>2, <2>1, <2>2, Stutters DEF SamePhase, SameUp, SameDown, SameAnswers, Phase
    <2>7. QED BY <2>5, <2>6
  <1>8. CASE request = "bad" /\ stop(s, local, host)
    BY <1>1, <1>2, <1>8, Stopped
  <1>9. QED BY <1>4, <1>5, <1>6, <1>7, <1>8 DEF Requests

(* A datagram, or a segment that is taken for one, reaches a session that    *)
(* relays: held counts what was still to come for the handler that runs now. *)
LEMMA DatagramTaken ==
    ASSUME session = "SocksDataUdpTransferMode", HostGood(host), HostServed(host),
           NEW s \in ServerStream, s.writes = 0, s.said = control.said, Len(s.said) = 2,
           NEW l, LocalGood(l), LocalServed(l), l.heard = local.heard, l.back = local.back,
           segments' \in Nat, answers' = answers, answers \in Nat,
           s.reads = (IF segments' = 0 THEN 1 ELSE 0),
           Held(l) + 1 \geq 1, Held(l) + 1 \leq 2 + segments',
           host.receives = (IF answers = local.heard THEN 1 ELSE 0), local.heard \leq answers,
           NEW to \in Destinations, SocksDataUdpTransferMode_handle_server_read(to, s, l, host)
    PROVE  IInv' /\ Refines
  <1>1. Phase(session, control) = "open" /\ l \in LocalSocket
    BY DEF Phase, Erased, Ended, LocalGood
  <1>2. CASE to = "short"
    <2>1. session' = Ended /\ control' = s /\ local' = l /\ host' = host
      BY <1>2 DEF SocksDataUdpTransferMode_handle_server_read, Handled
    <2>2. IInv'
      BY <2>1, NoLonger DEF IInv
    <2>3. Refines
      BY <2>1, Closes DEF Phase, SameUp, SameDown
    <2>4. QED BY <2>2, <2>3
  <1>3. CASE to # "short"
    <2>1. /\ session' = session /\ control' = s
          /\ local' = read_udp(l) /\ host' = UdpClientStream_write(host, to)
      BY <1>3 DEF SocksDataUdpTransferMode_handle_server_read, Ignored, Handled
    <2>2. SameAnswers(l, local') /\ Held(local') = Held(l) + 1
      BY <1>1, <2>1, ReadUdp
    <2>3. LocalGood(local') /\ LocalServed(local')
      BY <2>2, SameAnswersGood
    <2>4. to \in {"address", "name", "bad"}
      BY <1>3 DEF Destinations
    <2>5. /\ HostGood(host') /\ HostServed(host')
          /\ host'.receives = host.receives /\ host'.sent = host.sent
          /\ host'.taken = IF to = "bad" THEN host.taken ELSE host.taken + 1
      BY <2>1, <2>4, HostWrite
    <2>6. Relaying(control', local', host', segments', answers')
      BY <2>1, <2>2, <2>5 DEF Relaying, SameAnswers
    <2>7. IInv'
      BY <2>1, <2>3, <2>5, <2>6 DEF IInv, AssocInv, Typed, Waiting, States, Erased, Ended
    <2>8. SamePhase /\ SameDown
      BY <2>1, <2>2 DEF SamePhase, SameDown, SameAnswers, Phase
    <2>9. Refines
      BY <1>1, <2>5, <2>8, Stutters, Takes DEF SameUp
    <2>10. QED BY <2>7, <2>9
  <1>4. QED BY <1>2, <1>3

LEMMA ControlReadKeeps ==
    ASSUME IInv, on_control_read
    PROVE  IInv' /\ Refines
  <1> DEFINE s == server_read_ok(control)
  <1>1. /\ control \in ServerStream /\ control.reads \in Nat /\ LocalGood(local) /\ HostGood(host)
        /\ segments \in Nat /\ answers \in Nat
    BY DEF IInv, AssocInv, Typed, ServerStream
  <1>2. control.reads > 0 /\ answers' = answers
    BY DEF on_control_read
  <1>3. /\ s \in ServerStream /\ s.reads = control.reads - 1
        /\ s.writes = control.writes /\ s.wbuf = control.wbuf /\ s.said = control.said
    BY <1>1, <1>2, ServerReadOk
  <1>4. \/ /\ session = "SocksConnectionRequest"
           /\ SocksConnectionRequest_handle_server_read(s, local, host)
           /\ segments' = segments
        \/ /\ session = "SocksDataUdpTransferMode"
           /\ segments' = segments + 1
           /\ \E to \in Destinations :
                  SocksDataUdpTransferMode_handle_server_read(to, s, local, host)
        \/ /\ session \in {"SocksReadyUdpTransferData", Erased}
           /\ segments' = segments + 1
           /\ Ignored(s, local, host)
    BY DEF on_control_read
  <1>5. CASE session = "SocksConnectionRequest"
    <2>1. SocksConnectionRequest_handle_server_read(s, local, host) /\ segments' = segments
      BY <1>4, <1>5 DEF Erased
    <2>2. QED BY <1>2, <1>5, <2>1, RequestRead
  <1> HIDE DEF s
  <1>6. CASE session = "SocksDataUdpTransferMode"
    <2>1. PICK to \in Destinations : SocksDataUdpTransferMode_handle_server_read(to, s, local, host)
      BY <1>4, <1>6 DEF Erased
    <2>2. segments' = segments + 1
      BY <1>4, <1>6 DEF Erased
    <2>3. /\ LocalServed(local) /\ HostServed(host)
          /\ Relaying(control, local, host, segments, answers)
      BY <1>6 DEF IInv, AssocInv, Waiting, States
    <2>4. /\ s.writes = 0 /\ Len(s.said) = 2
          /\ host.receives = (IF answers = local.heard THEN 1 ELSE 0) /\ local.heard \leq answers
      BY <1>3, <2>3 DEF Relaying
    <2>5. segments = 0 /\ s.reads = 0
      BY <1>1, <1>2, <1>3, <2>3 DEF Relaying
    <2>6. Held(local) + 1 \geq 1 /\ Held(local) + 1 \leq 2 + segments'
      <3>1. Held(local) \in Nat
        BY <1>1, LenProperties DEF LocalGood, LocalSocket, Held
      <3>2. Held(local) \leq 2
        BY <2>3, <2>5, <3>1 DEF Relaying
      <3>3. QED BY <2>2, <2>5, <3>1, <3>2
    <2>7. segments' \in Nat /\ s.reads = (IF segments' = 0 THEN 1 ELSE 0)
      BY <2>2, <2>5
    <2>8. QED BY <1>1, <1>2, <1>3, <1>6, <2>1, <2>3, <2>4, <2>6, <2>7, DatagramTaken
  <1>7. CASE session \in {"SocksReadyUdpTransferData", Erased}
    <2>1. /\ segments' = segments + 1 /\ session' = session /\ control' = s
          /\ local' = local /\ host' = host
      BY <1>4, <1>7 DEF Ignored, Handled, Erased
    <2>2. Refines
      BY <1>3, <2>1, Stutters DEF SamePhase, SameUp, SameDown, Phase
    <2>3. IInv'
      <3>1. CASE session = Erased
        BY <1>1, <1>2, <1>3, <2>1, <3>1, NoLonger DEF IInv
      <3>2. CASE session = "SocksReadyUdpTransferData"
        <4>1. /\ LocalServed(local) /\ HostServed(host)
              /\ Answering(control, local, host, segments, answers)
          BY <3>2 DEF IInv, AssocInv, Waiting, States
        <4>2. s.reads + segments' = 1
          BY <1>1, <1>3, <2>1, <4>1 DEF Answering
        <4>3. Answering(control', local', host', segments', answers')
          BY <1>2, <1>3, <2>1, <4>1, <4>2 DEF Answering
        <4>4. segments' \in Nat
          BY <1>1, <2>1
        <4>5. QED
          BY <1>1, <1>2, <1>3, <2>1, <3>2, <4>1, <4>3, <4>4
             DEF IInv, AssocInv, Typed, Waiting, States, Erased, Ended
      <3>3. QED BY <1>7, <3>1, <3>2
    <2>4. QED BY <2>2, <2>3
  <1>8. QED BY <1>4, <1>5, <1>6, <1>7

LEMMA ControlWriteKeeps ==
    ASSUME IInv, on_control_write
    PROVE  IInv' /\ Refines
  <1> DEFINE s == server_write_ok(control)
  <1>1. /\ control \in ServerStream /\ control.writes \in Nat /\ LocalGood(local) /\ HostGood(host)
        /\ local \in LocalSocket
        /\ segments \in Nat /\ answers \in Nat /\ session \in States \cup {Erased, Ended}
    BY DEF IInv, AssocInv, Typed, ServerStream, LocalGood
  <1>2. control.writes > 0 /\ segments' = segments /\ answers' = answers
    BY DEF on_control_write
  <1>3. /\ s \in ServerStream /\ s.writes = control.writes - 1 /\ s.reads = control.reads
        /\ control.wbuf.kind # "data" => s.said = Append(control.said, control.wbuf.kind)
    BY <1>1, <1>2, ServerWriteOk
  <1>4. IF session = "SocksReadyUdpTransferData"
        THEN SocksReadyUdpTransferData_handle_server_write(s, local, host)
        ELSE Ignored(s, local, host)
    BY DEF on_control_write
  <1> HIDE DEF s
  <1>5. CASE session = "SocksReadyUdpTransferData"
    <2>1. /\ session' = "SocksDataUdpTransferMode" /\ control' = s
          /\ local' = read_udp(local) /\ host' = host
      BY <1>4, <1>5 DEF SocksReadyUdpTransferData_handle_server_write, Handled
    <2>2. /\ LocalServed(local) /\ HostServed(host)
          /\ Answering(control, local, host, segments, answers)
      BY <1>5 DEF IInv, AssocInv, Waiting, States
    <2>3. SameAnswers(local, local') /\ Held(local') = Held(local) + 1
      BY <1>1, <2>1, ReadUdp
    <2>4. LocalGood(local') /\ LocalServed(local')
      BY <1>1, <2>2, <2>3, SameAnswersGood
    <2>5. Len(control.said) = 1 /\ Len(s.said) = 2
      <3>1. control.said \in Seq(Kinds) /\ control.wbuf.kind \in Kinds
        BY <1>1 DEF ServerStream, Content
      <3>2. Len(control.said) = 1 /\ control.wbuf.kind # "data"
        BY <2>2 DEF Answering
      <3>3. Len(Append(control.said, control.wbuf.kind)) = Len(control.said) + 1
        BY <3>1, AppendProperties
      <3>4. Len(s.said) = Len(control.said) + 1
        BY <1>3, <3>2, <3>3, Zenon
      <3>5. QED BY <3>2, <3>4
    <2>6. Held(local) \in Nat /\ Held(local) \leq 1
      BY <1>1, <2>2, LenProperties DEF LocalSocket, Held, Answering
    <2>7. s.reads = (IF segments = 0 THEN 1 ELSE 0) /\ s.writes = 0
      <3>1. control.reads \in Nat /\ control.reads + segments = 1 /\ control.writes = 1
        BY <1>1, <2>2 DEF Answering, ServerStream
      <3>2. QED BY <1>1, <1>3, <3>1
    <2>8. /\ host.receives = (IF answers = local.heard THEN 1 ELSE 0) /\ local.heard \leq answers
      <3>1. host.receives \in Nat /\ host.receives + answers = 1 /\ local.heard = 0
        BY <1>1, <2>2 DEF Answering, HostGood, HostSocket
      <3>2. QED BY <1>1, <3>1
    <2>9. Relaying(control', local', host', segments', answers')
      BY <1>1, <1>2, <2>1, <2>3, <2>5, <2>6, <2>7, <2>8 DEF Relaying, SameAnswers
    <2>10. IInv'
      BY <1>1, <1>2, <1>3, <2>1, <2>2, <2>4, <2>9
         DEF IInv, AssocInv, Typed, Waiting, States, Erased, Ended
    <2>11. Refines
      BY <1>5, <2>1, <2>3, <2>5, Opens DEF SameUp, SameDown, SameAnswers, Phase, Erased, Ended
    <2>12. QED BY <2>10, <2>11
  <1>6. CASE session # "SocksReadyUdpTransferData"
    <2>1. session # Ended /\ session' = session /\ control' = s /\ local' = local /\ host' = host
      BY <1>4, <1>6 DEF Ignored, Handled
    <2>2. session = Erased
      <3>1. session # "SocksConnectionRequest" /\ session # "SocksDataUdpTransferMode"
        BY <1>2 DEF IInv, AssocInv, Waiting, Requesting, Relaying, States
      <3>2. QED BY <1>1, <1>6, <2>1, <3>1 DEF States
    <2>3. IInv'
      BY <1>1, <1>2, <1>3, <2>1, <2>2, NoLonger DEF IInv
    <2>4. Refines
      BY <2>1, <2>2, Stutters DEF SamePhase, SameUp, SameDown, Phase
    <2>5. QED BY <2>3, <2>4
  <1>7. QED BY <1>5, <1>6

LEMMA ControlErrorKeeps ==
    ASSUME IInv, on_control_error
    PROVE  IInv' /\ Refines
  <1>1. /\ control \in ServerStream /\ LocalGood(local) /\ HostGood(host)
        /\ segments \in Nat /\ answers \in Nat /\ session \in States \cup {Erased, Ended}
    BY DEF IInv, AssocInv, Typed
  <1>2. PICK op \in ServerFailures(control) :
            LET s == server_failed(control, op)
            IN IF Live THEN stop(s, local, host) ELSE Ignored(s, local, host)
    BY DEF on_control_error
  <1>3. segments' = segments /\ answers' = answers
    BY DEF on_control_error
  <1> DEFINE s == server_failed(control, op)
  <1>4. s \in ServerStream
    BY <1>1, ServerFailed
  <1> HIDE DEF s
  <1>5. CASE Live
    <2>1. stop(s, local, host)
      BY <1>2, <1>5 DEF s
    <2>2. QED BY <1>1, <1>3, <1>4, <2>1, Stopped
  <1>6. CASE ~Live
    <2>1. session' = session /\ control' = s /\ local' = local /\ host' = host
      BY <1>2, <1>6 DEF Ignored, Handled, s
    <2>2. IInv'
      BY <1>1, <1>3, <1>4, <1>6, <2>1, NoLonger DEF IInv, Live
    <2>3. Refines
      BY <1>6, <2>1, Stutters DEF SamePhase, SameUp, SameDown, Phase, Live
    <2>4. QED BY <2>2, <2>3
  <1>7. QED BY <1>5, <1>6

LEMMA ArrivalKeeps ==
    ASSUME IInv, datagram
    PROVE  IInv' /\ Refines
  <1>1. /\ control \in ServerStream /\ LocalGood(local) /\ local \in LocalSocket /\ HostGood(host)
        /\ local.receives > 0 /\ local.receives \in Nat
        /\ UNCHANGED <<segments, answers>>
    BY DEF IInv, AssocInv, Typed, LocalGood, LocalSocket, datagram
  <1>2. PICK to \in Destinations :
            session' = session /\ control' = control /\ local' = receive_done(local, to) /\ host' = host
    BY DEF datagram, Ignored, Handled
  <1>3. SameAnswers(local, local') /\ Held(local') = Held(local)
    BY <1>1, <1>2, ReceiveDone
  <1>4. LocalGood(local') /\ (LocalServed(local) => LocalServed(local'))
    BY <1>1, <1>3, SameAnswersGood
  <1>5. session # "SocksConnectionRequest"
    <2>1. Held(local) # 0
      <3>1. Len(local.filled) \in Nat
        BY <1>1, LenProperties DEF LocalSocket
      <3>2. QED BY <1>1, <3>1 DEF Held
    <2>2. QED BY <2>1 DEF IInv, AssocInv, Waiting, Requesting, States
  <1>6. IInv'
    BY <1>1, <1>2, <1>3, <1>4, <1>5
       DEF IInv, AssocInv, Typed, Waiting, Answering, Relaying, SameAnswers
  <1>7. Refines
    BY <1>2, <1>3, Stutters DEF SamePhase, SameUp, SameDown, SameAnswers, Phase
  <1>8. QED BY <1>6, <1>7

LEMMA DatagramKeeps ==
    ASSUME IInv, on_datagram
    PROVE  IInv' /\ Refines
  <1> DEFINE l == received(local)
  <1>1. /\ control \in ServerStream /\ LocalGood(local) /\ local \in LocalSocket /\ HostGood(host)
        /\ local.filled # <<>> /\ segments \in Nat /\ answers \in Nat
        /\ segments' = segments /\ answers' = answers
    BY DEF IInv, AssocInv, Typed, LocalGood, on_datagram
  <1>2. IF session = "SocksDataUdpTransferMode"
        THEN \E to \in Understood(local) :
                 SocksDataUdpTransferMode_handle_server_read(to, control, l, host)
        ELSE Ignored(control, l, host)
    BY DEF on_datagram
  <1>3. /\ SameAnswers(local, l) /\ Held(l) = Held(local) - 1 /\ Understood(local) \subseteq Destinations
    BY <1>1, Received
  <1> HIDE DEF l
  <1>4. LocalGood(l) /\ (LocalServed(local) => LocalServed(l))
    BY <1>1, <1>3, SameAnswersGood
  <1>5. Held(local) \in Nat /\ Held(local) > 0
    <2>1. local.receives \in Nat /\ Len(local.filled) \in Nat \ {0}
      BY <1>1, EmptySeq DEF LocalSocket
    <2>2. QED BY <2>1 DEF Held
  <1>6. CASE session = "SocksDataUdpTransferMode"
    <2>1. /\ LocalServed(local) /\ HostServed(host)
          /\ Relaying(control, local, host, segments, answers)
      BY <1>6 DEF IInv, AssocInv, Waiting, States
    <2>2. PICK to \in Destinations : SocksDataUdpTransferMode_handle_server_read(to, control, l, host)
      BY <1>2, <1>3, <1>6
    <2>3. Held(l) + 1 \geq 1 /\ Held(l) + 1 \leq 2 + segments'
      <3>1. Held(l) + 1 = Held(local)
        BY <1>3, <1>5
      <3>2. QED BY <1>1, <2>1, <3>1 DEF Relaying
    <2>4. /\ control.writes = 0 /\ Len(control.said) = 2
          /\ control.reads = (IF segments' = 0 THEN 1 ELSE 0)
          /\ host.receives = (IF answers = local.heard THEN 1 ELSE 0) /\ local.heard \leq answers
      BY <1>1, <2>1 DEF Relaying
    <2>5. LocalServed(l) /\ l.heard = local.heard /\ l.back = local.back
      BY <1>3, <1>4, <2>1 DEF SameAnswers
    <2>6. QED BY <1>1, <1>4, <1>6, <2>1, <2>2, <2>3, <2>4, <2>5, DatagramTaken
  <1>7. CASE session # "SocksDataUdpTransferMode"
    <2>1. session' = session /\ control' = control /\ local' = l /\ host' = host
      BY <1>2, <1>7 DEF Ignored, Handled
    <2>2. session # "SocksConnectionRequest"
      BY <1>5 DEF IInv, AssocInv, Waiting, Requesting, States
    <2>3. session = "SocksReadyUdpTransferData" => Held(l) \leq 1
      BY <1>3, <1>5 DEF IInv, AssocInv, Waiting, Answering, States
    <2>4. IInv'
      BY <1>1, <1>3, <1>4, <1>7, <2>1, <2>2, <2>3
         DEF IInv, AssocInv, Typed, Waiting, Answering, SameAnswers
    <2>5. Refines
      BY <1>3, <2>1, Stutters DEF SamePhase, SameUp, SameDown, SameAnswers, Phase
    <2>6. QED BY <2>4, <2>5
  <1>8. QED BY <1>6, <1>7

LEMMA AnswerSentKeeps ==
    ASSUME IInv, on_answer_sent
    PROVE  IInv' /\ Refines
  <1>1. /\ LocalGood(local) /\ local.sends > 0 /\ local.heard \in Nat /\ local.back \in Seq(Nat)
        /\ UNCHANGED <<segments, answers>>
    BY DEF IInv, AssocInv, Typed, LocalGood, LocalSocket, on_answer_sent
  <1>2. session' = session /\ control' = control /\ local' = answer_sent(local) /\ host' = host
    BY DEF on_answer_sent, Ignored, Handled
  <1>3. /\ LocalGood(local') /\ LocalServed(local')
        /\ Held(local') = Held(local) /\ local'.heard = local.heard
        /\ local'.back = Append(local.back, Len(local.back) + 1)
        /\ Len(local.back) < local.heard
    BY <1>1, <1>2, AnswerSent
  <1>4. session # "SocksConnectionRequest"
    <2>1. Len(local.back) \in Nat
      BY <1>1, LenProperties
    <2>2. local.heard # 0
      BY <1>1, <1>3, <2>1
    <2>3. QED BY <2>2 DEF IInv, AssocInv, Waiting, Requesting, States
  <1>5. IInv'
    BY <1>1, <1>2, <1>3, <1>4 DEF IInv, AssocInv, Typed, Waiting, Answering, Relaying
  <1>6. Refines
    BY <1>2, <1>3, Returns DEF SamePhase, SameUp, Phase
  <1>7. QED BY <1>5, <1>6

LEMMA LocalErrorKeeps ==
    ASSUME IInv, on_local_error
    PROVE  IInv' /\ Refines
  <1>1. /\ control \in ServerStream /\ LocalGood(local) /\ HostGood(host)
        /\ segments \in Nat /\ answers \in Nat /\ session \in States \cup {Erased, Ended}
    BY DEF IInv, AssocInv, Typed
  <1>2. PICK op \in LocalFailures(local) :
            LET l == local_failed(local, op)
            IN IF Live THEN stop(control, l, host) ELSE Ignored(control, l, host)
    BY DEF on_local_error
  <1>3. segments' = segments /\ answers' = answers
    BY DEF on_local_error
  <1> DEFINE l == local_failed(local, op)
  <1>4. LocalGood(l) /\ l.heard = local.heard /\ l.back = local.back
    BY <1>1, LocalFailed
  <1> HIDE DEF l
  <1>5. CASE Live
    <2>1. stop(control, l, host)
      BY <1>2, <1>5 DEF l
    <2>2. QED BY <1>1, <1>3, <1>4, <2>1, Stopped
  <1>6. CASE ~Live
    <2>1. session' = session /\ control' = control /\ local' = l /\ host' = host
      BY <1>2, <1>6 DEF Ignored, Handled, l
    <2>2. IInv'
      BY <1>1, <1>3, <1>4, <1>6, <2>1, NoLonger DEF IInv, Live
    <2>3. Refines
      BY <1>4, <1>6, <2>1, Stutters DEF SamePhase, SameUp, SameDown, Phase, Live
    <2>4. QED BY <2>2, <2>3
  <1>7. QED BY <1>5, <1>6

LEMMA AnswerKeeps ==
    ASSUME IInv, on_answer
    PROVE  IInv' /\ Refines
  <1> DEFINE h == host_received(host)
  <1>1. /\ LocalGood(local) /\ local \in LocalSocket /\ local.heard \in Nat
        /\ HostGood(host) /\ host \in HostSocket /\ host.receives \in Nat /\ host.receives \leq 1
        /\ host.receives > 0 /\ answers \in Nat /\ answers' = answers + 1 /\ segments' = segments
    BY DEF IInv, AssocInv, Typed, LocalGood, LocalSocket, HostGood, HostFlags, HostSocket, on_answer
  <1>2. IF session = "SocksDataUdpTransferMode"
        THEN SocksDataUdpTransferMode_handle_client_read(control, local, h)
        ELSE Ignored(control, local, h)
    BY DEF on_answer
  <1>3. SamePackets(host, h) /\ h.receives = 0
    <2>1. SamePackets(host, h) /\ h.receives = host.receives - 1
      BY <1>1, HostReceives
    <2>2. QED BY <1>1, <2>1
  <1> HIDE DEF h
  <1>4. HostGood(h) /\ (HostServed(host) => HostServed(h))
    BY <1>1, <1>3, SamePacketsGood
  <1>5. answers' \in Nat
    BY <1>1
  <1>6. CASE session = "SocksDataUdpTransferMode"
    <2>1. /\ session' = session /\ control' = control
          /\ local' = write_answer(local) /\ host' = host_read(h)
      BY <1>2, <1>6 DEF SocksDataUdpTransferMode_handle_client_read, Ignored, Handled
    <2>2. /\ LocalServed(local) /\ HostServed(host)
          /\ Relaying(control, local, host, segments, answers)
      BY <1>6 DEF IInv, AssocInv, Waiting, States
    <2>3. /\ LocalGood(local') /\ LocalServed(local') /\ Held(local') = Held(local)
          /\ local'.heard = local.heard + 1 /\ local'.back = local.back
      BY <1>1, <2>1, <2>2, WriteAnswer
    <2>4. SamePackets(h, host') /\ host'.receives = 1
      <3>1. SamePackets(h, host') /\ host'.receives = h.receives + 1
        BY <1>4, <2>1, HostReceives DEF HostGood
      <3>2. QED BY <1>3, <3>1
    <2>5. HostGood(host') /\ HostServed(host')
      BY <1>4, <2>2, <2>4, SamePacketsGood
    <2>6. answers = local.heard
      BY <1>1, <2>2 DEF Relaying
    <2>7. Relaying(control', local', host', segments', answers')
      BY <1>1, <2>1, <2>2, <2>3, <2>4, <2>6 DEF Relaying
    <2>8. IInv'
      BY <1>1, <1>5, <1>6, <2>1, <2>3, <2>5, <2>7
         DEF IInv, AssocInv, Typed, Waiting, States, Erased, Ended
    <2>9. Phase(session, control) = "open" /\ SamePhase
      BY <1>6, <2>1, <2>2 DEF Phase, SamePhase, Relaying, Erased, Ended
    <2>10. Refines
      BY <1>3, <2>3, <2>4, <2>9, Hears DEF SameUp, SamePackets
    <2>11. QED BY <2>8, <2>10
  <1>7. CASE session # "SocksDataUdpTransferMode"
    <2>1. session' = session /\ control' = control /\ local' = local /\ host' = h
      BY <1>2, <1>7 DEF Ignored, Handled
    <2>2. session # "SocksConnectionRequest"
      BY <1>1 DEF IInv, AssocInv, Waiting, Requesting, States
    <2>3. session = "SocksReadyUdpTransferData" => h.receives + answers' = 1
      <3>1. session = "SocksReadyUdpTransferData" => host.receives + answers = 1
        BY DEF IInv, AssocInv, Waiting, Answering, States
      <3>2. QED BY <1>1, <1>3, <3>1
    <2>4. IInv'
      BY <1>1, <1>4, <1>5, <1>7, <2>1, <2>2, <2>3
         DEF IInv, AssocInv, Typed, Waiting, Answering
    <2>5. Refines
      BY <1>3, <2>1, Stutters DEF SamePhase, SameUp, SameDown, SamePackets, Phase
    <2>6. QED BY <2>4, <2>5
  <1>8. QED BY <1>6, <1>7

(* The front packet is sent, or the front name resolved, whatever the state. *)
LEMMA PacketKeeps ==
    ASSUME IInv, on_packet_sent \/ on_resolved
    PROVE  IInv' /\ Refines
  <1>1. HostGood(host)
    BY DEF IInv, AssocInv, Typed
  <1>2. /\ session' = session /\ control' = control /\ local' = local
        /\ segments' = segments /\ answers' = answers
    BY DEF on_packet_sent, on_resolved, Ignored, Handled
  <1>3. /\ HostGood(host') /\ (HostServed(host) => HostServed(host'))
        /\ host'.receives = host.receives /\ Refines
    <2>1. CASE on_packet_sent
      <3>1. host.sends > 0 /\ host' = packet_sent(host)
        BY <2>1 DEF on_packet_sent, Ignored, Handled
      <3>2. /\ HostGood(host') /\ (HostServed(host) => HostServed(host'))
            /\ host'.receives = host.receives /\ host'.taken = host.taken
            /\ host.write_queue # <<>> /\ host'.sent = Append(host.sent, Head(host.write_queue))
        BY <1>1, <3>1, PacketSent
      <3>3. SamePhase /\ SameDown
        BY <1>2 DEF SamePhase, SameDown, Phase
      <3>4. QED BY <1>1, <3>2, <3>3, Sends
    <2>2. CASE on_resolved
      <3>1. host.resolves > 0 /\ host' = name_resolved(host)
        BY <2>2 DEF on_resolved, Ignored, Handled
      <3>2. /\ HostGood(host') /\ (HostServed(host) => HostServed(host'))
            /\ host'.receives = host.receives /\ host'.taken = host.taken /\ host'.sent = host.sent
        BY <1>1, <3>1, NameResolved
      <3>3. SamePhase /\ SameDown /\ SameUp
        BY <1>2, <3>2 DEF SamePhase, SameDown, SameUp, Phase
      <3>4. QED BY <3>2, <3>3, Stutters
    <2>3. QED BY <2>1, <2>2
  <1>4. IInv'
    BY <1>2, <1>3 DEF IInv, AssocInv, Typed, Waiting, Requesting, Answering, Relaying
  <1>5. QED BY <1>3, <1>4

LEMMA HostErrorKeeps ==
    ASSUME IInv, on_host_error
    PROVE  IInv' /\ Refines
  <1>1. /\ control \in ServerStream /\ LocalGood(local) /\ HostGood(host)
        /\ segments \in Nat /\ answers \in Nat /\ session \in States \cup {Erased, Ended}
    BY DEF IInv, AssocInv, Typed
  <1>2. PICK op \in HostFailures(host) :
            LET h == host_failed(host, op)
            IN IF Live THEN stop(control, local, h) ELSE Ignored(control, local, h)
    BY DEF on_host_error
  <1>3. segments' = segments /\ answers' = answers
    BY DEF on_host_error
  <1> DEFINE h == host_failed(host, op)
  <1>4. HostGood(h) /\ h.taken = host.taken /\ h.sent = host.sent
    BY <1>1, HostFailed
  <1> HIDE DEF h
  <1>5. CASE Live
    <2>1. stop(control, local, h)
      BY <1>2, <1>5 DEF h
    <2>2. QED BY <1>1, <1>3, <1>4, <2>1, Stopped
  <1>6. CASE ~Live
    <2>1. session' = session /\ control' = control /\ local' = local /\ host' = h
      BY <1>2, <1>6 DEF Ignored, Handled, h
    <2>2. IInv'
      BY <1>1, <1>3, <1>4, <1>6, <2>1, NoLonger DEF IInv, Live
    <2>3. Refines
      BY <1>4, <1>6, <2>1, Stutters DEF SamePhase, SameUp, SameDown, Phase, Live
    <2>4. QED BY <2>2, <2>3
  <1>7. QED BY <1>5, <1>6

-----------------------------------------------------------------------------
LEMMA Initially == Init => IInv /\ Abstract!Init
  <1> SUFFICES ASSUME Init PROVE IInv /\ Abstract!Init
    OBVIOUS
  <1> DEFINE s == server_read(NoServer)
  <1>1. /\ session = "SocksConnectionRequest"
        /\ control = [s EXCEPT !.open = TRUE, !.said = <<"NoAuth">>]
        /\ local = NoLocal /\ host = NoHost /\ segments = 0 /\ answers = 0
    BY UdpAssumption DEF Init, server_read
  <1>2. /\ s \in ServerStream /\ s.reads = 1 /\ s.writes = 0 /\ s.wip = FALSE
    <2>1. NoServer \in ServerStream /\ NoServer.rip = FALSE /\ NoServer.wip = FALSE
          /\ NoServer.reads = 0 /\ NoServer.writes = 0
      BY InitialType DEF NoServer
    <2>2. /\ s \in ServerStream /\ s.reads = NoServer.reads + 1
          /\ s.writes = NoServer.writes /\ s.wip = NoServer.wip
      BY <2>1, ServerRead
    <2> HIDE DEF s
    <2>3. QED BY <2>1, <2>2
  <1> HIDE DEF s
  <1>3. <<"NoAuth">> \in Seq(Kinds) /\ Len(<<"NoAuth">>) = 1
    BY DEF Kinds
  <1>4. /\ control \in ServerStream /\ control.reads = 1 /\ control.writes = 0
        /\ control.wip = FALSE /\ control.said = <<"NoAuth">>
    BY <1>1, <1>2, <1>3 DEF ServerStream
  <1>5. LocalGood(local) /\ LocalServed(local) /\ Held(local) = 0
        /\ local.heard = 0 /\ local.bound = FALSE /\ local.back = <<>>
    <2>1. NoLocal \in LocalSocket
      BY DEF NoLocal, LocalSocket, Destinations
    <2>2. NoLocal.back \o NoLocal.queue = Count(NoLocal.heard)
      BY DEF NoLocal, Count
    <2>3. QED BY <1>1, <2>1, <2>2 DEF NoLocal, LocalGood, LocalServed, Held
  <1>6. HostGood(host) /\ HostServed(host) /\ host.receives = 0 /\ host.taken = 0 /\ host.sent = <<>>
    <2>1. NoHost \in HostSocket
      BY DEF NoHost, HostSocket
    <2>2. Packets(NoHost) = <<>> /\ NoHost.taken = 0
      BY DEF NoHost, Packets
    <2>3. Numbered(<<>>, 0)
      BY DEF Numbered
    <2>4. QED BY <1>1, <2>1, <2>2, <2>3 DEF NoHost, HostGood, HostFlags, HostQueues, HostServed
  <1>7. IInv
    BY <1>1, <1>3, <1>4, <1>5, <1>6
       DEF IInv, AssocInv, Typed, Waiting, Requesting, States, Erased, Ended
  <1>8. Abstract!Init
    BY <1>1, <1>3, <1>4, <1>5, <1>6 DEF Abstract!Init, Live, Erased, Ended
  <1>9. QED BY <1>7, <1>8

LEMMA Inductive == IInv /\ [Next]_vars => IInv' /\ Refines
  <1> SUFFICES ASSUME IInv, [Next]_vars PROVE IInv' /\ Refines
    OBVIOUS
  <1>1. CASE ControlStep
    BY <1>1, ControlReadKeeps, ControlWriteKeeps, ControlErrorKeeps DEF ControlStep
  <1>2. CASE LocalStep
    BY <1>2, ArrivalKeeps, DatagramKeeps, AnswerSentKeeps, LocalErrorKeeps DEF LocalStep
  <1>3. CASE HostStep
    BY <1>3, AnswerKeeps, PacketKeeps, HostErrorKeeps DEF HostStep
  <1>4. CASE UNCHANGED vars
    <2>1. /\ session' = session /\ control' = control /\ local' = local /\ host' = host
          /\ segments' = segments /\ answers' = answers
      BY <1>4 DEF vars
    <2>2. IInv'
      BY <2>1 DEF IInv
    <2>3. Refines
      BY <2>1, Stutters DEF SamePhase, SameUp, SameDown
    <2>4. QED BY <2>2, <2>3
  <1>5. QED BY <1>1, <1>2, <1>3, <1>4 DEF Next

(* In every reachable state of an association, for any number of datagrams,  *)
(* answers and control segments, each of its queues is served by one         *)
(* operation, and its state waits for what can move it on.                   *)
THEOREM Invariance == Spec => []IInv
  <1>1. Init => IInv
    BY Initially
  <1>2. IInv /\ [Next]_vars => IInv'
    BY Inductive
  <1>3. QED BY <1>1, <1>2, PTL DEF Spec

(* Every part of the state of an association has its type, in every         *)
(* reachable state.                                                          *)
THEOREM TypeCorrect == Spec => []TypeOK
  <1>1. IInv => TypeOK
    BY DEF IInv, AssocInv, Typed, LocalGood, HostGood, TypeOK
  <1>2. QED BY <1>1, Invariance, PTL

(* A live association waits for what can move it on, whatever datagrams and  *)
(* control segments were ignored or taken (socks_state.cpp:216-240).         *)
THEOREM AlwaysArmed == Spec => []Armed
  <1>1. IInv => Armed
    <2> SUFFICES ASSUME IInv PROVE Armed
      OBVIOUS
    <2>1. Receiving = Held(local)
      BY DEF Receiving, Held
    <2>2. ASSUME session = "SocksConnectionRequest"
          PROVE  control.writes = 0 /\ control.reads = (IF local.bound THEN 0 ELSE 1)
      <3>1. Requesting(control, local, host, segments, answers) /\ local.bound \in BOOLEAN
        BY <2>2 DEF IInv, AssocInv, Typed, Waiting, States, LocalGood, LocalSocket
      <3>2. CASE local.bound = TRUE
        BY <3>1, <3>2 DEF Requesting
      <3>3. CASE local.bound = FALSE
        BY <3>1, <3>3 DEF Requesting
      <3>4. QED BY <3>1, <3>2, <3>3
    <2>3. ASSUME session = "SocksReadyUdpTransferData"
          PROVE  control.writes = 1 /\ Receiving \leq 1 /\ control.reads + segments = 1
      BY <2>1, <2>3 DEF IInv, AssocInv, Waiting, States, Answering
    <2>4. ASSUME session = "SocksDataUdpTransferMode"
          PROVE  /\ control.writes = 0
                 /\ Receiving \geq 1 /\ Receiving \leq 2 + segments
                 /\ control.reads = (IF segments = 0 THEN 1 ELSE 0)
                 /\ host.receives = (IF answers = local.heard THEN 1 ELSE 0)
      BY <2>1, <2>4 DEF IInv, AssocInv, Waiting, States, Relaying
    <2>5. QED BY <2>2, <2>3, <2>4 DEF Armed
  <1>2. QED BY <1>1, Invariance, PTL

(* No queue's front is ever referred to by two operations, not even after    *)
(* the association was erased (udp_client_stream.cpp:113-199).               *)
THEOREM AlwaysOneAtATime == Spec => []OneAtATime
  <1>1. IInv => OneAtATime
    <2> SUFFICES ASSUME IInv PROVE OneAtATime
      OBVIOUS
    <2>1. LocalGood(local) /\ HostFlags(host) /\ host \in HostSocket /\ local \in LocalSocket
      BY DEF IInv, AssocInv, Typed, HostGood, LocalGood
    <2>2. host.writing \in BOOLEAN /\ host.resolving \in BOOLEAN /\ local.writing \in BOOLEAN
      BY <2>1 DEF HostSocket, LocalSocket
    <2>3. /\ host.receives \leq 1 /\ host.sends \leq 1 /\ host.resolves \leq 1
          /\ host.sends > 0 <=> host.writing = TRUE
          /\ host.resolves > 0 <=> host.resolving = TRUE
          /\ host.writing = TRUE => host.write_queue # <<>>
          /\ host.resolving = TRUE => host.dns_queue # <<>>
      BY <2>1 DEF HostFlags
    <2>4. /\ local.sends + local.doomed \leq 1
          /\ local.sends + local.doomed > 0 => local.writing = TRUE /\ local.queue # <<>>
      BY <2>1 DEF LocalGood
    <2>5. QED BY <2>2, <2>3, <2>4 DEF OneAtATime
  <1>2. QED BY <1>1, Invariance, PTL

(* While the session lives, a queue that is not empty is being served, but   *)
(* for packets whose name was resolved (udp_client_stream.cpp:177).          *)
THEOREM AlwaysServed == Spec => []QueuesServed
  <1>1. IInv => QueuesServed
    BY DEF IInv, AssocInv, Typed, QueuesServed, Live, LocalServed, HostServed
  <1>2. QED BY <1>1, Invariance, PTL

(* No packet and no answer is lost, doubled or overtaken by one of its kind. *)
THEOREM AlwaysInOrder == Spec => []InOrder
  <1>1. IInv => InOrder
    <2> SUFFICES ASSUME IInv PROVE InOrder
      OBVIOUS
    <2> DEFINE all == host.sent \o host.write_queue \o host.dns_queue
    <2>1. Numbered(all, host.taken)
      BY DEF IInv, AssocInv, Typed, HostGood, HostQueues, Packets
    <2>2. local.back \o local.queue = [i \in 1..local.heard |-> i]
      BY DEF IInv, AssocInv, Typed, LocalGood, Count
    <2> HIDE DEF all
    <2>3. Len(all) = host.taken
      BY <2>1 DEF Numbered
    <2>4. {all[i].n : i \in DOMAIN all} = 1..host.taken
      BY <2>1 DEF Numbered
    <2>5. \A i, j \in DOMAIN all : i < j /\ all[i].to = all[j].to => all[i].n < all[j].n
      BY <2>1 DEF Numbered
    <2>6. QED BY <2>2, <2>3, <2>4, <2>5 DEF InOrder, all
  <1>2. QED BY <1>1, Invariance, PTL

(* The late completions of an erased association take nothing and start no   *)
(* receive: the look-up of the id in socks_stream_manager.cpp finds nothing. *)
THEOREM StaysQuiet == Spec => ClosedShrinks
  <1> DEFINE Quiet == /\ ~Live'
                      /\ host'.taken = host.taken /\ local'.heard = local.heard
                      /\ local'.receives \leq local.receives
                      /\ host'.receives \leq host.receives
                      /\ control'.reads \leq control.reads
  <1>1. ASSUME IInv, ~Live, Next PROVE Quiet
    <2>1. /\ control \in ServerStream /\ LocalGood(local) /\ HostGood(host)
          /\ local \in LocalSocket /\ host \in HostSocket
          /\ control.reads \in Nat /\ local.receives \in Nat /\ host.receives \in Nat
          /\ session \in {Erased, Ended}
      BY <1>1 DEF IInv, AssocInv, Typed, LocalGood, HostGood, Live, ServerStream, LocalSocket, HostSocket
    <2>2. session \notin States
      BY <2>1 DEF States, Erased, Ended
    <2>3. CASE on_control_read
      <3>1. /\ session' = session /\ control' = server_read_ok(control) /\ control.reads > 0
            /\ local' = local /\ host' = host
        BY <2>2, <2>3 DEF on_control_read, Ignored, Handled, States
      <3>2. control'.reads = control.reads - 1
        BY <2>1, <3>1, ServerReadOk
      <3>3. QED BY <2>1, <3>1, <3>2 DEF Live
    <2>4. CASE on_control_write
      <3>1. /\ session' = session /\ control' = server_write_ok(control) /\ control.writes > 0
            /\ local' = local /\ host' = host
        BY <2>2, <2>4 DEF on_control_write, Ignored, Handled, States
      <3>2. control'.reads = control.reads
        BY <2>1, <3>1, ServerWriteOk
      <3>3. QED BY <2>1, <3>1, <3>2 DEF Live
    <2>5. CASE on_control_error
      <3>1. PICK op \in ServerFailures(control) :
                /\ session' = session /\ control' = server_failed(control, op)
                /\ local' = local /\ host' = host
        BY <1>1, <2>5 DEF on_control_error, Ignored, Handled
      <3>2. control'.reads \leq control.reads
        BY <2>1, <3>1, ServerFailed
      <3>3. QED BY <2>1, <3>1, <3>2 DEF Live
    <2>6. CASE datagram
      <3>1. PICK to \in Destinations :
                /\ session' = session /\ control' = control
                /\ local' = receive_done(local, to) /\ host' = host
        BY <2>6 DEF datagram, Ignored, Handled
      <3>2. local.receives > 0
        BY <2>6 DEF datagram
      <3>3. local'.receives \leq local.receives /\ local'.heard = local.heard
        BY <2>1, <3>1, <3>2, ReceiveDone DEF SameAnswers
      <3>4. QED BY <2>1, <3>1, <3>3 DEF Live
    <2>7. CASE on_datagram
      <3>1. /\ session' = session /\ control' = control /\ local.filled # <<>>
            /\ local' = received(local) /\ host' = host
        BY <2>2, <2>7 DEF on_datagram, Ignored, Handled, States
      <3>2. local'.receives = local.receives /\ local'.heard = local.heard
        BY <2>1, <3>1, Received DEF SameAnswers
      <3>3. QED BY <2>1, <3>1, <3>2 DEF Live
    <2>8. CASE on_answer_sent
      <3>1. /\ session' = session /\ control' = control /\ local.sends > 0
            /\ local' = answer_sent(local) /\ host' = host
        BY <2>8 DEF on_answer_sent, Ignored, Handled
      <3>2. local'.receives = local.receives /\ local'.heard = local.heard
        BY <2>1, <3>1, AnswerSent
      <3>3. QED BY <2>1, <3>1, <3>2 DEF Live
    <2>9. CASE on_local_error
      <3>1. PICK op \in LocalFailures(local) :
                /\ session' = session /\ control' = control
                /\ local' = local_failed(local, op) /\ host' = host
        BY <1>1, <2>9 DEF on_local_error, Ignored, Handled
      <3>2. local'.receives \leq local.receives /\ local'.heard = local.heard
        BY <2>1, <3>1, LocalFailed
      <3>3. QED BY <2>1, <3>1, <3>2 DEF Live
    <2>10. CASE on_answer
      <3>1. /\ session' = session /\ control' = control /\ host.receives > 0
            /\ local' = local /\ host' = host_received(host)
        BY <2>2, <2>10 DEF on_answer, Ignored, Handled, States
      <3>2. host'.receives = host.receives - 1 /\ host'.taken = host.taken
        BY <2>1, <3>1, HostReceives DEF SamePackets
      <3>3. QED BY <2>1, <3>1, <3>2 DEF Live
    <2>11. CASE on_packet_sent
      <3>1. /\ session' = session /\ control' = control /\ host.sends > 0
            /\ local' = local /\ host' = packet_sent(host)
        BY <2>11 DEF on_packet_sent, Ignored, Handled
      <3>2. host'.receives = host.receives /\ host'.taken = host.taken
        BY <2>1, <3>1, PacketSent
      <3>3. QED BY <2>1, <3>1, <3>2 DEF Live
    <2>12. CASE on_resolved
      <3>1. /\ session' = session /\ control' = control /\ host.resolves > 0
            /\ local' = local /\ host' = name_resolved(host)
        BY <2>12 DEF on_resolved, Ignored, Handled
      <3>2. host'.receives = host.receives /\ host'.taken = host.taken
        BY <2>1, <3>1, NameResolved
      <3>3. QED BY <2>1, <3>1, <3>2 DEF Live
    <2>13. CASE on_host_error
      <3>1. PICK op \in HostFailures(host) :
                /\ session' = session /\ control' = control
                /\ local' = local /\ host' = host_failed(host, op)
        BY <1>1, <2>13 DEF on_host_error, Ignored, Handled
      <3>2. host'.receives \leq host.receives /\ host'.taken = host.taken
        BY <2>1, <3>1, HostFailed
      <3>3. QED BY <2>1, <3>1, <3>2 DEF Live
    <2>14. QED
      BY <1>1, <2>3, <2>4, <2>5, <2>6, <2>7, <2>8, <2>9, <2>10, <2>11, <2>12, <2>13
         DEF Next, ControlStep, LocalStep, HostStep
  <1>2. IInv /\ [Next]_vars => [~Live => Quiet]_vars
    BY <1>1
  <1>3. QED BY <1>2, Invariance, PTL DEF Spec, ClosedShrinks

(* What is relayed by the handlers of UdpClientStream and the UDP side of    *)
(* TcpServerStream is relayed as the abstract association promises.          *)
THEOREM Implementation == Spec => Implements
  <1>1. Init => Abstract!Init
    BY Initially
  <1>2. IInv /\ [Next]_vars => [Abstract!Next]_(Abstract!avars)
    BY Inductive DEF Refines
  <1>3. QED BY <1>1, <1>2, Invariance, PTL DEF Spec, Implements, Abstract!Spec
=============================================================================
