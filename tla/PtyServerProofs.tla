--------------------------- MODULE PtyServerProofs ---------------------------
(***************************************************************************)
(* The safety of the terminal daemon, for any sessions, connections, queue *)
(* and ring capacities, chunk and terminal sizes, and any number of bytes  *)
(* and requests.                                                           *)
(*                                                                         *)
(* The inductive invariant says that the ring of a session holds the       *)
(* newest bytes of what the terminal wrote, that whatever attach still has *)
(* to queue joins what the client was sent to the present, and, for every  *)
(* connection and session, how what the client may expect (view) relates   *)
(* to the subscriptions, to the terminal, and to the kill being announced. *)
(***************************************************************************)
EXTENDS PtyServerProps, TLAPS

(* The bytes a terminal wrote from an offset on.                           *)
Exact(bytes, from) == \A k \in 1 .. Len(bytes) : bytes[k] = from + k - 1

ExactMessage == {m \in Message : m.kind = "output" => Exact(m.bytes, m.seq)}

(* The messages q about s carry the output from offset a to offset b: f[i] *)
(* is the offset reached before the i-th of them.                          *)
Joins(q, s, a, b) ==
    /\ q \in Seq(ExactMessage)
    /\ \A i \in 1 .. Len(q) : q[i].kind \in {"session", "output"} /\ q[i].session = s
    /\ \E f \in [1 .. Len(q) + 1 -> Nat] :
          /\ f[1] = a /\ f[Len(q) + 1] = b
          /\ \A i \in 1 .. Len(q) :
                IF q[i].kind = "output"
                THEN f[i] = q[i].seq /\ f[i + 1] = q[i].seq + Len(q[i].bytes)
                ELSE f[i + 1] = f[i]

-----------------------------------------------------------------------------
Session == [phase : {"unborn", "open", "removed"}, ring : Ring,
            subscribers : SUBSET Subscriber, size : Sizes]

Terminal == [written : Nat, size : Sizes]

View == [on : BOOLEAN, next : Nat, fit : BOOLEAN, kept : BOOLEAN,
         end : {"none", "exit", "killed"}]

PtyTypes ==
    /\ sessions \in [Sessions -> Session]
    /\ pty \in [Sessions -> Terminal]
    /\ conns \in [Conns -> Conn]
    /\ queues \in [Conns -> Seq(ExactMessage)]
    /\ \A c \in Conns : Len(queues[c]) <= Queue
    /\ writers \subseteq Conns
    /\ gone \subseteq Conns
    /\ mutex \in Conns \cup {Nobody}
    /\ requests \in Nat
    /\ view \in [Conns -> [Sessions -> View]]

(* The ring of a session that is not over ends at what was written last.   *)
RingInv(s) ==
    /\ Len(sessions[s].ring.data) <= Capacity
    /\ sessions[s].phase # "removed" =>
           /\ Exact(sessions[s].ring.data, sessions[s].ring.start_seq)
           /\ End_seq(sessions[s].ring) = pty[s].written
    /\ sessions[s].phase # "open" => sessions[s].subscribers = {}

Attaching(c, s) == conns[c].pc = "attaching" /\ conns[c].session = s
Killing(d, s) == conns[d].pc = "killing" /\ conns[d].session = s

(* What attach still has to queue joins what it has queued to the present. *)
AttachInv(c, s) ==
    Attaching(c, s) =>
        /\ mutex = c /\ sessions[s].phase = "open"
        /\ \E a \in Nat : /\ Joins(conns[c].todo, s, a, pty[s].written)
                          /\ view[c][s].fit => view[c][s].next = a

(* One kill of a session is being announced, to connections that have not  *)
(* heard of its end.                                                       *)
KillInv(d, s) ==
    Killing(d, s) =>
        /\ sessions[s].phase = "removed"
        /\ \A c \in ConnsOf(conns[d].notify) : view[c][s].end = "none"
        /\ \A e \in Conns : Killing(e, s) => e = d

(* What a client may expect of an open session, and of one that is over.   *)
ViewInv(c, s) ==
    /\ view[c][s].end # "none" => sessions[s].phase = "removed"
    /\ view[c][s].on => sessions[s].phase # "unborn"
    /\ sessions[s].phase = "open" =>
           /\ view[c][s].on /\ view[c][s].kept => c \in ConnsOf(sessions[s].subscribers)
           /\ c \in ConnsOf(sessions[s].subscribers) /\ view[c][s].fit /\ ~Attaching(c, s)
                  => view[c][s].next = pty[s].written
    /\ sessions[s].phase = "removed" /\ view[c][s].on /\ view[c][s].kept =>
           \/ \E d \in Conns : Killing(d, s) /\ c \in ConnsOf(conns[d].notify)
           \/ view[c][s].end = "killed"
           \/ view[c][s].end = "exit" /\ (view[c][s].fit => view[c][s].next = pty[s].written)

Links(s) == \A c \in Conns : AttachInv(c, s) /\ KillInv(c, s) /\ ViewInv(c, s)

Inv == PtyTypes /\ (\A s \in Sessions : RingInv(s)) /\ (\A s \in Sessions : Links(s))

-----------------------------------------------------------------------------
(* The newest elements of a sequence are a suffix of it.                   *)
LEMMA NewestOK ==
    ASSUME NEW S, NEW q \in Seq(S), NEW n \in Nat \ {0}
    PROVE  /\ Newest(q, n) \in Seq(S) /\ Len(Newest(q, n)) <= n
           /\ Len(Newest(q, n)) <= Len(q)
           /\ \A k \in 1 .. Len(Newest(q, n)) :
                 Newest(q, n)[k] = q[Len(q) - Len(Newest(q, n)) + k]
<1>1. Len(q) \in Nat
  OBVIOUS
<1>2. CASE Len(q) > n
  <2>1. Newest(q, n) = SubSeq(q, Len(q) - n + 1, Len(q))
    BY <1>2 DEF Newest
  <2>2. /\ SubSeq(q, Len(q) - n + 1, Len(q)) \in Seq(S)
        /\ Len(SubSeq(q, Len(q) - n + 1, Len(q))) = n
        /\ \A k \in 1 .. n : SubSeq(q, Len(q) - n + 1, Len(q))[k] = q[Len(q) - n + k]
    BY <1>1, <1>2
  <2>3. QED
    BY <1>1, <1>2, <2>1, <2>2
<1>3. CASE Len(q) <= n
  <2>1. Newest(q, n) = q
    BY <1>1, <1>3 DEF Newest
  <2>2. QED
    BY <1>1, <1>3, <2>1
<1>4. QED
  BY <1>1, <1>2, <1>3

(* A push keeps a ring exact, moves its end by what is pushed, and never   *)
(* holds more than the capacity.                                           *)
LEMMA PushOK ==
    ASSUME NEW ring \in Ring, NEW bytes \in Seq(Nat),
           Exact(ring.data, ring.start_seq), Exact(bytes, End_seq(ring))
    PROVE  /\ Push(ring, bytes) \in Ring
           /\ Exact(Push(ring, bytes).data, Push(ring, bytes).start_seq)
           /\ End_seq(Push(ring, bytes)) = End_seq(ring) + Len(bytes)
           /\ Len(Push(ring, bytes).data) <= Capacity
<1> DEFINE all == ring.data \o bytes
           kept == Newest(all, Capacity)
           from == End_seq(ring) + Len(bytes) - Len(kept)
<1>1. /\ ring.data \in Seq(Nat) /\ ring.start_seq \in Nat /\ Capacity \in Nat \ {0}
      /\ Len(ring.data) \in Nat /\ Len(bytes) \in Nat
      /\ End_seq(ring) = ring.start_seq + Len(ring.data)
  BY RingAssumption DEF Ring, End_seq
<1>2. all \in Seq(Nat) /\ Len(all) = Len(ring.data) + Len(bytes)
  BY <1>1
<1>3. ASSUME NEW k \in 1 .. Len(all) PROVE all[k] = ring.start_seq + k - 1
  <2>1. CASE k <= Len(ring.data)
    BY <1>1, <1>2, <2>1 DEF Exact
  <2>2. CASE k > Len(ring.data)
    <3>1. k \in Nat /\ k - Len(ring.data) \in 1 .. Len(bytes)
      BY <1>1, <1>2, <2>2
    <3>2. all[k] = bytes[k - Len(ring.data)]
      BY <1>1, <1>2, <2>2, <3>1
    <3>3. bytes[k - Len(ring.data)] = End_seq(ring) + (k - Len(ring.data)) - 1
      BY <3>1 DEF Exact
    <3>4. End_seq(ring) + (k - Len(ring.data)) - 1 = ring.start_seq + k - 1
      <4> HIDE DEF all
      <4>1. QED
        BY <1>1, <3>1
    <3>5. QED
      BY <3>2, <3>3, <3>4
  <2>3. QED
    BY <1>1, <1>2, <2>1, <2>2
<1>4. /\ kept \in Seq(Nat) /\ Len(kept) <= Capacity /\ Len(kept) <= Len(all)
      /\ \A k \in 1 .. Len(kept) : kept[k] = all[Len(all) - Len(kept) + k]
  BY <1>1, <1>2, NewestOK
<1>5. Push(ring, bytes) = [data |-> kept, start_seq |-> from]
  BY DEF Push
<1> HIDE DEF all, kept
<1>6. Len(kept) \in Nat
  BY <1>4
<1>7. from \in Nat /\ from = ring.start_seq + (Len(all) - Len(kept))
  BY <1>1, <1>2, <1>4, <1>6
<1> HIDE DEF from
<1>8. \A k \in 1 .. Len(kept) : kept[k] = from + k - 1
  <2> SUFFICES ASSUME NEW k \in 1 .. Len(kept) PROVE kept[k] = from + k - 1
    OBVIOUS
  <2>1. Len(all) - Len(kept) + k \in 1 .. Len(all)
    BY <1>1, <1>2, <1>4, <1>6
  <2>2. kept[k] = ring.start_seq + (Len(all) - Len(kept) + k) - 1
    BY <1>3, <1>4, <2>1
  <2>3. Len(all) \in Nat /\ ring.start_seq \in Nat /\ k \in Nat
    BY <1>1, <1>2, <1>6
  <2>4. QED
    BY <1>6, <1>7, <2>2, <2>3
<1>9. [data |-> kept, start_seq |-> from] \in Ring
  BY <1>4, <1>7 DEF Ring
<1>10. from + Len(kept) = End_seq(ring) + Len(bytes)
  BY <1>1, <1>6, <1>7 DEF from
<1>11. QED
  BY <1>4, <1>5, <1>8, <1>9, <1>10 DEF Exact, End_seq

-----------------------------------------------------------------------------
(* Rounding up: the number of chunks of n bytes.                           *)
LEMMA RoundUp ==
    ASSUME NEW n \in Nat, NEW c \in Nat \ {0}
    PROVE  /\ (n + c - 1) \div c \in Nat
           /\ c * ((n + c - 1) \div c) >= n
           /\ c * ((n + c - 1) \div c) < n + c
OBVIOUS

(* Chunk i of q starts before the end of the bytes, and the last ends      *)
(* there.                                                                  *)
LEMMA ChunkStarts ==
    ASSUME NEW n \in Nat, NEW c \in Nat \ {0}, NEW q \in Nat,
           q = (n + c - 1) \div c
    PROVE  /\ \A i \in 1 .. q : (i - 1) * c \in Nat /\ (i - 1) * c < n
           /\ \A i \in Nat : i * c = (i - 1) * c + c
           /\ q * c >= n
<1>1. c * q >= n /\ c * q < n + c
  BY RoundUp
<1>2. q * c >= n
  BY <1>1
<1>3. \A i \in Nat : i * c = (i - 1) * c + c
  OBVIOUS
<1>4. ASSUME NEW i \in 1 .. q PROVE (i - 1) * c \in Nat /\ (i - 1) * c < n
  <2>1. i \in Nat /\ i - 1 \in Nat /\ i <= q
    OBVIOUS
  <2>2. (i - 1) * c \in Nat /\ i * c <= q * c
    BY <2>1
  <2>3. q * c < n + c
    BY <1>1
  <2>4. QED
    BY <1>3, <2>1, <2>2, <2>3
<1>5. QED
  BY <1>2, <1>3, <1>4

(* A stretch of what a terminal wrote.                                     *)
LEMMA SubSeqExact ==
    ASSUME NEW q \in Seq(Nat), NEW from \in Nat, Exact(q, from),
           NEW a \in Nat, NEW b \in Nat, a <= b, b <= Len(q)
    PROVE  /\ SubSeq(q, a + 1, b) \in Seq(Nat) /\ Len(SubSeq(q, a + 1, b)) = b - a
           /\ Exact(SubSeq(q, a + 1, b), from + a)
<1> DEFINE r == SubSeq(q, a + 1, b)
<1>1. Len(q) \in Nat
  OBVIOUS
<1>2. r \in Seq(Nat) /\ Len(r) = b - a /\ \A k \in 1 .. b - a : r[k] = q[a + k]
  BY <1>1
<1> HIDE DEF r
<1>3. \A k \in 1 .. b - a : q[a + k] = from + (a + k) - 1
  <2> SUFFICES ASSUME NEW k \in 1 .. b - a PROVE q[a + k] = from + (a + k) - 1
    OBVIOUS
  <2>1. a + k \in 1 .. Len(q)
    BY <1>1
  <2>2. QED
    BY <2>1 DEF Exact
<1>4. \A k \in 1 .. Len(r) : r[k] = (from + a) + k - 1
  BY <1>2, <1>3
<1>5. QED
  BY <1>2, <1>4 DEF Exact, r

(* Where a replay starts is within the ring.                               *)
LEMMA ReplayStartOK ==
    ASSUME NEW ring \in Ring, NEW from_seq \in Nat
    PROVE  /\ ReplayStart(ring, from_seq) \in Nat /\ End_seq(ring) \in Nat
           /\ ring.start_seq <= ReplayStart(ring, from_seq)
           /\ ReplayStart(ring, from_seq) <= End_seq(ring)
<1>1. ring.data \in Seq(Nat) /\ ring.start_seq \in Nat /\ Len(ring.data) \in Nat
  BY DEF Ring
<1>2. QED
  BY <1>1 DEF ReplayStart, End_seq

(* The messages of an attach carry the output of the terminal from where   *)
(* the replay starts to the present, cut into chunks.                      *)
LEMMA AttachJoins ==
    ASSUME NEW ring \in Ring, Exact(ring.data, ring.start_seq),
           NEW from_seq \in Nat, NEW s \in Sessions
    PROVE  Joins(<< Event("session", s) >>
                   \o [i \in DOMAIN Chunks_from(ring, from_seq) |->
                          Output(s, Chunks_from(ring, from_seq)[i])],
                 s, ReplayStart(ring, from_seq), End_seq(ring))
<1> DEFINE start == ReplayStart(ring, from_seq)
           bytes == SubSeq(ring.data, start - ring.start_seq + 1, Len(ring.data))
           n == Len(bytes)
           q == (n + Chunk - 1) \div Chunk
           From(i) == (i - 1) * Chunk
           Till(i) == IF From(i) + Chunk < n THEN From(i) + Chunk ELSE n
           chunk(i) == SubSeq(bytes, From(i) + 1, Till(i))
           C == Chunks_from(ring, from_seq)
           M == [i \in DOMAIN C |-> Output(s, C[i])]
           todo == << Event("session", s) >> \o M
<1>1. /\ ring.data \in Seq(Nat) /\ ring.start_seq \in Nat /\ Len(ring.data) \in Nat
      /\ start \in Nat /\ ring.start_seq <= start /\ start <= End_seq(ring)
      /\ End_seq(ring) = ring.start_seq + Len(ring.data) /\ End_seq(ring) \in Nat
  <2>1. ring.data \in Seq(Nat) /\ ring.start_seq \in Nat /\ Len(ring.data) \in Nat
    BY DEF Ring
  <2>2. End_seq(ring) = ring.start_seq + Len(ring.data)
    BY DEF End_seq
  <2>3. QED
    BY <2>1, <2>2, ReplayStartOK
<1>2. C = [i \in 1 .. q |-> [seq |-> start + From(i), bytes |-> chunk(i)]]
  BY DEF Chunks_from
<1> HIDE DEF start
<1>3. /\ bytes \in Seq(Nat) /\ n = End_seq(ring) - start /\ n \in Nat
      /\ Exact(bytes, start)
  <2> DEFINE lo == start - ring.start_seq
  <2>1. lo \in Nat /\ lo <= Len(ring.data) /\ ring.start_seq + lo = start
        /\ Len(ring.data) - lo = End_seq(ring) - start
        /\ Len(ring.data) <= Len(ring.data)
    BY <1>1
  <2>2. bytes = SubSeq(ring.data, lo + 1, Len(ring.data))
    OBVIOUS
  <2> HIDE DEF lo, bytes
  <2>3. /\ bytes \in Seq(Nat) /\ n = Len(ring.data) - lo
        /\ Exact(bytes, ring.start_seq + lo)
    BY <1>1, <2>1, <2>2, SubSeqExact
  <2>4. n \in Nat
    BY <2>3
  <2>5. Exact(bytes, start)
    BY <2>1, <2>3
  <2>6. QED
    BY <2>1, <2>3, <2>4, <2>5
<1>4. Chunk \in Nat \ {0}
  BY RingAssumption
<1> HIDE DEF bytes
<1>5. q \in Nat
  BY <1>3, <1>4, RoundUp
<1>6. /\ \A i \in 1 .. q : From(i) \in Nat /\ From(i) < n
      /\ \A i \in Nat : From(i + 1) = From(i) + Chunk
      /\ From(q + 1) >= n /\ From(1) = 0
  <2>1. /\ \A i \in 1 .. q : (i - 1) * Chunk \in Nat /\ (i - 1) * Chunk < n
        /\ \A i \in Nat : i * Chunk = (i - 1) * Chunk + Chunk
        /\ q * Chunk >= n
    BY <1>3, <1>4, <1>5, ChunkStarts
  <2>2. \A i \in Nat : From(i + 1) = i * Chunk
    OBVIOUS
  <2>3. From(1) = 0
    BY <1>4
  <2>4. QED
    BY <1>5, <2>1, <2>2, <2>3
<1> HIDE DEF n, q, From
<1>7. ASSUME NEW i \in 1 .. q
      PROVE  /\ Till(i) \in Nat /\ Till(i) <= n /\ From(i) < Till(i)
             /\ chunk(i) \in Seq(Nat) /\ Len(chunk(i)) = Till(i) - From(i)
             /\ Exact(chunk(i), start + From(i))
  <2>1. From(i) \in Nat /\ From(i) < n
    BY <1>6
  <2>2. Till(i) \in Nat /\ Till(i) <= n /\ From(i) < Till(i)
    BY <1>3, <1>4, <2>1
  <2> HIDE DEF Till
  <2>3. /\ chunk(i) \in Seq(Nat) /\ Len(chunk(i)) = Till(i) - From(i)
        /\ Exact(chunk(i), start + From(i))
    <3>1. From(i) <= Till(i) /\ Till(i) <= Len(bytes)
      BY <2>1, <2>2 DEF n
    <3>2. QED
      BY <1>1, <1>3, <2>1, <2>2, <3>1, SubSeqExact
  <2>4. QED
    BY <2>2, <2>3
<1> HIDE DEF Till, chunk, C
<1>8. DOMAIN C = 1 .. q
      /\ \A i \in 1 .. q : C[i] = [seq |-> start + From(i), bytes |-> chunk(i)]
  BY <1>2
<1>9. ASSUME NEW i \in 1 .. q
      PROVE  /\ Output(s, C[i]) \in ExactMessage /\ Output(s, C[i]).kind = "output"
             /\ Output(s, C[i]).session = s /\ Output(s, C[i]).seq = start + From(i)
             /\ Output(s, C[i]).bytes = chunk(i)
  <2>1. Output(s, C[i]) = [kind |-> "output", session |-> s, seq |-> start + From(i),
                           bytes |-> chunk(i)]
    BY <1>8 DEF Output
  <2>2. start + From(i) \in Nat /\ chunk(i) \in Seq(Nat)
    <3>1. From(i) \in Nat
      BY <1>6
    <3>2. start + From(i) \in Nat
      BY <1>1, <3>1
    <3>3. QED
      BY <1>7, <3>2
  <2>3. Output(s, C[i]) \in Message
    BY <2>1, <2>2 DEF Message
  <2>4. QED
    BY <1>7, <2>1, <2>3 DEF ExactMessage
<1>10. /\ Event("session", s) \in ExactMessage
       /\ Event("session", s).kind = "session" /\ Event("session", s).session = s
  BY DEF Event, ExactMessage, Message
<1>11. /\ M \in Seq(ExactMessage) /\ Len(M) = q
       /\ \A i \in 1 .. q : M[i] = Output(s, C[i])
  BY <1>5, <1>8, <1>9
<1> HIDE DEF M
<1>12. /\ todo \in Seq(ExactMessage) /\ Len(todo) = q + 1
       /\ todo[1] = Event("session", s)
       /\ \A i \in 1 .. q : todo[i + 1] = M[i]
  BY <1>5, <1>10, <1>11
<1> HIDE DEF todo
<1>13. \A i \in 2 .. Len(todo) :
          /\ i - 1 \in 1 .. q /\ todo[i] = Output(s, C[i - 1])
          /\ todo[i].kind = "output" /\ todo[i].session = s
          /\ todo[i].seq = start + From(i - 1) /\ todo[i].bytes = chunk(i - 1)
  <2> SUFFICES ASSUME NEW i \in 2 .. Len(todo)
               PROVE  /\ i - 1 \in 1 .. q /\ todo[i] = Output(s, C[i - 1])
                      /\ todo[i].kind = "output" /\ todo[i].session = s
                      /\ todo[i].seq = start + From(i - 1)
                      /\ todo[i].bytes = chunk(i - 1)
    OBVIOUS
  <2>1. i - 1 \in 1 .. q /\ (i - 1) + 1 = i
    BY <1>5, <1>12
  <2>2. todo[i] = Output(s, C[i - 1])
    BY <1>11, <1>12, <2>1
  <2>3. QED
    BY <1>9, <2>1, <2>2
<1>14. \A i \in 1 .. Len(todo) : todo[i].kind \in {"session", "output"} /\ todo[i].session = s
  <2> SUFFICES ASSUME NEW i \in 1 .. Len(todo)
               PROVE  todo[i].kind \in {"session", "output"} /\ todo[i].session = s
    OBVIOUS
  <2>1. CASE i = 1
    BY <1>10, <1>12, <2>1
  <2>2. CASE i # 1
    <3>1. i \in 2 .. Len(todo)
      BY <1>5, <1>12, <2>2
    <3>2. QED
      BY <1>13, <3>1
  <2>3. QED
    BY <2>1, <2>2
<1> DEFINE Offset(j) == IF j = 1 THEN start
                        ELSE IF From(j - 1) < n THEN start + From(j - 1) ELSE start + n
           f == [j \in 1 .. Len(todo) + 1 |-> Offset(j)]
<1>15. \A j \in 1 .. q + 1 : From(j) < n => From(j) \in Nat
  <2> SUFFICES ASSUME NEW j \in 1 .. q + 1, From(j) < n PROVE From(j) \in Nat
    OBVIOUS
  <2>1. CASE j \in 1 .. q
    BY <1>6, <2>1
  <2>2. CASE j = q + 1
    <3>1. From(q + 1) >= n /\ From(q + 1) < n
      BY <1>6, <2>2
    <3>2. From(q + 1) \in Int
      BY <1>4, <1>5 DEF From
    <3>3. QED
      BY <1>3, <3>1, <3>2
  <2>3. QED
    BY <1>5, <2>1, <2>2
<1>16. ASSUME NEW j \in 1 .. Len(todo) + 1 PROVE Offset(j) \in Nat
  <2>1. CASE j = 1
    BY <1>1, <2>1
  <2>2. CASE j # 1
    <3>1. j - 1 \in 1 .. q + 1
      BY <1>5, <1>12, <2>2
    <3>2. QED
      BY <1>1, <1>3, <1>15, <2>2, <3>1
  <2>3. QED
    BY <2>1, <2>2
<1>17. f \in [1 .. Len(todo) + 1 -> Nat]
  BY <1>16
<1>18. f[1] = start
  BY <1>5, <1>12
<1>19. f[Len(todo) + 1] = End_seq(ring)
  <2>1. Len(todo) + 1 \in 1 .. Len(todo) + 1 /\ Len(todo) + 1 # 1
        /\ (Len(todo) + 1) - 1 = q + 1
    BY <1>5, <1>12
  <2>2. ~(From(q + 1) < n)
    <3>1. From(q + 1) \in Int
      BY <1>4, <1>5 DEF From
    <3>2. QED
      BY <1>3, <1>6, <3>1
  <2>3. f[Len(todo) + 1] = start + n
    BY <2>1, <2>2
  <2>4. QED
    BY <1>1, <1>3, <2>3
<1>20. ASSUME NEW i \in 2 .. Len(todo)
       PROVE  f[i] = todo[i].seq /\ f[i + 1] = todo[i].seq + Len(todo[i].bytes)
  <2>1. /\ i - 1 \in 1 .. q /\ i \in 1 .. Len(todo) + 1 /\ i + 1 \in 1 .. Len(todo) + 1
        /\ i # 1 /\ i + 1 # 1 /\ (i + 1) - 1 = (i - 1) + 1 /\ i - 1 \in Nat
    BY <1>5, <1>12
  <2>2. From(i - 1) < n /\ From(i - 1) \in Nat
    BY <1>6, <2>1
  <2>3. f[i] = start + From(i - 1)
    BY <2>1, <2>2
  <2>4. From((i + 1) - 1) = From(i - 1) + Chunk
    BY <1>6, <2>1
  <2>5. f[i + 1] = start + Till(i - 1)
    BY <1>3, <1>4, <2>1, <2>2, <2>4 DEF Till
  <2>6. Len(todo[i].bytes) = Till(i - 1) - From(i - 1) /\ Till(i - 1) \in Nat
    BY <1>7, <1>13, <2>1
  <2>7. QED
    BY <1>1, <1>13, <2>2, <2>3, <2>5, <2>6
<1>21. f[2] = f[1] /\ todo[1].kind = "session"
  <2>1. 1 \in 1 .. Len(todo) + 1 /\ 2 \in 1 .. Len(todo) + 1 /\ 2 - 1 = 1
    BY <1>5, <1>12
  <2>2. f[2] = IF From(1) < n THEN start + From(1) ELSE start + n
    BY <2>1
  <2>3. From(1) = 0 /\ (~(0 < n) => n = 0)
    BY <1>3, <1>6
  <2>4. f[2] = start
    BY <1>1, <1>3, <2>2, <2>3
  <2>5. QED
    BY <1>10, <1>12, <1>18, <2>4
<1> HIDE DEF f
<1>22. \A i \in 1 .. Len(todo) :
          IF todo[i].kind = "output"
          THEN f[i] = todo[i].seq /\ f[i + 1] = todo[i].seq + Len(todo[i].bytes)
          ELSE f[i + 1] = f[i]
  <2> SUFFICES ASSUME NEW i \in 1 .. Len(todo)
               PROVE  IF todo[i].kind = "output"
                      THEN f[i] = todo[i].seq /\ f[i + 1] = todo[i].seq + Len(todo[i].bytes)
                      ELSE f[i + 1] = f[i]
    OBVIOUS
  <2>1. CASE i = 1
    BY <1>21, <2>1
  <2>2. CASE i # 1
    <3>1. i \in 2 .. Len(todo)
      BY <1>5, <1>12, <2>2
    <3>2. QED
      BY <1>13, <1>20, <3>1
  <2>3. QED
    BY <2>1, <2>2
<1>23. Joins(todo, s, start, End_seq(ring))
  BY <1>12, <1>14, <1>17, <1>18, <1>19, <1>22 DEF Joins
<1>24. QED
  BY <1>23 DEF todo, M, start, C

-----------------------------------------------------------------------------
(* The constants.                                                          *)
LEMMA Constants ==
    /\ Queue \in Nat \ {0} /\ Capacity \in Nat \ {0} /\ Nobody \notin Conns
    /\ Size0 \in Sizes /\ (CHOOSE s \in Sessions : TRUE) \in Sessions
BY PtyAssumption, RingAssumption DEF Size0

(* What sending a message does to what the client may expect.              *)
LEMMA NotedOK ==
    ASSUME NEW v \in View, NEW m \in Message
    PROVE  /\ Noted(v, m) \in View /\ Noted(v, m).on = v.on
           /\ Noted(v, m).fit = v.fit /\ Noted(v, m).kept = v.kept
           /\ m.kind = "output" => /\ Noted(v, m).next = m.seq + Len(m.bytes)
                                   /\ Noted(v, m).end = v.end
           /\ m.kind # "output" => Noted(v, m).next = v.next
           /\ m.kind \in {"exit", "killed"} => Noted(v, m).end = m.kind
           /\ m.kind \notin {"exit", "killed"} => Noted(v, m).end = v.end
<1> DEFINE x == IF m.kind = "output" THEN m.seq + Len(m.bytes) ELSE v.next
           e == IF m.kind \in {"exit", "killed"} THEN m.kind ELSE v.end
<1>1. v.next \in Nat /\ v.end \in {"none", "exit", "killed"}
  BY DEF View
<1>2. m.kind = "output" => m.seq \in Nat /\ m.bytes \in Seq(Nat)
  BY DEF Message
<1>3. x \in Nat
  BY <1>1, <1>2
<1>4. e \in {"none", "exit", "killed"}
  BY <1>1
<1>5. Noted(v, m) = [v EXCEPT !.next = x, !.end = e]
  BY DEF Noted
<1> HIDE DEF x, e
<1>6. /\ Noted(v, m) \in View /\ Noted(v, m).on = v.on /\ Noted(v, m).fit = v.fit
      /\ Noted(v, m).kept = v.kept /\ Noted(v, m).next = x /\ Noted(v, m).end = e
  BY <1>3, <1>4, <1>5 DEF View
<1>7. QED
  BY <1>6 DEF x, e

(* What a try_send to the subscribers of s comes to: each either gets the  *)
(* message or is marked as one that did not keep up, and only then does    *)
(* not survive.                                                            *)
Sent(subs, s, m) ==
    /\ queues' \in [Conns -> Seq(ExactMessage)]
    /\ \A c \in Conns : Len(queues'[c]) <= Queue
    /\ view' \in [Conns -> [Sessions -> View]]
    /\ \A c \in Conns : \A t \in Sessions : t # s => view'[c][t] = view[c][t]
    /\ \A c \in Conns : c \notin ConnsOf(subs) =>
          view'[c][s] = view[c][s] /\ queues'[c] = queues[c]
    /\ \A c \in ConnsOf(Survivors(subs)) :
          queues'[c] = Append(queues[c], m) /\ view'[c][s] = Noted(view[c][s], m)
    /\ \A c \in ConnsOf(subs) : c \notin ConnsOf(Survivors(subs)) =>
          /\ queues'[c] = queues[c]
          /\ view'[c][s] = [view[c][s] EXCEPT !.kept = FALSE]
    /\ ConnsOf(Survivors(subs)) \subseteq ConnsOf(subs)
    /\ ConnsOf(subs) \subseteq Conns

(* try_send does that, to queues that never outgrow Queue.                 *)
LEMMA TrySendOK ==
    ASSUME PtyTypes, NEW subs \in SUBSET Subscriber, NEW s \in Sessions,
           NEW m \in ExactMessage, TrySend(subs, s, m)
    PROVE  Sent(subs, s, m)
<1> DEFINE A == ConnsOf(subs)
           B == ConnsOf(Survivors(subs))
<1>1. B = ConnsOf(subs \ Refusing(subs)) /\ B \subseteq A /\ A \subseteq Conns
  BY DEF Survivors, ConnsOf, Subscriber
<1>2. \A c \in B : HasRoom(c)
  BY DEF Survivors, Refusing, ConnsOf
<1>3. /\ queues' = [c \in Conns |-> IF c \in B THEN Append(queues[c], m) ELSE queues[c]]
      /\ view' = [c \in Conns |->
                    IF c \in B THEN [view[c] EXCEPT ![s] = Noted(@, m)]
                    ELSE IF c \in A THEN [view[c] EXCEPT ![s].kept = FALSE]
                    ELSE view[c]]
  BY <1>1 DEF TrySend
<1> HIDE DEF A, B
<1>4. ASSUME NEW c \in Conns
      PROVE  queues'[c] \in Seq(ExactMessage) /\ Len(queues'[c]) <= Queue
  <2>1. queues[c] \in Seq(ExactMessage) /\ Len(queues[c]) <= Queue
    BY DEF PtyTypes
  <2>2. CASE c \in B
    <3>1. Len(queues[c]) < Queue
      BY <1>2, <2>2 DEF HasRoom
    <3>2. QED
      BY <1>3, <2>1, <2>2, <3>1, Constants
  <2>3. CASE c \notin B
    BY <1>3, <2>1, <2>3
  <2>4. QED
    BY <2>2, <2>3
<1>5. queues' \in [Conns -> Seq(ExactMessage)]
  BY <1>3, <1>4
<1>6. ASSUME NEW c \in Conns
      PROVE  /\ view'[c] \in [Sessions -> View]
             /\ \A t \in Sessions \ {s} : view'[c][t] = view[c][t]
             /\ c \in B => view'[c][s] = Noted(view[c][s], m)
             /\ c \in A \ B => view'[c][s] = [view[c][s] EXCEPT !.kept = FALSE]
             /\ c \notin A => view'[c][s] = view[c][s]
  <2>1. view[c] \in [Sessions -> View] /\ view[c][s] \in View
    BY DEF PtyTypes
  <2>2. Noted(view[c][s], m) \in View
    BY <2>1, NotedOK DEF ExactMessage
  <2>3. [view[c][s] EXCEPT !.kept = FALSE] \in View
    BY <2>1 DEF View
  <2>4. CASE c \in B
    BY <1>1, <1>3, <2>1, <2>2, <2>4
  <2>5. CASE c \in A \ B
    BY <1>3, <2>1, <2>3, <2>5
  <2>6. CASE c \notin A
    BY <1>1, <1>3, <2>1, <2>6 DEF A, B
  <2>7. QED
    BY <2>4, <2>5, <2>6
<1>7. view' \in [Conns -> [Sessions -> View]]
  BY <1>3, <1>6
<1>8. /\ \A c \in B : queues'[c] = Append(queues[c], m)
      /\ \A c \in Conns \ B : queues'[c] = queues[c]
      /\ B \subseteq A /\ A \subseteq Conns
  BY <1>1, <1>3 DEF A, B
<1>9. QED
  BY <1>4, <1>5, <1>6, <1>7, <1>8 DEF A, B, Sent

-----------------------------------------------------------------------------
(* What the links of session t depend on is as it was.                     *)
Same(t) ==
    /\ sessions'[t].phase = sessions[t].phase
    /\ sessions'[t].subscribers = sessions[t].subscribers
    /\ pty'[t].written = pty[t].written
    /\ \A d \in Conns : view'[d][t] = view[d][t]
    /\ \A d \in Conns : Attaching(d, t)' <=> Attaching(d, t)
    /\ \A d \in Conns : Killing(d, t)' <=> Killing(d, t)
    /\ \A d \in Conns : Attaching(d, t) => conns'[d].todo = conns[d].todo /\ mutex' = mutex
    /\ \A d \in Conns : Killing(d, t) => conns'[d].notify = conns[d].notify

(* Then the links hold as they did.                                        *)
LEMMA SameLinks ==
    ASSUME PtyTypes, NEW t \in Sessions, Links(t), Same(t)
    PROVE  Links(t)'
<1> SUFFICES ASSUME NEW c \in Conns
             PROVE  AttachInv(c, t)' /\ KillInv(c, t)' /\ ViewInv(c, t)'
  BY DEF Links
<1>1. AttachInv(c, t) /\ KillInv(c, t) /\ ViewInv(c, t)
  BY DEF Links
<1>2. AttachInv(c, t)'
  BY <1>1 DEF AttachInv, Same
<1>3. KillInv(c, t)'
  <2> SUFFICES ASSUME Killing(c, t)'
               PROVE  /\ sessions'[t].phase = "removed"
                      /\ \A b \in ConnsOf(conns'[c].notify) : view'[b][t].end = "none"
                      /\ \A e \in Conns : Killing(e, t)' => e = c
    BY DEF KillInv
  <2>1. Killing(c, t) /\ conns'[c].notify = conns[c].notify
    BY DEF Same
  <2>2. ConnsOf(conns[c].notify) \subseteq Conns
    BY DEF PtyTypes, Conn, ConnsOf, Subscriber
  <2>3. sessions'[t].phase = "removed"
    BY <1>1, <2>1 DEF KillInv, Same
  <2>4. \A b \in ConnsOf(conns'[c].notify) : view'[b][t].end = "none"
    BY <1>1, <2>1, <2>2 DEF KillInv, Same
  <2>5. \A e \in Conns : Killing(e, t)' => e = c
    BY <1>1, <2>1 DEF KillInv, Same
  <2>6. QED
    BY <2>3, <2>4, <2>5
<1>4. ViewInv(c, t)'
  BY <1>1 DEF ViewInv, Same
<1>5. QED
  BY <1>2, <1>3, <1>4

-----------------------------------------------------------------------------
(* The thread of one connection moves on, outside attach and kill: these   *)
(* are as they were.                                                       *)
Calm == {"ready", "resizing", "responding", "leaving", "closed"}

(* A thread that moves on outside attach and kill disturbs neither.        *)
LEMMA CalmOK ==
    ASSUME PtyTypes, NEW c \in Conns, NEW k \in Conn, conns[c].pc \in Calm,
           k.pc \in Calm, conns' = [conns EXCEPT ![c] = k]
    PROVE  /\ conns' \in [Conns -> Conn] /\ conns'[c] = k
           /\ \A d \in Conns \ {c} : conns'[d] = conns[d]
           /\ \A d \in Conns, t \in Sessions :
                 /\ Attaching(d, t)' <=> Attaching(d, t)
                 /\ Killing(d, t)' <=> Killing(d, t)
                 /\ Attaching(d, t) => conns'[d].todo = conns[d].todo
                 /\ Killing(d, t) => conns'[d].notify = conns[d].notify
<1>1. /\ conns' \in [Conns -> Conn] /\ conns'[c] = k
      /\ \A d \in Conns \ {c} : conns'[d] = conns[d]
  BY DEF PtyTypes
<1>2. ASSUME NEW d \in Conns, NEW t \in Sessions
      PROVE  /\ Attaching(d, t)' <=> Attaching(d, t)
             /\ Killing(d, t)' <=> Killing(d, t)
             /\ Attaching(d, t) => conns'[d].todo = conns[d].todo
             /\ Killing(d, t) => conns'[d].notify = conns[d].notify
  <2>1. CASE d = c
    <3>1. ~Attaching(d, t) /\ ~Killing(d, t)
      BY <2>1 DEF Attaching, Killing, Calm
    <3>2. ~Attaching(d, t)' /\ ~Killing(d, t)'
      BY <1>1, <2>1 DEF Attaching, Killing, Calm
    <3>3. QED
      BY <3>1, <3>2
  <2>2. CASE d # c
    BY <1>1, <2>2 DEF Attaching, Killing
  <2>3. QED
    BY <2>1, <2>2
<1>3. QED
  BY <1>1, <1>2

(* A request that is handled leaves its thread with nothing to announce.   *)
LEMMA HandledOK ==
    ASSUME PtyTypes, NEW c \in Conns, Handled(c)
    PROVE  \E k \in Conn : /\ k.pc = "responding" /\ k.todo = << >> /\ k.notify = {}
                           /\ conns' = [conns EXCEPT ![c] = k]
<1> DEFINE k == [Conn0(conns[c].client_id) EXCEPT !.pc = "responding"]
<1>1. conns[c].client_id \in Conns \cup {Pane}
  BY DEF PtyTypes, Conn
<1>2. k \in Conn /\ k.pc = "responding" /\ k.todo = << >> /\ k.notify = {}
  <2>1. << >> \in Seq(Message)
    OBVIOUS
  <2>2. QED
    BY <1>1, <2>1, Constants DEF Conn, Conn0
<1>3. conns' = [conns EXCEPT ![c] = k]
  BY DEF Handled
<1> HIDE DEF k
<1>4. QED
  BY <1>2, <1>3

(* While nobody holds the mutex, no attach is in progress.                 *)
LEMMA FreeMutex ==
    ASSUME Inv, mutex = Nobody
    PROVE  /\ \A c \in Conns, s \in Sessions : ~Attaching(c, s)
           /\ \A c \in Conns : conns[c].pc # "attaching"
<1>1. \A c \in Conns, s \in Sessions : ~Attaching(c, s)
  BY Constants DEF Inv, Links, AttachInv
<1>2. ASSUME NEW c \in Conns PROVE conns[c].pc # "attaching"
  <2>1. conns[c].session \in Sessions
    BY DEF Inv, PtyTypes, Conn
  <2>2. QED
    BY <1>1, <2>1 DEF Attaching
<1>3. QED
  BY <1>1, <1>2

(* The threads of attach and kill are as they were.                        *)
SameThreads ==
    \A d \in Conns, t \in Sessions :
        /\ Attaching(d, t)' <=> Attaching(d, t)
        /\ Killing(d, t)' <=> Killing(d, t)
        /\ Attaching(d, t) => conns'[d].todo = conns[d].todo
        /\ Killing(d, t) => conns'[d].notify = conns[d].notify

(* The same, said of all threads.                                          *)
LEMMA CalmThreads ==
    ASSUME PtyTypes, NEW c \in Conns, NEW k \in Conn, conns[c].pc \in Calm,
           k.pc \in Calm, conns' = [conns EXCEPT ![c] = k]
    PROVE  conns' \in [Conns -> Conn] /\ SameThreads
BY CalmOK DEF SameThreads

(* A request that is handled at once disturbs neither.                     *)
LEMMA HandledThreads ==
    ASSUME PtyTypes, NEW c \in Conns, conns[c].pc \in Calm, Handled(c)
    PROVE  conns' \in [Conns -> Conn] /\ SameThreads
<1>1. PICK k \in Conn : k.pc = "responding" /\ conns' = [conns EXCEPT ![c] = k]
  BY HandledOK
<1>2. k.pc \in Calm
  BY <1>1 DEF Calm
<1>3. QED
  BY <1>1, <1>2, CalmThreads

(* No thread moves.                                                        *)
LEMMA StillThreads ==
    ASSUME conns' = conns
    PROVE  SameThreads
BY DEF SameThreads, Attaching, Killing

(* A step that touches no session and nothing of what clients may expect.  *)
LEMMA QuietOK ==
    ASSUME Inv, PtyTypes', sessions' = sessions, view' = view, mutex' = mutex,
           \A t \in Sessions : pty'[t].written = pty[t].written, SameThreads
    PROVE  Inv'
<1>1. \A t \in Sessions : Same(t)
  BY DEF Same, SameThreads
<1>2. \A t \in Sessions : Links(t)'
  BY <1>1, SameLinks DEF Inv
<1>3. \A t \in Sessions : RingInv(t)'
  BY DEF Inv, RingInv
<1>4. QED
  BY <1>2, <1>3 DEF Inv
-----------------------------------------------------------------------------
(* The steps that touch no session.                                        *)
LEMMA QuietSteps ==
    ASSUME Inv, NEW c \in Conns,
           \/ Other(c) \/ Respond(c) \/ ReadEof(c) \/ ReadFails(c) \/ WriteFails(c)
           \/ Write(c) \/ Disconnect(c)
    PROVE  Inv'
<1>1. PtyTypes
  BY DEF Inv
<1>2. /\ conns[c] \in Conn /\ queues[c] \in Seq(ExactMessage) /\ Len(queues[c]) <= Queue
      /\ conns \in [Conns -> Conn] /\ queues \in [Conns -> Seq(ExactMessage)]
  BY <1>1 DEF PtyTypes
<1>3. CASE Other(c)
  <2>1. conns[c].pc \in Calm
    BY <1>3 DEF Other, Request, Reads, Calm
  <2>2. conns' \in [Conns -> Conn] /\ SameThreads
    BY <1>1, <1>3, <2>1, HandledThreads DEF Other
  <2>3. requests' \in Nat
    BY <1>1, <1>3 DEF Other, Request, PtyTypes
  <2>4. PtyTypes'
    BY <1>1, <1>3, <2>2, <2>3 DEF Other, PtyTypes
  <2>5. QED
    BY <1>3, <2>2, <2>4, QuietOK DEF Other
<1>4. CASE Respond(c)
  <2> DEFINE k(pc) == [conns[c] EXCEPT !.pc = pc]
  <2>1. \E pc \in {"ready", "leaving"} : conns' = [conns EXCEPT ![c] = k(pc)]
    BY <1>4 DEF Respond, Goto
  <2>2. conns[c].pc \in Calm
    BY <1>4 DEF Respond, Calm
  <2>3. \A pc \in {"ready", "leaving"} : k(pc) \in Conn /\ k(pc).pc \in Calm
    BY <1>2 DEF Conn, Calm
  <2> HIDE DEF k
  <2>4. conns' \in [Conns -> Conn] /\ SameThreads
    BY <1>1, <2>1, <2>2, <2>3, CalmThreads
  <2>5. queues' \in [Conns -> Seq(ExactMessage)] /\ \A d \in Conns : Len(queues'[d]) <= Queue
    <3>1. CASE queues' = queues
      BY <1>1, <3>1 DEF PtyTypes
    <3>2. CASE HasRoom(c) /\ queues' = [queues EXCEPT ![c] = Append(@, Response)]
      <4>1. Response \in ExactMessage
        BY DEF Response, ExactMessage, Message
      <4>2. Append(queues[c], Response) \in Seq(ExactMessage)
        BY <1>2, <4>1
      <4>3. Len(queues[c]) < Queue /\ Len(queues[c]) \in Nat
        BY <1>2, <3>2 DEF HasRoom
      <4>4. Len(Append(queues[c], Response)) <= Queue
        BY <1>2, <4>1, <4>3, Constants
      <4>5. QED
        BY <1>1, <3>2, <4>2, <4>4 DEF PtyTypes
    <3>3. QED
      BY <1>4, <3>1, <3>2 DEF Respond
  <2>6. PtyTypes'
    BY <1>1, <1>4, <2>4, <2>5 DEF Respond, PtyTypes
  <2>7. QED
    BY <1>4, <2>4, <2>6, QuietOK DEF Respond
<1>5. CASE ReadEof(c) \/ ReadFails(c)
  <2> DEFINE k == [conns[c] EXCEPT !.pc = "leaving"]
  <2>1. conns' = [conns EXCEPT ![c] = k] /\ conns[c].pc \in Calm
    BY <1>5 DEF ReadEof, ReadFails, Calm
  <2>2. k \in Conn /\ k.pc \in Calm
    BY <1>2 DEF Conn, Calm
  <2> HIDE DEF k
  <2>3. conns' \in [Conns -> Conn] /\ SameThreads
    BY <1>1, <2>1, <2>2, CalmThreads
  <2>4. PtyTypes'
    BY <1>1, <1>5, <2>3 DEF ReadEof, ReadFails, PtyTypes
  <2>5. QED
    BY <1>5, <2>3, <2>4, QuietOK DEF ReadEof, ReadFails
<1>6. CASE WriteFails(c)
  <2>1. << >> \in Seq(ExactMessage) /\ Len(<< >>) <= Queue
    BY Constants
  <2>2. PtyTypes'
    BY <1>1, <1>6, <2>1 DEF WriteFails, PtyTypes
  <2>3. SameThreads
    BY <1>6, StillThreads DEF WriteFails
  <2>4. QED
    BY <1>6, <2>2, <2>3, QuietOK DEF WriteFails
<1>7. CASE Write(c)
  <2>1. Tail(queues[c]) \in Seq(ExactMessage) /\ Len(Tail(queues[c])) <= Queue
    BY <1>2, <1>7, Constants DEF Write
  <2>2. PtyTypes'
    BY <1>1, <1>7, <2>1 DEF Write, PtyTypes
  <2>3. SameThreads
    BY <1>7, StillThreads DEF Write
  <2>4. QED
    BY <1>7, <2>2, <2>3, QuietOK DEF Write
<1>8. CASE Disconnect(c)
  <2>1. PtyTypes'
    BY <1>1, <1>8 DEF Disconnect, PtyTypes
  <2>2. SameThreads
    BY <1>8, StillThreads DEF Disconnect
  <2>3. QED
    BY <1>8, <2>1, <2>2, QuietOK DEF Disconnect
<1>9. QED
  BY <1>3, <1>4, <1>5, <1>6, <1>7, <1>8

(* A resize first changes the terminal, of which only the size.            *)
LEMMA ResizeWindowOK ==
    ASSUME Inv, NEW c \in Conns, NEW s \in Sessions, NEW z \in Sizes,
           ResizeWindow(c, s, z)
    PROVE  Inv'
<1>1. PtyTypes
  BY DEF Inv
<1>2. conns[c] \in Conn /\ conns[c].pc \in Calm
  BY <1>1 DEF PtyTypes, ResizeWindow, Request, Reads, Calm
<1>3. requests' \in Nat
  BY <1>1 DEF ResizeWindow, Request, PtyTypes
<1>4. CASE /\ pty' = [pty EXCEPT ![s].size = z]
           /\ conns' = [conns EXCEPT ![c].pc = "resizing", ![c].session = s, ![c].size = z]
  <2> DEFINE k == [conns[c] EXCEPT !.pc = "resizing", !.session = s, !.size = z]
  <2>1. conns' = [conns EXCEPT ![c] = k]
    BY <1>4
  <2>2. k \in Conn /\ k.pc \in Calm
    BY <1>2 DEF Conn, Calm
  <2> HIDE DEF k
  <2>3. conns' \in [Conns -> Conn] /\ SameThreads
    BY <1>1, <1>2, <2>1, <2>2, CalmThreads
  <2>4. pty' \in [Sessions -> Terminal] /\ \A t \in Sessions : pty'[t].written = pty[t].written
    <3>1. pty[s] \in Terminal
      BY <1>1 DEF PtyTypes
    <3>2. [pty[s] EXCEPT !.size = z] \in Terminal
          /\ [pty[s] EXCEPT !.size = z].written = pty[s].written
      BY <3>1 DEF Terminal
    <3>3. pty' = [pty EXCEPT ![s] = [pty[s] EXCEPT !.size = z]]
      BY <1>4
    <3>4. QED
      BY <1>1, <3>2, <3>3 DEF PtyTypes
  <2>5. PtyTypes'
    BY <1>1, <1>3, <2>3, <2>4 DEF ResizeWindow, PtyTypes
  <2>6. QED
    BY <2>3, <2>4, <2>5, QuietOK DEF ResizeWindow
<1>5. CASE Handled(c) /\ UNCHANGED pty
  <2>1. conns' \in [Conns -> Conn] /\ SameThreads
    BY <1>1, <1>2, <1>5, HandledThreads
  <2>2. PtyTypes'
    BY <1>1, <1>3, <1>5, <2>1 DEF ResizeWindow, PtyTypes
  <2>3. QED
    BY <1>5, <2>1, <2>2, QuietOK DEF ResizeWindow
<1>6. QED
  BY <1>4, <1>5 DEF ResizeWindow
-----------------------------------------------------------------------------
(* The steps that touch one session: what holds of the others still does.  *)
LEMMA OthersKept ==
    ASSUME Inv, PtyTypes', NEW s \in Sessions, RingInv(s)', Links(s)',
           \A t \in Sessions : t # s => Same(t) /\ sessions'[t].ring = sessions[t].ring
    PROVE  Inv'
<1>1. ASSUME NEW t \in Sessions, t # s PROVE RingInv(t)' /\ Links(t)'
  <2>1. Same(t)
    BY <1>1
  <2>2. Links(t)'
    BY <2>1, SameLinks DEF Inv
  <2>3. RingInv(t)'
    BY <1>1, <2>1 DEF Inv, RingInv, Same
  <2>4. QED
    BY <2>2, <2>3
<1>2. \A t \in Sessions : RingInv(t)'
  BY <1>1
<1>3. \A t \in Sessions : Links(t)'
  BY <1>1
<1>4. QED
  BY <1>2, <1>3 DEF Inv

Apart(s) ==
    \A t \in Sessions \ {s} :
        /\ sessions'[t] = sessions[t]
        /\ pty'[t].written = pty[t].written
        /\ \A d \in Conns : view'[d][t] = view[d][t]

(* A step that leaves the threads of attach and kill alone as well.        *)
LEMMA OneSession ==
    ASSUME Inv, PtyTypes', NEW s \in Sessions, Apart(s), SameThreads, mutex' = mutex,
           RingInv(s)', Links(s)'
    PROVE  Inv'
<1>1. ASSUME NEW t \in Sessions, t # s
      PROVE  Same(t) /\ sessions'[t].ring = sessions[t].ring
  BY <1>1 DEF Same, Apart, SameThreads
<1>2. QED
  BY <1>1, OthersKept

(* What is left of a removed session.                                      *)
LEMMA RemovedOK ==
    ASSUME NEW x \in Session
    PROVE  /\ Removed(x) \in Session /\ Removed(x).phase = "removed"
           /\ Removed(x).subscribers = {} /\ Removed(x).size = x.size
           /\ Len(Removed(x).ring.data) = 0
<1>1. NewRing \in Ring /\ Len(NewRing.data) = 0
  BY DEF NewRing, Ring
<1>2. QED
  BY <1>1 DEF Removed, Session

(* Nobody attaches to, and nobody announces the end of, the session.       *)
LEMMA Undisturbed ==
    ASSUME Inv, NEW s \in Sessions, sessions[s].phase # "removed"
    PROVE  \A d \in Conns : ~Killing(d, s)
BY DEF Inv, Links, KillInv

(* A new session has no subscriber, and nobody expects anything of it.     *)
LEMMA CreateOK ==
    ASSUME Inv, NEW c \in Conns, NEW s \in Sessions, Create_session(c, s)
    PROVE  Inv'
<1>1. PtyTypes /\ RingInv(s) /\ Links(s)
  BY DEF Inv
<1>2. conns[c].pc \in Calm
  BY DEF Create_session, Reads, Calm
<1>3. conns' \in [Conns -> Conn] /\ SameThreads
  BY <1>1, <1>2, HandledThreads DEF Create_session
<1> DEFINE x == [sessions[s] EXCEPT !.phase = "open"]
<1>4. /\ x \in Session /\ x.phase = "open" /\ x.ring = sessions[s].ring
      /\ x.subscribers = sessions[s].subscribers
  BY <1>1 DEF PtyTypes, Session
<1>5. sessions' = [sessions EXCEPT ![s] = x]
  BY DEF Create_session
<1> HIDE DEF x
<1>6. /\ sessions' \in [Sessions -> Session] /\ sessions'[s] = x
      /\ \A t \in Sessions \ {s} : sessions'[t] = sessions[t]
  BY <1>1, <1>4, <1>5 DEF PtyTypes
<1>7. PtyTypes'
  BY <1>1, <1>3, <1>6 DEF Create_session, PtyTypes
<1>8. Apart(s)
  BY <1>6 DEF Apart, Create_session
<1>9. sessions[s].phase = "unborn" /\ sessions[s].subscribers = {}
  BY <1>1 DEF Create_session, RingInv
<1>10. RingInv(s)'
  BY <1>1, <1>4, <1>6, <1>9 DEF RingInv, Create_session
<1>11. ASSUME NEW d \in Conns PROVE AttachInv(d, s)' /\ KillInv(d, s)' /\ ViewInv(d, s)'
  <2>1. AttachInv(d, s) /\ KillInv(d, s) /\ ViewInv(d, s) /\ view'[d][s] = view[d][s]
    BY <1>1 DEF Links, Create_session
  <2>2. ~Attaching(d, s)' /\ ~Killing(d, s)'
    BY <1>3, <1>9, <2>1 DEF SameThreads, AttachInv, KillInv
  <2>3. d \notin ConnsOf(sessions'[s].subscribers)
    BY <1>4, <1>6, <1>9 DEF ConnsOf
  <2>4. view[d][s].end = "none" /\ ~view[d][s].on
    BY <1>9, <2>1 DEF ViewInv
  <2>5. ViewInv(d, s)'
    BY <1>4, <1>6, <2>1, <2>3, <2>4 DEF ViewInv
  <2>6. QED
    BY <2>2, <2>5 DEF AttachInv, KillInv
<1>12. Links(s)'
  BY <1>11 DEF Links
<1>13. mutex' = mutex
  BY DEF Create_session
<1>14. QED
  BY <1>3, <1>7, <1>8, <1>10, <1>12, <1>13, OneSession

(* The child has exited: every client that kept up has all of its output.  *)
LEMMA FinishOK ==
    ASSUME Inv, NEW s \in Sessions, Finish_session(s)
    PROVE  Inv'
<1> DEFINE subs == sessions[s].subscribers
           m == Event("exit", s)
<1>1. PtyTypes /\ RingInv(s) /\ Links(s)
  BY DEF Inv
<1>2. sessions[s] \in Session /\ subs \in SUBSET Subscriber
  BY <1>1 DEF PtyTypes, Session
<1>3. m \in ExactMessage /\ m \in Message /\ m.kind = "exit"
  BY DEF Event, ExactMessage, Message
<1>4. sessions[s].phase = "open" /\ mutex = Nobody /\ TrySend(subs, s, m)
  BY DEF Finish_session
<1> HIDE DEF subs, m
<1>5. SameThreads
  BY StillThreads DEF Finish_session
<1>6. /\ sessions' \in [Sessions -> Session] /\ sessions'[s] = Removed(sessions[s])
      /\ \A t \in Sessions \ {s} : sessions'[t] = sessions[t]
  BY <1>1, <1>2, RemovedOK DEF Finish_session, PtyTypes
<1>7. /\ sessions'[s].phase = "removed" /\ sessions'[s].subscribers = {}
      /\ Len(sessions'[s].ring.data) = 0
  BY <1>2, <1>6, RemovedOK
<1>8. Sent(subs, s, m)
  BY <1>1, <1>2, <1>3, <1>4, TrySendOK
<1>9. PtyTypes'
  BY <1>1, <1>6, <1>8 DEF Finish_session, PtyTypes, Sent
<1>10. Apart(s)
  BY <1>6, <1>8 DEF Apart, Finish_session, Sent
<1>11. RingInv(s)'
  BY <1>7, Constants DEF RingInv
<1>12. ASSUME NEW d \in Conns PROVE AttachInv(d, s)' /\ KillInv(d, s)' /\ ViewInv(d, s)'
  <2>1. ViewInv(d, s) /\ view[d][s] \in View
    BY <1>1 DEF Links, PtyTypes
  <2>2. ~Attaching(d, s) /\ ~Attaching(d, s)' /\ ~Killing(d, s)'
    BY <1>4, <1>5, FreeMutex, Undisturbed DEF SameThreads
  <2>3. SUFFICES ViewInv(d, s)'
    BY <2>2 DEF AttachInv, KillInv
  <2>4. CASE d \in ConnsOf(Survivors(subs))
    <3>1. view'[d][s] = Noted(view[d][s], m) /\ d \in ConnsOf(subs)
      BY <1>8, <2>4 DEF Sent
    <3>2. view'[d][s].end = "exit" /\ view'[d][s].next = view[d][s].next
          /\ view'[d][s].fit = view[d][s].fit
      BY <1>3, <2>1, <3>1, NotedOK
    <3>3. view[d][s].fit => view[d][s].next = pty[s].written
      BY <1>4, <2>1, <2>2, <3>1 DEF ViewInv, subs
    <3>4. QED
      BY <1>7, <3>2, <3>3 DEF ViewInv, Finish_session
  <2>5. CASE d \in ConnsOf(subs) /\ d \notin ConnsOf(Survivors(subs))
    <3>1. view'[d][s] = [view[d][s] EXCEPT !.kept = FALSE]
      BY <1>8, <2>5 DEF Sent
    <3>2. view'[d][s].kept = FALSE
      BY <2>1, <3>1 DEF View
    <3>3. QED
      BY <1>7, <3>2 DEF ViewInv
  <2>6. CASE d \notin ConnsOf(subs)
    <3>1. view'[d][s] = view[d][s]
      BY <1>8, <2>6 DEF Sent
    <3>2. ~(view[d][s].on /\ view[d][s].kept)
      BY <1>4, <2>1, <2>6 DEF ViewInv, subs
    <3>3. QED
      BY <1>7, <3>1, <3>2 DEF ViewInv
  <2>7. QED
    BY <2>4, <2>5, <2>6
<1>13. Links(s)'
  BY <1>12 DEF Links
<1>14. mutex' = mutex
  BY DEF Finish_session
<1>15. QED
  BY <1>5, <1>9, <1>10, <1>11, <1>13, <1>14, OneSession

(* A message to the subscribers of a session that stays open: those that   *)
(* are left have been sent everything that was written.                    *)
LEMMA StaysOpen ==
    ASSUME Inv, NEW s \in Sessions, sessions[s].phase = "open", mutex = Nobody,
           SameThreads, NEW m \in ExactMessage,
           Sent(sessions[s].subscribers, s, m), sessions'[s].phase = "open",
           sessions'[s].subscribers = Survivors(sessions[s].subscribers),
           \/ m.kind = "output" /\ pty'[s].written = m.seq + Len(m.bytes)
           \/ m.kind = "session" /\ pty'[s].written = pty[s].written
    PROVE  Links(s)'
<1> DEFINE subs == sessions[s].subscribers
<1>1. ASSUME NEW d \in Conns PROVE AttachInv(d, s)' /\ KillInv(d, s)' /\ ViewInv(d, s)'
  <2>1. ViewInv(d, s) /\ view[d][s] \in View /\ m \in Message
    BY DEF Inv, Links, PtyTypes, ExactMessage
  <2>2. ~Attaching(d, s) /\ ~Attaching(d, s)' /\ ~Killing(d, s)'
    BY FreeMutex, Undisturbed DEF SameThreads
  <2>3. view[d][s].end = "none"
    BY <2>1 DEF ViewInv
  <2> HIDE DEF subs
  <2>4. SUFFICES ViewInv(d, s)'
    BY <2>2 DEF AttachInv, KillInv
  <2>5. CASE d \in ConnsOf(Survivors(subs))
    <3>1. view'[d][s] = Noted(view[d][s], m) /\ d \in ConnsOf(subs)
      BY <2>5 DEF Sent, subs
    <3>2. /\ view'[d][s].end = "none" /\ view'[d][s].fit = view[d][s].fit
          /\ m.kind = "session" => view'[d][s].next = view[d][s].next
          /\ m.kind = "output" => view'[d][s].next = pty'[s].written
      BY <2>1, <2>3, <3>1, NotedOK
    <3>3. view[d][s].fit => view[d][s].next = pty[s].written
      BY <2>1, <2>2, <3>1 DEF ViewInv, subs
    <3>4. view'[d][s].fit => view'[d][s].next = pty'[s].written
      BY <3>2, <3>3
    <3>5. d \in ConnsOf(sessions'[s].subscribers)
      BY <2>5 DEF subs
    <3>6. QED
      BY <3>2, <3>4, <3>5 DEF ViewInv
  <2>6. CASE d \in ConnsOf(subs) /\ d \notin ConnsOf(Survivors(subs))
    <3>1. view'[d][s] = [view[d][s] EXCEPT !.kept = FALSE]
      BY <2>6 DEF Sent, subs
    <3>2. view'[d][s].kept = FALSE /\ view'[d][s].end = "none"
      BY <2>1, <2>3, <3>1 DEF View
    <3>3. d \notin ConnsOf(sessions'[s].subscribers)
      BY <2>6 DEF subs
    <3>4. QED
      BY <3>2, <3>3 DEF ViewInv
  <2>7. CASE d \notin ConnsOf(subs)
    <3>1. view'[d][s] = view[d][s] /\ d \notin ConnsOf(sessions'[s].subscribers)
      BY <2>7 DEF Sent, subs
    <3>2. ~(view[d][s].on /\ view[d][s].kept)
      BY <2>1, <2>7 DEF ViewInv, subs
    <3>3. QED
      BY <2>3, <3>1, <3>2 DEF ViewInv
  <2>8. QED
    BY <2>5, <2>6, <2>7
<1>2. QED
  BY <1>1 DEF Links

(* The subscriptions that survive are subscriptions.                       *)
LEMMA SurvivorsOK ==
    ASSUME NEW subs \in SUBSET Subscriber
    PROVE  Survivors(subs) \in SUBSET Subscriber
BY DEF Survivors

(* Output is kept in the ring and sent at the offset where the ring ended. *)
LEMMA DeliverOK ==
    ASSUME Inv, NEW s \in Sessions, NEW n \in 1 .. MaxRead, Deliver_output(s, n)
    PROVE  Inv'
<1> DEFINE first == pty[s].written
           bytes == [i \in 1 .. n |-> first + i - 1]
           ring == sessions[s].ring
           subs == sessions[s].subscribers
           m == Output(s, [seq |-> End_seq(ring), bytes |-> bytes])
           x == [sessions[s] EXCEPT !.ring = Push(ring, bytes), !.subscribers = Survivors(subs)]
           y == [pty[s] EXCEPT !.written = first + n]
<1>1. PtyTypes /\ RingInv(s)
  BY DEF Inv
<1>2. sessions[s].phase = "open" /\ mutex = Nobody /\ TrySend(subs, s, m)
  BY DEF Deliver_output
<1>3. sessions' = [sessions EXCEPT ![s] = x] /\ pty' = [pty EXCEPT ![s] = y]
  BY DEF Deliver_output
<1>4. sessions[s] \in Session /\ pty[s] \in Terminal
  BY <1>1 DEF PtyTypes
<1>5. subs \in SUBSET Subscriber /\ ring \in Ring /\ first \in Nat
  BY <1>4 DEF Session, Terminal
<1>6. n \in Nat /\ first + n \in Nat
  BY <1>5, PtyAssumption
<1>7. /\ bytes \in Seq(Nat) /\ Len(bytes) = n
      /\ \A k \in 1 .. n : bytes[k] = first + k - 1
  <2>1. \A i \in 1 .. n : first + i - 1 \in Nat
    BY <1>5, <1>6
  <2>2. QED
    BY <1>6, <2>1
<1>8. Exact(ring.data, ring.start_seq) /\ End_seq(ring) = first
  BY <1>1, <1>2 DEF RingInv
<1> HIDE DEF bytes
<1>9. Exact(bytes, first)
  BY <1>7 DEF Exact
<1>10. /\ Push(ring, bytes) \in Ring
       /\ Exact(Push(ring, bytes).data, Push(ring, bytes).start_seq)
       /\ End_seq(Push(ring, bytes)) = first + n
       /\ Len(Push(ring, bytes).data) <= Capacity
  BY <1>5, <1>7, <1>8, <1>9, PushOK
<1>11. /\ m \in ExactMessage /\ m.kind = "output" /\ m.seq = first /\ m.bytes = bytes
  BY <1>5, <1>7, <1>8, <1>9 DEF Output, ExactMessage, Message
<1> HIDE DEF m
<1>12. /\ x \in Session /\ x.phase = "open" /\ x.ring = Push(ring, bytes)
       /\ x.subscribers = Survivors(subs)
  BY <1>2, <1>4, <1>5, <1>10, SurvivorsOK DEF Session
<1>13. y \in Terminal /\ y.written = first + n
  BY <1>4, <1>6 DEF Terminal
<1> HIDE DEF x, y
<1>14. /\ sessions' \in [Sessions -> Session] /\ sessions'[s] = x
       /\ \A t \in Sessions \ {s} : sessions'[t] = sessions[t]
  BY <1>1, <1>3, <1>12 DEF PtyTypes
<1>15. /\ pty' \in [Sessions -> Terminal] /\ pty'[s] = y
       /\ \A t \in Sessions \ {s} : pty'[t] = pty[t]
  BY <1>1, <1>3, <1>13 DEF PtyTypes
<1> HIDE DEF first, subs
<1>16. Sent(subs, s, m)
  BY <1>1, <1>2, <1>5, <1>11, TrySendOK
<1>17. PtyTypes'
  BY <1>1, <1>14, <1>15, <1>16 DEF Deliver_output, PtyTypes, Sent
<1>18. Apart(s)
  BY <1>14, <1>15, <1>16 DEF Apart, Sent
<1>19. SameThreads /\ mutex' = mutex
  BY StillThreads DEF Deliver_output
<1>20. RingInv(s)'
  BY <1>10, <1>12, <1>13, <1>14, <1>15 DEF RingInv
<1>21. pty'[s].written = m.seq + Len(m.bytes)
  BY <1>7, <1>11, <1>13, <1>15
<1>22. Links(s)'
  BY <1>2, <1>11, <1>12, <1>14, <1>16, <1>19, <1>21, StaysOpen DEF subs
<1>23. QED
  BY <1>17, <1>18, <1>19, <1>20, <1>22, OneSession

(* A resize, once the terminal has the size, is told to the subscribers.   *)
LEMMA ResizeRecordOK ==
    ASSUME Inv, NEW c \in Conns, ResizeRecord(c)
    PROVE  Inv'
<1>1. PtyTypes
  BY DEF Inv
<1>2. conns[c].pc \in Calm /\ mutex = Nobody /\ mutex' = mutex
  BY DEF ResizeRecord, Calm
<1>3. conns' \in [Conns -> Conn] /\ SameThreads
  BY <1>1, <1>2, HandledThreads DEF ResizeRecord
<1>4. conns[c] \in Conn
  BY <1>1 DEF PtyTypes
<1>5. PICK s \in Sessions : s = conns[c].session /\ conns[c].size \in Sizes
  BY <1>4 DEF Conn
<1> DEFINE subs == sessions[s].subscribers
           m == Event("session", s)
           x == [sessions[s] EXCEPT !.size = conns[c].size, !.subscribers = Survivors(subs)]
<1>6. CASE sessions[s].phase # "open"
  <2>1. UNCHANGED << sessions, queues, view, pty >>
    BY <1>5, <1>6 DEF ResizeRecord
  <2>2. PtyTypes'
    BY <1>1, <1>3, <2>1 DEF ResizeRecord, PtyTypes
  <2>3. QED
    BY <1>2, <1>3, <2>1, <2>2, QuietOK
<1>7. CASE sessions[s].phase = "open"
  <2>1. TrySend(subs, s, m) /\ sessions' = [sessions EXCEPT ![s] = x]
    BY <1>5, <1>7 DEF ResizeRecord
  <2>2. sessions[s] \in Session /\ RingInv(s)
    BY <1>1, <1>5 DEF PtyTypes, Inv
  <2>3. subs \in SUBSET Subscriber
    BY <2>2 DEF Session
  <2>4. m \in ExactMessage /\ m.kind = "session"
    BY <1>5 DEF Event, ExactMessage, Message
  <2>5. /\ x \in Session /\ x.phase = "open" /\ x.ring = sessions[s].ring
        /\ x.subscribers = Survivors(subs)
    BY <1>5, <1>7, <2>2, <2>3, SurvivorsOK DEF Session
  <2> HIDE DEF x, m
  <2>6. /\ sessions' \in [Sessions -> Session] /\ sessions'[s] = x
        /\ \A t \in Sessions \ {s} : sessions'[t] = sessions[t]
    BY <1>1, <1>5, <2>1, <2>5 DEF PtyTypes
  <2>7. Sent(subs, s, m)
    BY <1>1, <1>5, <2>1, <2>3, <2>4, TrySendOK
  <2>8. PtyTypes'
    BY <1>1, <1>3, <2>6, <2>7 DEF ResizeRecord, PtyTypes, Sent
  <2>9. Apart(s)
    BY <2>6, <2>7 DEF Apart, Sent, ResizeRecord
  <2>10. RingInv(s)'
    BY <1>7, <2>2, <2>5, <2>6 DEF RingInv, ResizeRecord
  <2>11. pty'[s].written = pty[s].written
    BY DEF ResizeRecord
  <2>12. Links(s)'
    BY <1>2, <1>3, <1>5, <1>7, <2>4, <2>5, <2>6, <2>7, <2>11, StaysOpen
  <2>13. QED
    BY <1>2, <1>3, <1>5, <2>8, <2>9, <2>10, <2>12, OneSession
<1>8. QED
  BY <1>6, <1>7

(* Kill removes the session and keeps its subscribers, to tell them.       *)
LEMMA KillOK ==
    ASSUME Inv, NEW c \in Conns, NEW s \in Sessions, Kill(c, s)
    PROVE  Inv'
<1> DEFINE subs == sessions[s].subscribers
           k == [conns[c] EXCEPT !.pc = "killing", !.session = s, !.notify = subs]
<1>1. PtyTypes /\ RingInv(s) /\ Links(s)
  BY DEF Inv
<1>2. /\ sessions[s].phase = "open" /\ mutex = Nobody /\ mutex' = mutex
      /\ conns[c].pc = "ready" /\ view' = view /\ pty' = pty
  BY DEF Kill, Request, Reads
<1>3. sessions[s] \in Session /\ subs \in SUBSET Subscriber /\ conns[c] \in Conn
  BY <1>1 DEF PtyTypes, Session
<1>4. /\ sessions' \in [Sessions -> Session] /\ sessions'[s] = Removed(sessions[s])
      /\ \A t \in Sessions \ {s} : sessions'[t] = sessions[t]
  BY <1>1, <1>3, RemovedOK DEF Kill, PtyTypes
<1>5. /\ sessions'[s].phase = "removed" /\ sessions'[s].subscribers = {}
      /\ Len(sessions'[s].ring.data) = 0
  BY <1>3, <1>4, RemovedOK
<1>6. k \in Conn /\ k.pc = "killing" /\ k.session = s /\ k.notify = subs
  BY <1>3 DEF Conn
<1>7. conns' = [conns EXCEPT ![c] = k]
  BY DEF Kill
<1> HIDE DEF k
<1>8. /\ conns' \in [Conns -> Conn] /\ conns'[c] = k
      /\ \A d \in Conns \ {c} : conns'[d] = conns[d]
  BY <1>1, <1>6, <1>7 DEF PtyTypes
<1>9. requests' \in Nat
  BY <1>1 DEF Kill, Request, PtyTypes
<1>10. PtyTypes'
  BY <1>1, <1>4, <1>8, <1>9 DEF Kill, PtyTypes
<1>11. RingInv(s)'
  BY <1>5, Constants DEF RingInv
<1>12. /\ \A d \in Conns, t \in Sessions : ~Attaching(d, t) /\ ~Attaching(d, t)'
  <2>1. \A d \in Conns, t \in Sessions : ~Attaching(d, t)
    BY <1>2, FreeMutex
  <2>2. ASSUME NEW d \in Conns, NEW t \in Sessions PROVE ~Attaching(d, t)'
    <3>1. CASE d = c
      BY <1>6, <1>8, <3>1 DEF Attaching
    <3>2. CASE d # c
      BY <1>8, <2>1, <3>2 DEF Attaching
    <3>3. QED
      BY <3>1, <3>2
  <2>3. QED
    BY <2>1, <2>2
<1>13. /\ Killing(c, s)' /\ \A d \in Conns : Killing(d, s)' => d = c
       /\ \A t \in Sessions : ~Killing(c, t)
       /\ \A t \in Sessions : t # s => ~Killing(c, t)'
  <2>1. \A d \in Conns : ~Killing(d, s)
    BY <1>2, Undisturbed
  <2>2. QED
    BY <1>2, <1>6, <1>8, <2>1 DEF Killing
<1>14. ASSUME NEW t \in Sessions, t # s
       PROVE  Same(t) /\ sessions'[t].ring = sessions[t].ring
  <2>1. \A d \in Conns : Killing(d, t)' <=> Killing(d, t)
    BY <1>8, <1>13, <1>14 DEF Killing
  <2>2. \A d \in Conns : Killing(d, t) => conns'[d].notify = conns[d].notify
    BY <1>8, <1>13
  <2>3. QED
    BY <1>2, <1>4, <1>12, <1>14, <2>1, <2>2 DEF Same
<1>15. ASSUME NEW d \in Conns PROVE AttachInv(d, s)' /\ KillInv(d, s)' /\ ViewInv(d, s)'
  <2>1. AttachInv(d, s)'
    BY <1>12 DEF AttachInv
  <2>2. KillInv(d, s)'
    <3>1. \A b \in ConnsOf(subs) : view[b][s].end = "none"
      <4>1. ConnsOf(subs) \subseteq Conns
        BY <1>3 DEF ConnsOf, Subscriber
      <4>2. QED
        BY <1>1, <1>2, <4>1 DEF Links, ViewInv
    <3>2. \A b \in ConnsOf(conns'[c].notify) : view'[b][s].end = "none"
      BY <1>2, <1>6, <1>8, <3>1
    <3>3. QED
      BY <1>5, <1>13, <3>2 DEF KillInv
  <2>3. ViewInv(d, s)'
    <3>1. ViewInv(d, s) /\ view'[d][s] = view[d][s]
      BY <1>1, <1>2 DEF Links
    <3>2. view[d][s].on /\ view[d][s].kept => d \in ConnsOf(conns'[c].notify)
      BY <1>2, <1>6, <1>8, <3>1 DEF ViewInv
    <3>3. QED
      BY <1>5, <1>13, <3>1, <3>2 DEF ViewInv
  <2>4. QED
    BY <2>1, <2>2, <2>3
<1>16. Links(s)'
  BY <1>15 DEF Links
<1>17. QED
  BY <1>10, <1>11, <1>14, <1>16, OthersKept

(* Kill tells the subscribers without the mutex.                           *)
LEMMA KillNotifyOK ==
    ASSUME Inv, NEW c \in Conns, KillNotify(c)
    PROVE  Inv'
<1> DEFINE subs == conns[c].notify
<1>1. PtyTypes /\ conns[c] \in Conn
  BY DEF Inv, PtyTypes
<1>2. PICK s \in Sessions : s = conns[c].session
  BY <1>1 DEF Conn
<1> DEFINE m == Event("killed", s)
<1>3. subs \in SUBSET Subscriber /\ RingInv(s) /\ Links(s)
  BY <1>1 DEF Conn, Inv
<1>4. Killing(c, s) /\ TrySend(subs, s, m)
  BY <1>2 DEF KillNotify, Killing
<1>5. m \in ExactMessage /\ m \in Message /\ m.kind = "killed"
  BY DEF Event, ExactMessage, Message
<1>6. /\ sessions[s].phase = "removed"
      /\ \A e \in Conns : Killing(e, s) => e = c
  BY <1>3, <1>4 DEF Links, KillInv
<1>7. PICK k \in Conn : k.pc = "responding" /\ conns' = [conns EXCEPT ![c] = k]
  BY <1>1, HandledOK DEF KillNotify
<1>8. /\ conns' \in [Conns -> Conn] /\ conns'[c] = k
      /\ \A d \in Conns \ {c} : conns'[d] = conns[d]
  BY <1>1, <1>7 DEF PtyTypes
<1> HIDE DEF subs, m
<1>9. Sent(subs, s, m)
  BY <1>1, <1>3, <1>4, <1>5, TrySendOK
<1>10. PtyTypes'
  BY <1>1, <1>8, <1>9 DEF KillNotify, PtyTypes, Sent
<1>11. sessions' = sessions /\ pty' = pty /\ mutex' = mutex
  BY DEF KillNotify
<1>12. RingInv(s)'
  BY <1>3, <1>11 DEF RingInv
<1>13. \A t \in Sessions : /\ ~Attaching(c, t) /\ ~Attaching(c, t)' /\ ~Killing(c, t)'
                           /\ t # s => ~Killing(c, t)
  BY <1>4, <1>7, <1>8 DEF Killing, Attaching
<1>14. ASSUME NEW t \in Sessions, t # s
       PROVE  Same(t) /\ sessions'[t].ring = sessions[t].ring
  <2>1. \A d \in Conns : /\ Killing(d, t)' <=> Killing(d, t)
                         /\ Attaching(d, t)' <=> Attaching(d, t)
    <3> SUFFICES ASSUME NEW d \in Conns
                 PROVE  /\ Killing(d, t)' <=> Killing(d, t)
                        /\ Attaching(d, t)' <=> Attaching(d, t)
      OBVIOUS
    <3>1. CASE d = c
      BY <1>13, <1>14, <3>1
    <3>2. CASE d # c
      BY <1>8, <3>2 DEF Killing, Attaching
    <3>3. QED
      BY <3>1, <3>2
  <2>2. \A d \in Conns : /\ Killing(d, t) => conns'[d].notify = conns[d].notify
                         /\ Attaching(d, t) => conns'[d].todo = conns[d].todo
    BY <1>8, <1>13, <1>14
  <2>3. \A d \in Conns : view'[d][t] = view[d][t]
    BY <1>9, <1>14 DEF Sent
  <2>4. QED
    BY <1>11, <2>1, <2>2, <2>3 DEF Same
<1>15. ASSUME NEW d \in Conns PROVE AttachInv(d, s)' /\ KillInv(d, s)' /\ ViewInv(d, s)'
  <2>1. AttachInv(d, s) /\ ViewInv(d, s) /\ view[d][s] \in View
    BY <1>1, <1>3 DEF Links, PtyTypes
  <2>2. ~Attaching(d, s)' /\ ~Killing(d, s)'
    <3>1. CASE d = c
      BY <1>13, <3>1
    <3>2. CASE d # c
      <4>1. ~Attaching(d, s) /\ ~Killing(d, s)
        BY <1>6, <2>1, <3>2 DEF AttachInv
      <4>2. QED
        BY <1>8, <3>2, <4>1 DEF Attaching, Killing
    <3>3. QED
      BY <3>1, <3>2
  <2>3. SUFFICES ViewInv(d, s)'
    BY <2>2 DEF AttachInv, KillInv
  <2>4. CASE d \in ConnsOf(Survivors(subs))
    <3>1. view'[d][s] = Noted(view[d][s], m)
      BY <1>9, <2>4 DEF Sent
    <3>2. view'[d][s].end = "killed"
      BY <1>5, <2>1, <3>1, NotedOK
    <3>3. QED
      BY <1>6, <1>11, <3>2 DEF ViewInv
  <2>5. CASE d \in ConnsOf(subs) /\ d \notin ConnsOf(Survivors(subs))
    <3>1. view'[d][s] = [view[d][s] EXCEPT !.kept = FALSE]
      BY <1>9, <2>5 DEF Sent
    <3>2. view'[d][s].kept = FALSE
      BY <2>1, <3>1 DEF View
    <3>3. QED
      BY <1>6, <1>11, <3>2 DEF ViewInv
  <2>6. CASE d \notin ConnsOf(subs)
    <3>1. view'[d][s] = view[d][s]
      BY <1>9, <2>6 DEF Sent
    <3>2. ~\E e \in Conns : Killing(e, s) /\ d \in ConnsOf(conns[e].notify)
      BY <1>6, <2>6 DEF subs
    <3>3. QED
      BY <1>6, <1>11, <2>1, <3>1, <3>2 DEF ViewInv
  <2>7. QED
    BY <2>4, <2>5, <2>6
<1>16. Links(s)'
  BY <1>15 DEF Links
<1>17. QED
  BY <1>10, <1>12, <1>14, <1>16, OthersKept

-----------------------------------------------------------------------------
(* A subscription is under the client id of its connection, so that the    *)
(* subscriptions of a connection to a session are one.                     *)
OwnIds ==
    \A s \in Sessions : \A b \in sessions[s].subscribers :
        b.client_id = conns[b.conn].client_id

(* What a client that gave up a subscription may expect: nothing.          *)
LEMMA ReleaseOK ==
    ASSUME PtyTypes, NEW s \in Sessions, NEW n
    PROVE  /\ Release(n, s) \in [Conns -> [Sessions -> View]]
           /\ \A d \in Conns, t \in Sessions : t # s => Release(n, s)[d][t] = view[d][t]
           /\ \A d \in Conns :
                 IF \E b \in sessions[s].subscribers : b.conn = d /\ b.client_id = n
                 THEN Release(n, s)[d][s] = NoView ELSE Release(n, s)[d][s] = view[d][s]
<1>1. NoView \in View
  BY DEF NoView, View
<1> DEFINE G(d) == \E b \in sessions[s].subscribers : b.conn = d /\ b.client_id = n
<1>2. Release(n, s) = [d \in Conns |-> IF G(d) THEN [view[d] EXCEPT ![s] = NoView] ELSE view[d]]
  BY DEF Release
<1> HIDE DEF G
<1>3. ASSUME NEW d \in Conns
      PROVE  /\ Release(n, s)[d] \in [Sessions -> View]
             /\ \A t \in Sessions : t # s => Release(n, s)[d][t] = view[d][t]
             /\ G(d) => Release(n, s)[d][s] = NoView
             /\ ~G(d) => Release(n, s)[d][s] = view[d][s]
  <2>1. view[d] \in [Sessions -> View]
    BY DEF PtyTypes
  <2>2. CASE G(d)
    BY <1>1, <1>2, <2>1, <2>2
  <2>3. CASE ~G(d)
    BY <1>2, <2>1, <2>3
  <2>4. QED
    BY <2>2, <2>3
<1>4. Release(n, s) \in [Conns -> [Sessions -> View]]
  BY <1>2, <1>3
<1>5. QED
  BY <1>3, <1>4 DEF G

(* A connection loses its subscription to a session together with what it  *)
(* may expect of it.                                                       *)
LEMMA DropView ==
    ASSUME Inv, OwnIds, NEW s \in Sessions, NEW n, NEW d \in Conns,
           sessions[s].phase = "open", mutex = Nobody, sessions'[s].phase = "open",
           d \in ConnsOf(sessions'[s].subscribers)
              <=> d \in ConnsOf(sessions[s].subscribers \ Of(n, sessions[s].subscribers)),
           view'[d][s] = Release(n, s)[d][s], pty'[s].written = pty[s].written
    PROVE  ViewInv(d, s)'
<1> DEFINE subs == sessions[s].subscribers
<1>1. PtyTypes /\ ViewInv(d, s) /\ ~Attaching(d, s)
  BY FreeMutex DEF Inv, Links
<1>2. view[d][s].end = "none"
  BY <1>1 DEF ViewInv
<1>3. CASE \E b \in subs : b.conn = d /\ b.client_id = n
  <2>1. PICK b \in subs : b.conn = d /\ b.client_id = n
    BY <1>3
  <2>2. \A e \in subs : e.conn = d => e.client_id = n
    BY <2>1 DEF OwnIds
  <2>3. d \notin ConnsOf(subs \ Of(n, subs))
    BY <2>2 DEF ConnsOf, Of
  <2>4. view'[d][s] = NoView
    BY <1>1, <1>3, ReleaseOK
  <2>5. QED
    BY <2>3, <2>4 DEF ViewInv, NoView
<1>4. CASE ~\E b \in subs : b.conn = d /\ b.client_id = n
  <2>1. d \in ConnsOf(subs \ Of(n, subs)) <=> d \in ConnsOf(subs)
    BY <1>4 DEF ConnsOf, Of
  <2>2. view'[d][s] = view[d][s]
    BY <1>1, <1>4, ReleaseOK
  <2> HIDE DEF subs
  <2>3. d \in ConnsOf(sessions'[s].subscribers) <=> d \in ConnsOf(sessions[s].subscribers)
    BY <2>1 DEF subs
  <2>4. QED
    BY <1>1, <1>2, <2>2, <2>3 DEF ViewInv
<1>5. QED
  BY <1>3, <1>4

(* Detach gives up the client's subscription to one session.               *)
LEMMA DetachOK ==
    ASSUME Inv, OwnIds, NEW c \in Conns, NEW s \in Sessions, Detach(c, s)
    PROVE  Inv'
<1> DEFINE n == conns[c].client_id
           subs == sessions[s].subscribers
           x == [sessions[s] EXCEPT !.subscribers = subs \ Of(n, subs)]
<1>1. PtyTypes /\ RingInv(s) /\ Links(s)
  BY DEF Inv
<1>2. /\ sessions[s].phase = "open" /\ mutex = Nobody /\ mutex' = mutex
      /\ conns[c].pc \in Calm /\ view' = Release(n, s) /\ pty' = pty
  BY DEF Detach, Request, Reads, Calm
<1>3. conns' \in [Conns -> Conn] /\ SameThreads
  BY <1>1, <1>2, HandledThreads DEF Detach
<1>4. sessions[s] \in Session /\ subs \in SUBSET Subscriber
  BY <1>1 DEF PtyTypes, Session
<1>5. /\ x \in Session /\ x.phase = "open" /\ x.ring = sessions[s].ring
      /\ x.subscribers = subs \ Of(n, subs)
  BY <1>2, <1>4 DEF Session
<1>6. sessions' = [sessions EXCEPT ![s] = x]
  BY DEF Detach
<1> HIDE DEF x
<1>7. /\ sessions' \in [Sessions -> Session] /\ sessions'[s] = x
      /\ \A t \in Sessions \ {s} : sessions'[t] = sessions[t]
  BY <1>1, <1>5, <1>6 DEF PtyTypes
<1> HIDE DEF n
<1>8. /\ view' \in [Conns -> [Sessions -> View]]
      /\ \A d \in Conns, t \in Sessions : t # s => view'[d][t] = view[d][t]
  BY <1>1, <1>2, ReleaseOK
<1>9. requests' \in Nat
  BY <1>1 DEF Detach, Request, PtyTypes
<1>10. PtyTypes'
  BY <1>1, <1>3, <1>7, <1>8, <1>9 DEF Detach, PtyTypes
<1>11. Apart(s)
  BY <1>2, <1>7, <1>8 DEF Apart
<1>12. RingInv(s)'
  BY <1>1, <1>2, <1>5, <1>7 DEF RingInv
<1>13. ASSUME NEW d \in Conns PROVE AttachInv(d, s)' /\ KillInv(d, s)' /\ ViewInv(d, s)'
  <2>1. ~Attaching(d, s)' /\ ~Killing(d, s)'
    BY <1>2, <1>3, FreeMutex, Undisturbed DEF SameThreads
  <2>2. view'[d][s] = Release(n, s)[d][s] /\ pty'[s].written = pty[s].written
    BY <1>2
  <2>3. d \in ConnsOf(sessions'[s].subscribers)
           <=> d \in ConnsOf(sessions[s].subscribers \ Of(n, sessions[s].subscribers))
    BY <1>5, <1>7
  <2>4. ViewInv(d, s)'
    BY <1>2, <1>5, <1>7, <2>2, <2>3, DropView
  <2>5. QED
    BY <2>1, <2>4 DEF AttachInv, KillInv
<1>14. Links(s)'
  BY <1>13 DEF Links
<1>15. QED
  BY <1>2, <1>3, <1>10, <1>11, <1>12, <1>14, OneSession

(* A connection that leaves gives up its client's subscriptions to all of  *)
(* the sessions.                                                           *)
LEMMA RemoveClientOK ==
    ASSUME Inv, OwnIds, NEW c \in Conns, Remove_client(c)
    PROVE  Inv'
<1> DEFINE n == conns[c].client_id
           Left(s) == [sessions[s] EXCEPT !.subscribers = @ \ Of(n, @)]
           k == [conns[c] EXCEPT !.pc = "closed"]
<1>1. PtyTypes
  BY DEF Inv
<1>2. conns[c] \in Conn /\ conns[c].pc \in Calm /\ mutex = Nobody /\ mutex' = mutex /\ pty' = pty
  BY <1>1 DEF PtyTypes, Remove_client, Calm
<1>3. k \in Conn /\ k.pc \in Calm /\ conns' = [conns EXCEPT ![c] = k]
  BY <1>2 DEF Conn, Calm, Remove_client
<1> HIDE DEF k
<1>4. conns' \in [Conns -> Conn] /\ SameThreads
  BY <1>1, <1>2, <1>3, CalmThreads
<1>5. sessions' = [s \in Sessions |-> Left(s)]
  BY DEF Remove_client
<1>6. view' = [d \in Conns |-> [s \in Sessions |-> Release(n, s)[d][s]]]
  BY DEF Remove_client
<1> HIDE DEF n
<1>7. \A s \in Sessions :
         /\ Left(s) \in Session /\ Left(s).phase = sessions[s].phase
         /\ Left(s).ring = sessions[s].ring
         /\ Left(s).subscribers = sessions[s].subscribers \ Of(n, sessions[s].subscribers)
  <2> SUFFICES ASSUME NEW s \in Sessions
               PROVE  /\ Left(s) \in Session /\ Left(s).phase = sessions[s].phase
                      /\ Left(s).ring = sessions[s].ring
                      /\ Left(s).subscribers
                            = sessions[s].subscribers \ Of(n, sessions[s].subscribers)
    OBVIOUS
  <2>1. sessions[s] \in Session
    BY <1>1 DEF PtyTypes
  <2>2. sessions[s].subscribers \ Of(n, sessions[s].subscribers) \in SUBSET Subscriber
    BY <2>1 DEF Session
  <2>3. QED
    BY <2>1, <2>2 DEF Session
<1> HIDE DEF Left
<1>8. /\ sessions' \in [Sessions -> Session]
      /\ \A s \in Sessions : sessions'[s] = Left(s)
  BY <1>5, <1>7
<1>9. /\ view' \in [Conns -> [Sessions -> View]]
      /\ \A d \in Conns, s \in Sessions : view'[d][s] = Release(n, s)[d][s]
  <2>1. \A d \in Conns, s \in Sessions : Release(n, s)[d][s] \in View
    BY <1>1, ReleaseOK
  <2>2. QED
    BY <1>6, <2>1
<1>10. PtyTypes'
  BY <1>1, <1>4, <1>8, <1>9 DEF Remove_client, PtyTypes
<1>11. \A s \in Sessions : RingInv(s)'
  <2> SUFFICES ASSUME NEW s \in Sessions PROVE RingInv(s)'
    OBVIOUS
  <2>1. RingInv(s)
    BY DEF Inv
  <2>2. QED
    BY <1>2, <1>7, <1>8, <2>1 DEF RingInv
<1>12. ASSUME NEW s \in Sessions PROVE Links(s)'
  <2>1. RingInv(s) /\ Links(s)
    BY DEF Inv
  <2>2. CASE sessions[s].phase # "open"
    <3>1. sessions[s].subscribers = {}
      BY <2>1, <2>2 DEF RingInv
    <3>2. \A d \in Conns : view'[d][s] = view[d][s]
      <4>1. \A d \in Conns : ~\E b \in sessions[s].subscribers : b.conn = d /\ b.client_id = n
        BY <3>1
      <4>2. \A d \in Conns : Release(n, s)[d][s] = view[d][s]
        BY <1>1, <4>1, ReleaseOK
      <4>3. QED
        BY <1>9, <4>2
    <3>3. sessions'[s].phase = sessions[s].phase
          /\ sessions'[s].subscribers = sessions[s].subscribers
      BY <1>7, <1>8, <3>1
    <3>4. Same(s)
      BY <1>2, <1>4, <3>2, <3>3 DEF Same, SameThreads
    <3>5. QED
      BY <1>1, <2>1, <3>4, SameLinks
  <2>3. CASE sessions[s].phase = "open"
    <3>1. ASSUME NEW d \in Conns PROVE AttachInv(d, s)' /\ KillInv(d, s)' /\ ViewInv(d, s)'
      <4>1. ~Attaching(d, s)' /\ ~Killing(d, s)'
        BY <1>2, <1>4, <2>3, FreeMutex, Undisturbed DEF SameThreads
      <4>2. view'[d][s] = Release(n, s)[d][s] /\ pty'[s].written = pty[s].written
        BY <1>2, <1>9
      <4>3. sessions'[s].phase = "open"
        BY <1>7, <1>8, <2>3
      <4>4. d \in ConnsOf(sessions'[s].subscribers)
               <=> d \in ConnsOf(sessions[s].subscribers \ Of(n, sessions[s].subscribers))
        BY <1>7, <1>8
      <4>5. ViewInv(d, s)'
        BY <1>2, <2>3, <4>2, <4>3, <4>4, DropView
      <4>6. QED
        BY <4>1, <4>5 DEF AttachInv, KillInv
    <3>2. QED
      BY <3>1 DEF Links
  <2>4. QED
    BY <2>2, <2>3
<1>13. QED
  BY <1>10, <1>11, <1>12 DEF Inv

(* Attach subscribes, under the mutex, and has the replay up to now to     *)
(* queue.                                                                  *)
LEMMA AttachOK ==
    ASSUME Inv, OwnIds, NEW c \in Conns, NEW s \in Sessions, NEW from_seq \in Nat,
           Attach(c, s, from_seq)
    PROVE  Inv'
<1> DEFINE n == conns[c].client_id
           subs == sessions[s].subscribers
           ring == sessions[s].ring
           todo == << Event("session", s) >>
                      \o [i \in DOMAIN Chunks_from(ring, from_seq) |->
                             Output(s, Chunks_from(ring, from_seq)[i])]
           start == ReplayStart(ring, from_seq)
           mine == [client_id |-> n, conn |-> c]
           x == [sessions[s] EXCEPT !.subscribers = (subs \ Of(n, subs)) \cup {mine}]
           k == [conns[c] EXCEPT !.pc = "attaching", !.session = s, !.todo = todo]
           v == [NoView EXCEPT !.on = TRUE, !.next = start]
<1>1. PtyTypes /\ RingInv(s) /\ Links(s)
  BY DEF Inv
<1>2. /\ sessions[s].phase = "open" /\ mutex = Nobody /\ mutex' = c /\ pty' = pty
      /\ conns[c].pc = "ready"
  BY DEF Attach, Request, Reads
<1>3. sessions[s] \in Session /\ conns[c] \in Conn
  BY <1>1 DEF PtyTypes
<1>4. subs \in SUBSET Subscriber /\ ring \in Ring /\ n \in Conns \cup {Pane}
  BY <1>3 DEF Session, Conn
<1>5. Exact(ring.data, ring.start_seq) /\ End_seq(ring) = pty[s].written
  BY <1>1, <1>2 DEF RingInv
<1>6. sessions' = [sessions EXCEPT ![s] = x]
  BY DEF Attach
<1>7. conns' = [conns EXCEPT ![c] = k]
  BY DEF Attach
<1>8. view' = [Release(n, s) EXCEPT ![c] = [Release(n, s)[c] EXCEPT ![s] = v]]
  BY DEF Attach
<1>9. mine \in Subscriber
  BY <1>4 DEF Subscriber
<1>10. /\ x \in Session /\ x.phase = "open" /\ x.ring = ring
       /\ x.subscribers = (subs \ Of(n, subs)) \cup {mine}
  BY <1>2, <1>3, <1>4, <1>9 DEF Session
<1>11. start \in Nat
  BY <1>4, ReplayStartOK
<1>12. Joins(todo, s, start, pty[s].written)
  BY <1>4, <1>5, AttachJoins
<1> HIDE DEF todo, start
<1>13. todo \in Seq(Message)
  <2>1. todo \in Seq(ExactMessage)
    BY <1>12 DEF Joins
  <2>2. ExactMessage \subseteq Message
    BY DEF ExactMessage
  <2>3. QED
    BY <2>1, <2>2
<1>14. k \in Conn /\ k.pc = "attaching" /\ k.session = s /\ k.todo = todo
  BY <1>3, <1>13 DEF Conn
<1>15. v \in View /\ v.end = "none" /\ v.next = start /\ v.on
  BY <1>11 DEF View, NoView
<1> HIDE DEF x, k, v
<1>16. /\ sessions' \in [Sessions -> Session] /\ sessions'[s] = x
       /\ \A t \in Sessions \ {s} : sessions'[t] = sessions[t]
  BY <1>1, <1>6, <1>10 DEF PtyTypes
<1>17. /\ conns' \in [Conns -> Conn] /\ conns'[c] = k
       /\ \A d \in Conns \ {c} : conns'[d] = conns[d]
  BY <1>1, <1>7, <1>14 DEF PtyTypes
<1> HIDE DEF n
<1>18. /\ view' \in [Conns -> [Sessions -> View]] /\ view'[c][s] = v
       /\ \A d \in Conns, t \in Sessions : t # s => view'[d][t] = view[d][t]
       /\ \A d \in Conns : d # c => view'[d][s] = Release(n, s)[d][s]
  <2>1. /\ Release(n, s) \in [Conns -> [Sessions -> View]]
        /\ \A d \in Conns, t \in Sessions : t # s => Release(n, s)[d][t] = view[d][t]
    BY <1>1, ReleaseOK
  <2>2. [Release(n, s)[c] EXCEPT ![s] = v] \in [Sessions -> View]
    BY <1>15, <2>1
  <2>3. QED
    BY <1>8, <2>1, <2>2
<1>19. requests' \in Nat
  BY <1>1 DEF Attach, Request, PtyTypes
<1>20. PtyTypes'
  BY <1>1, <1>2, <1>16, <1>17, <1>18, <1>19 DEF Attach, PtyTypes
<1>21. RingInv(s)'
  BY <1>1, <1>2, <1>10, <1>16 DEF RingInv
<1>22. \A d \in Conns, t \in Sessions :
          /\ Attaching(d, t)' => d = c /\ t = s
          /\ Killing(d, t)' <=> Killing(d, t)
          /\ Killing(d, t) => conns'[d].notify = conns[d].notify
  <2> SUFFICES ASSUME NEW d \in Conns, NEW t \in Sessions
               PROVE  /\ Attaching(d, t)' => d = c /\ t = s
                      /\ Killing(d, t)' <=> Killing(d, t)
                      /\ Killing(d, t) => conns'[d].notify = conns[d].notify
    OBVIOUS
  <2>1. ~Attaching(d, t)
    BY <1>2, FreeMutex
  <2>2. CASE d = c
    BY <1>2, <1>14, <1>17, <2>1, <2>2 DEF Attaching, Killing
  <2>3. CASE d # c
    BY <1>17, <2>1, <2>3 DEF Attaching, Killing
  <2>4. QED
    BY <2>2, <2>3
<1>23. ASSUME NEW t \in Sessions, t # s
       PROVE  Same(t) /\ sessions'[t].ring = sessions[t].ring
  <2>1. \A d \in Conns : ~Attaching(d, t) /\ ~Attaching(d, t)'
    BY <1>2, <1>22, <1>23, FreeMutex
  <2>2. QED
    BY <1>2, <1>16, <1>18, <1>22, <1>23, <2>1 DEF Same
<1>24. ASSUME NEW d \in Conns PROVE AttachInv(d, s)' /\ KillInv(d, s)' /\ ViewInv(d, s)'
  <2>1. ~Killing(d, s)'
    BY <1>2, <1>22, Undisturbed
  <2>2. SUFFICES AttachInv(d, s)' /\ ViewInv(d, s)'
    BY <2>1 DEF KillInv
  <2>3. CASE d = c
    <3>1. Attaching(c, s)'
      BY <1>14, <1>17 DEF Attaching
    <3>2. c \in ConnsOf(sessions'[s].subscribers)
      BY <1>10, <1>16 DEF ConnsOf
    <3>3. AttachInv(c, s)'
      BY <1>2, <1>10, <1>11, <1>12, <1>14, <1>15, <1>16, <1>17, <1>18 DEF AttachInv
    <3>4. ViewInv(c, s)'
      BY <1>10, <1>15, <1>16, <1>18, <3>1, <3>2 DEF ViewInv
    <3>5. QED
      BY <2>3, <3>3, <3>4
  <2>4. CASE d # c
    <3>1. ~Attaching(d, s)'
      BY <1>2, <1>22, <2>4, FreeMutex
    <3>2. view'[d][s] = Release(n, s)[d][s] /\ pty'[s].written = pty[s].written
      BY <1>2, <1>18, <2>4
    <3>3. sessions'[s].phase = "open"
      BY <1>10, <1>16
    <3>4. d \in ConnsOf(sessions'[s].subscribers) <=> d \in ConnsOf(subs \ Of(n, subs))
      BY <1>10, <1>16, <2>4 DEF ConnsOf
    <3>5. ViewInv(d, s)'
      BY <1>2, <3>2, <3>3, <3>4, DropView
    <3>6. QED
      BY <3>1, <3>5 DEF AttachInv
  <2>5. QED
    BY <2>3, <2>4
<1>25. Links(s)'
  BY <1>24 DEF Links
<1>26. QED
  BY <1>20, <1>21, <1>23, <1>25, OthersKept

(* Once the first of the messages is queued, the rest joins on.            *)
LEMMA JoinsTail ==
    ASSUME NEW q, NEW s, NEW a, NEW b, Joins(q, s, a, b), q # << >>
    PROVE  /\ Head(q) \in ExactMessage /\ Head(q).kind \in {"session", "output"}
           /\ Head(q).session = s
           /\ Head(q).kind = "output" => Head(q).seq = a
           /\ \E e \in Nat :
                 /\ Joins(Tail(q), s, e, b)
                 /\ IF Head(q).kind = "output" THEN e = Head(q).seq + Len(Head(q).bytes)
                                               ELSE e = a
<1> DEFINE r == Tail(q)
           l == Len(q)
<1>1. /\ q \in Seq(ExactMessage)
      /\ \A i \in 1 .. Len(q) : q[i].kind \in {"session", "output"} /\ q[i].session = s
  BY DEF Joins
<1>2. PICK f \in [1 .. Len(q) + 1 -> Nat] :
          /\ f[1] = a /\ f[Len(q) + 1] = b
          /\ \A i \in 1 .. Len(q) :
                IF q[i].kind = "output"
                THEN f[i] = q[i].seq /\ f[i + 1] = q[i].seq + Len(q[i].bytes)
                ELSE f[i + 1] = f[i]
  BY DEF Joins
<1>3. l \in Nat /\ l >= 1
  BY <1>1
<1>4. /\ r \in Seq(ExactMessage) /\ Len(r) = l - 1
      /\ \A i \in 1 .. l - 1 : r[i] = q[i + 1]
  BY <1>1, <1>3
<1>5. Head(q) = q[1] /\ q[1] \in ExactMessage
  BY <1>1, <1>3
<1> HIDE DEF r
<1>6. 1 \in 1 .. l /\ l \in Nat \ {0} /\ 2 \in 1 .. l + 1 /\ 1 + 1 = 2
  BY <1>3
<1>7. f \in [1 .. l + 1 -> Nat] /\ f[l + 1] = b /\ f[1] = a
  BY <1>2
<1>8. /\ q[1].kind = "output" => f[1] = q[1].seq /\ f[2] = q[1].seq + Len(q[1].bytes)
      /\ q[1].kind # "output" => f[2] = f[1]
  BY <1>2, <1>6
<1>9. f[2] \in Nat
  BY <1>6, <1>7
<1> DEFINE g == [i \in 1 .. Len(r) + 1 |-> f[i + 1]]
<1>10. Len(r) + 1 = l /\ Len(r) \in Nat
  BY <1>3, <1>4
<1>11. /\ g \in [1 .. Len(r) + 1 -> Nat] /\ g[1] = f[2] /\ g[Len(r) + 1] = b
  <2>1. \A i \in 1 .. l : i + 1 \in 1 .. l + 1
    BY <1>3
  <2>2. \A i \in 1 .. l : f[i + 1] \in Nat
    BY <1>7, <2>1
  <2>3. g = [i \in 1 .. l |-> f[i + 1]]
    BY <1>10
  <2>4. g \in [1 .. l -> Nat] /\ g[1] = f[2] /\ g[l] = f[l + 1]
    BY <1>3, <1>6, <2>2, <2>3
  <2>5. QED
    BY <1>7, <1>10, <2>4
<1>12. ASSUME NEW i \in 1 .. Len(r)
       PROVE  /\ r[i].kind \in {"session", "output"} /\ r[i].session = s
              /\ IF r[i].kind = "output"
                 THEN g[i] = r[i].seq /\ g[i + 1] = r[i].seq + Len(r[i].bytes)
                 ELSE g[i + 1] = g[i]
  <2>1. /\ i \in 1 .. l - 1 /\ i + 1 \in 1 .. Len(q) /\ i \in 1 .. Len(r) + 1
        /\ i + 1 \in 1 .. Len(r) + 1
    BY <1>3, <1>4
  <2>2. r[i] = q[i + 1]
    BY <1>4, <2>1
  <2>3. g[i] = f[i + 1] /\ g[i + 1] = f[(i + 1) + 1]
    BY <2>1
  <2> HIDE DEF g
  <2>4. IF q[i + 1].kind = "output"
        THEN /\ f[i + 1] = q[i + 1].seq
             /\ f[(i + 1) + 1] = q[i + 1].seq + Len(q[i + 1].bytes)
        ELSE f[(i + 1) + 1] = f[i + 1]
    BY <1>2, <2>1
  <2>5. QED
    BY <1>1, <2>1, <2>2, <2>3, <2>4
<1> HIDE DEF g
<1>13. Joins(r, s, f[2], b)
  BY <1>4, <1>11, <1>12 DEF Joins
<1>14. /\ Head(q).kind \in {"session", "output"} /\ Head(q).session = s
  BY <1>1, <1>5, <1>6
<1>15. QED
  BY <1>5, <1>7, <1>8, <1>9, <1>13, <1>14 DEF r

(* With nothing left to queue, the present is reached.                     *)
LEMMA JoinsEnd ==
    ASSUME NEW s, NEW a, NEW b, Joins(<< >>, s, a, b)
    PROVE  a = b
BY DEF Joins

(* Attach queues a message, or finds no room and the replay does not fit.  *)
LEMMA AttachSendOK ==
    ASSUME Inv, NEW c \in Conns, AttachSend(c)
    PROVE  Inv'
<1>1. PtyTypes /\ conns[c] \in Conn
  BY DEF Inv, PtyTypes
<1>2. PICK s \in Sessions : s = conns[c].session
  BY <1>1 DEF Conn
<1> DEFINE m == Head(conns[c].todo)
           k == [conns[c] EXCEPT !.todo = Tail(@)]
           v == IF HasRoom(c) THEN Noted(view[c][s], m)
                              ELSE [view[c][s] EXCEPT !.fit = FALSE]
<1>3. Attaching(c, s) /\ RingInv(s) /\ Links(s) /\ conns[c].todo # << >>
  BY <1>2 DEF AttachSend, Attaching, Inv
<1>4. /\ mutex = c /\ sessions[s].phase = "open"
      /\ \E a \in Nat : /\ Joins(conns[c].todo, s, a, pty[s].written)
                        /\ view[c][s].fit => view[c][s].next = a
  BY <1>3 DEF Links, AttachInv
<1>5. PICK a \in Nat : /\ Joins(conns[c].todo, s, a, pty[s].written)
                       /\ view[c][s].fit => view[c][s].next = a
  BY <1>4
<1>6. /\ m \in ExactMessage /\ m.kind \in {"session", "output"}
      /\ \E e \in Nat : /\ Joins(Tail(conns[c].todo), s, e, pty[s].written)
                        /\ IF m.kind = "output" THEN e = m.seq + Len(m.bytes) ELSE e = a
  BY <1>3, <1>5, JoinsTail
<1>7. PICK e \in Nat : /\ Joins(Tail(conns[c].todo), s, e, pty[s].written)
                       /\ IF m.kind = "output" THEN e = m.seq + Len(m.bytes) ELSE e = a
  BY <1>6
<1>8. view[c] \in [Sessions -> View] /\ view[c][s] \in View /\ ViewInv(c, s)
  BY <1>1, <1>3 DEF PtyTypes, Links
<1>9. view' = [view EXCEPT ![c] = [view[c] EXCEPT ![s] = v]]
  BY <1>2 DEF AttachSend
<1>10. conns' = [conns EXCEPT ![c] = k]
  BY DEF AttachSend
<1>11. k \in Conn /\ k.pc = "attaching" /\ k.session = s /\ k.todo = Tail(conns[c].todo)
  <2>1. conns[c].todo \in Seq(Message) /\ conns[c].pc = "attaching"
    BY <1>1, <1>3 DEF Conn, Attaching
  <2>2. Tail(conns[c].todo) \in Seq(Message)
    BY <1>3, <2>1
  <2>3. QED
    BY <1>1, <1>2, <2>1, <2>2 DEF Conn
<1>12. m \in Message
  BY <1>6 DEF ExactMessage
<1> HIDE DEF m
<1>13. /\ v \in View /\ v.on = view[c][s].on /\ v.kept = view[c][s].kept
       /\ v.end = view[c][s].end
       /\ v.fit => v.next = e
  <2>1. CASE HasRoom(c)
    <3>1. v = Noted(view[c][s], m)
      BY <2>1
    <3> HIDE DEF v
    <3>2. /\ v \in View /\ v.on = view[c][s].on /\ v.kept = view[c][s].kept
          /\ v.fit = view[c][s].fit /\ v.end = view[c][s].end
          /\ m.kind = "output" => v.next = m.seq + Len(m.bytes)
          /\ m.kind # "output" => v.next = view[c][s].next
      <4>1. m.kind \notin {"exit", "killed"}
        BY <1>6
      <4>2. QED
        BY <1>8, <1>12, <3>1, <4>1, NotedOK
    <3>3. QED
      BY <1>5, <1>7, <3>2
  <2>2. CASE ~HasRoom(c)
    <3>1. v = [view[c][s] EXCEPT !.fit = FALSE]
      BY <2>2
    <3>2. QED
      BY <1>8, <3>1 DEF View
  <2>3. QED
    BY <2>1, <2>2
<1> HIDE DEF v, k
<1>14. /\ conns' \in [Conns -> Conn] /\ conns'[c] = k
       /\ \A d \in Conns \ {c} : conns'[d] = conns[d]
  BY <1>1, <1>10, <1>11 DEF PtyTypes
<1>15. /\ view' \in [Conns -> [Sessions -> View]] /\ view'[c][s] = v
       /\ \A t \in Sessions : t # s => view'[c][t] = view[c][t]
       /\ \A d \in Conns : d # c => view'[d] = view[d]
  <2>1. [view[c] EXCEPT ![s] = v] \in [Sessions -> View]
    BY <1>8, <1>13
  <2>2. QED
    BY <1>1, <1>8, <1>9, <2>1 DEF PtyTypes
<1>16. queues' \in [Conns -> Seq(ExactMessage)] /\ \A d \in Conns : Len(queues'[d]) <= Queue
  <2>1. queues[c] \in Seq(ExactMessage) /\ Len(queues[c]) <= Queue
    BY <1>1 DEF PtyTypes
  <2>2. CASE HasRoom(c)
    <3>1. queues' = [queues EXCEPT ![c] = Append(@, m)]
      BY <2>2 DEF AttachSend, m
    <3>2. Append(queues[c], m) \in Seq(ExactMessage)
      BY <1>6, <2>1
    <3>3. Len(Append(queues[c], m)) <= Queue
      BY <1>6, <2>1, <2>2, Constants DEF HasRoom
    <3>4. QED
      BY <1>1, <3>1, <3>2, <3>3 DEF PtyTypes
  <2>3. CASE ~HasRoom(c)
    <3>1. queues' = [queues EXCEPT ![c] = queues[c]]
      BY <2>3 DEF AttachSend
    <3>2. QED
      BY <1>1, <3>1 DEF PtyTypes
  <2>4. QED
    BY <2>2, <2>3
<1>17. sessions' = sessions /\ pty' = pty /\ mutex' = mutex
  BY DEF AttachSend
<1>18. PtyTypes'
  BY <1>1, <1>14, <1>15, <1>16 DEF AttachSend, PtyTypes
<1>19. RingInv(s)'
  BY <1>3, <1>17 DEF RingInv
<1>20. \A d \in Conns, t \in Sessions :
          /\ Attaching(d, t)' <=> Attaching(d, t)
          /\ Killing(d, t)' <=> Killing(d, t)
          /\ Killing(d, t) => conns'[d].notify = conns[d].notify
          /\ Attaching(d, t) => d = c /\ t = s
  <2> SUFFICES ASSUME NEW d \in Conns, NEW t \in Sessions
               PROVE  /\ Attaching(d, t)' <=> Attaching(d, t)
                      /\ Killing(d, t)' <=> Killing(d, t)
                      /\ Killing(d, t) => conns'[d].notify = conns[d].notify
                      /\ Attaching(d, t) => d = c /\ t = s
    OBVIOUS
  <2>1. Attaching(d, t) => mutex = d
    BY DEF Inv, Links, AttachInv
  <2>2. CASE d = c
    BY <1>3, <1>11, <1>14, <2>2 DEF Attaching, Killing
  <2>3. CASE d # c
    BY <1>4, <1>14, <2>1, <2>3 DEF Attaching, Killing
  <2>4. QED
    BY <2>2, <2>3
<1>21. ASSUME NEW t \in Sessions, t # s
       PROVE  Same(t) /\ sessions'[t].ring = sessions[t].ring
  BY <1>15, <1>17, <1>20, <1>21 DEF Same
<1>22. ASSUME NEW d \in Conns PROVE AttachInv(d, s)' /\ KillInv(d, s)' /\ ViewInv(d, s)'
  <2>1. ~Killing(d, s)'
    BY <1>4, <1>20, Undisturbed
  <2>2. SUFFICES AttachInv(d, s)' /\ ViewInv(d, s)'
    BY <2>1 DEF KillInv
  <2>3. CASE d = c
    <3>1. Attaching(c, s)'
      BY <1>3, <1>20
    <3>2. AttachInv(c, s)'
      BY <1>4, <1>7, <1>11, <1>13, <1>14, <1>15, <1>17 DEF AttachInv
    <3>3. ViewInv(c, s)'
      BY <1>4, <1>8, <1>13, <1>15, <1>17, <3>1 DEF ViewInv
    <3>4. QED
      BY <2>3, <3>2, <3>3
  <2>4. CASE d # c
    <3>1. ~Attaching(d, s) /\ ~Attaching(d, s)'
      BY <1>20, <2>4
    <3>2. ViewInv(d, s) /\ view'[d][s] = view[d][s]
      BY <1>3, <1>15, <2>4 DEF Links
    <3>3. ViewInv(d, s)'
      BY <1>4, <1>17, <3>1, <3>2 DEF ViewInv
    <3>4. QED
      BY <3>1, <3>3 DEF AttachInv
  <2>5. QED
    BY <2>3, <2>4
<1>23. Links(s)'
  BY <1>22 DEF Links
<1>24. QED
  BY <1>18, <1>19, <1>21, <1>23, OthersKept

(* Attach ends: what the client was sent reaches the present.              *)
LEMMA AttachEndOK ==
    ASSUME Inv, NEW c \in Conns, AttachEnd(c)
    PROVE  Inv'
<1>1. PtyTypes /\ conns[c] \in Conn
  BY DEF Inv, PtyTypes
<1>2. PICK s \in Sessions : s = conns[c].session
  BY <1>1 DEF Conn
<1>3. Attaching(c, s) /\ RingInv(s) /\ Links(s) /\ conns[c].todo = << >>
  BY <1>2 DEF AttachEnd, Attaching, Inv
<1>4. /\ mutex = c /\ sessions[s].phase = "open"
      /\ view[c][s].fit => view[c][s].next = pty[s].written
  <2>1. /\ mutex = c /\ sessions[s].phase = "open"
        /\ \E a \in Nat : /\ Joins(conns[c].todo, s, a, pty[s].written)
                          /\ view[c][s].fit => view[c][s].next = a
    BY <1>3 DEF Links, AttachInv
  <2>2. QED
    BY <1>3, <2>1, JoinsEnd
<1>5. PICK k \in Conn : k.pc = "responding" /\ conns' = [conns EXCEPT ![c] = k]
  BY <1>1, HandledOK DEF AttachEnd
<1>6. /\ conns' \in [Conns -> Conn] /\ conns'[c] = k
      /\ \A d \in Conns \ {c} : conns'[d] = conns[d]
  BY <1>1, <1>5 DEF PtyTypes
<1>7. sessions' = sessions /\ pty' = pty /\ view' = view /\ mutex' = Nobody
  BY DEF AttachEnd
<1>8. PtyTypes'
  BY <1>1, <1>6, <1>7 DEF AttachEnd, PtyTypes
<1>9. RingInv(s)'
  BY <1>3, <1>7 DEF RingInv
<1>10. \A d \in Conns, t \in Sessions :
          /\ ~Attaching(d, t)'
          /\ Killing(d, t)' <=> Killing(d, t)
          /\ Killing(d, t) => conns'[d].notify = conns[d].notify
  <2> SUFFICES ASSUME NEW d \in Conns, NEW t \in Sessions
               PROVE  /\ ~Attaching(d, t)'
                      /\ Killing(d, t)' <=> Killing(d, t)
                      /\ Killing(d, t) => conns'[d].notify = conns[d].notify
    OBVIOUS
  <2>1. Attaching(d, t) => mutex = d
    BY DEF Inv, Links, AttachInv
  <2>2. CASE d = c
    BY <1>3, <1>5, <1>6, <2>2 DEF Attaching, Killing
  <2>3. CASE d # c
    BY <1>4, <1>6, <2>1, <2>3 DEF Attaching, Killing
  <2>4. QED
    BY <2>2, <2>3
<1>11. ASSUME NEW t \in Sessions, t # s
       PROVE  Same(t) /\ sessions'[t].ring = sessions[t].ring
  <2>1. \A d \in Conns : ~Attaching(d, t) /\ ~Attaching(d, t)'
    <3>1. \A d \in Conns : Attaching(d, t) => mutex = d
      BY DEF Inv, Links, AttachInv
    <3>2. ~Attaching(c, t)
      BY <1>3, <1>11 DEF Attaching
    <3>3. \A d \in Conns : ~Attaching(d, t)
      BY <1>4, <3>1, <3>2
    <3>4. \A d \in Conns : ~Attaching(d, t)'
      BY <1>5, <1>6, <3>3 DEF Attaching
    <3>5. QED
      BY <3>3, <3>4
  <2>2. QED
    BY <1>7, <1>10, <2>1 DEF Same
<1>12. ASSUME NEW d \in Conns PROVE AttachInv(d, s)' /\ KillInv(d, s)' /\ ViewInv(d, s)'
  <2>1. ~Killing(d, s)'
    BY <1>4, <1>10, Undisturbed
  <2>2. ~Attaching(d, s)' /\ (d # c => ~Attaching(d, s))
    <3>1. d # c => ~Attaching(d, s)
      BY <1>4 DEF Inv, Links, AttachInv
    <3>2. QED
      BY <1>5, <1>6, <3>1 DEF Attaching
  <2>3. ViewInv(d, s)
    BY <1>3 DEF Links
  <2>4. ViewInv(d, s)'
    BY <1>4, <1>7, <2>2, <2>3 DEF ViewInv
  <2>5. QED
    BY <2>1, <2>2, <2>4 DEF AttachInv, KillInv
<1>13. Links(s)'
  BY <1>12 DEF Links
<1>14. QED
  BY <1>8, <1>9, <1>11, <1>13, OthersKept

-----------------------------------------------------------------------------
(* A step keeps the ids of the clients, and makes no subscription but one  *)
(* of a connection under its id.                                           *)
LEMMA OwnStep ==
    ASSUME PtyTypes, OwnIds,
           \A d \in Conns : conns'[d].client_id = conns[d].client_id,
           \A s \in Sessions : sessions'[s].subscribers
              \subseteq sessions[s].subscribers
                          \cup {[client_id |-> conns[d].client_id, conn |-> d] : d \in Conns}
    PROVE  OwnIds'
<1> SUFFICES ASSUME NEW s \in Sessions, NEW b \in sessions'[s].subscribers
             PROVE  b.client_id = conns'[b.conn].client_id
  BY DEF OwnIds
<1>1. CASE b \in sessions[s].subscribers
  <2>1. b \in Subscriber
    BY <1>1 DEF PtyTypes, Session
  <2>2. b.conn \in Conns
    BY <2>1 DEF Subscriber
  <2>3. QED
    BY <1>1, <2>2 DEF OwnIds
<1>2. CASE b \in {[client_id |-> conns[d].client_id, conn |-> d] : d \in Conns}
  BY <1>2
<1>3. QED
  BY <1>1, <1>2

(* A handled request leaves the connection its client id.                  *)
LEMMA HandledIds ==
    ASSUME PtyTypes, NEW c \in Conns, Handled(c)
    PROVE  \A d \in Conns : conns'[d].client_id = conns[d].client_id
BY DEF Handled, Conn0, PtyTypes

(* A step that touches no session.                                         *)
LEMMA SubscribersKept ==
    ASSUME sessions' = sessions, PtyTypes, OwnIds,
           \A d \in Conns : conns'[d].client_id = conns[d].client_id
    PROVE  OwnIds'
BY OwnStep

(* Every step keeps the subscriptions under their connections' ids.        *)
LEMMA OwnIdsKept ==
    ASSUME PtyTypes, OwnIds, Next
    PROVE  OwnIds'
<1>1. conns \in [Conns -> Conn] /\ \A d \in Conns : conns[d] \in Conn
  BY DEF PtyTypes
<1>2. \A s \in Sessions : sessions[s] \in Session
  BY DEF PtyTypes
<1>3. ASSUME NEW c \in Conns,
             \/ AttachSend(c) \/ Respond(c) \/ ReadEof(c) \/ ReadFails(c)
             \/ WriteFails(c) \/ Write(c)
             \/ Disconnect(c)
      PROVE  OwnIds'
  <2>1. /\ sessions' = sessions
        /\ \/ conns' = conns
           \/ \E pc \in {"ready", "leaving"} : conns' = [conns EXCEPT ![c].pc = pc]
           \/ conns' = [conns EXCEPT ![c].todo = Tail(@)]
    BY <1>3 DEF AttachSend, Respond, ReadEof, ReadFails, WriteFails, Write, Disconnect, Goto
  <2>2. \A d \in Conns : conns'[d].client_id = conns[d].client_id
    <3>1. CASE conns' = conns
      BY <3>1
    <3>2. ASSUME NEW pc, conns' = [conns EXCEPT ![c].pc = pc]
          PROVE  \A d \in Conns : conns'[d].client_id = conns[d].client_id
      BY <1>1, <3>2 DEF Conn
    <3>3. CASE conns' = [conns EXCEPT ![c].todo = Tail(@)]
      <4>1. conns' = [conns EXCEPT ![c] = [conns[c] EXCEPT !.todo = Tail(conns[c].todo)]]
        BY <3>3
      <4>2. QED
        BY <1>1, <4>1 DEF Conn
    <3>4. QED
      BY <2>1, <3>1, <3>2, <3>3
  <2>3. QED
    BY <2>1, <2>2, SubscribersKept
<1>4. ASSUME NEW c \in Conns,
             AttachEnd(c) \/ KillNotify(c) \/ Other(c)
      PROVE  OwnIds'
  <2>1. sessions' = sessions /\ Handled(c)
    BY <1>4 DEF AttachEnd, KillNotify, Other
  <2>2. QED
    BY <2>1, HandledIds, SubscribersKept
<1>5. ASSUME NEW c \in Conns, ResizeRecord(c) PROVE OwnIds'
  <2>1. \A d \in Conns : conns'[d].client_id = conns[d].client_id
    BY <1>5, HandledIds DEF ResizeRecord
  <2>2. \A s \in Sessions : sessions'[s].subscribers \subseteq sessions[s].subscribers
    <3>1. CASE sessions' = sessions
      BY <3>1
    <3>2. CASE sessions' = [sessions EXCEPT ![conns[c].session].size = conns[c].size,
                                            ![conns[c].session].subscribers = Survivors(@)]
      <4>1. \A x : Survivors(x) \subseteq x
        BY DEF Survivors
      <4>2. QED
        BY <1>2, <3>2, <4>1 DEF PtyTypes, Session
    <3>3. QED
      BY <1>5, <3>1, <3>2 DEF ResizeRecord
  <2>3. QED
    BY <2>1, <2>2, OwnStep
<1>6. ASSUME NEW c \in Conns, Remove_client(c) PROVE OwnIds'
  <2>1. \A d \in Conns : conns'[d].client_id = conns[d].client_id
    BY <1>1, <1>6 DEF Remove_client, Conn
  <2>2. \A s \in Sessions : sessions'[s].subscribers \subseteq sessions[s].subscribers
    BY <1>2, <1>6 DEF Remove_client, Session
  <2>3. QED
    BY <2>1, <2>2, OwnStep
<1>7. ASSUME NEW c \in Conns, NEW s \in Sessions, Create_session(c, s) PROVE OwnIds'
  <2>1. \A d \in Conns : conns'[d].client_id = conns[d].client_id
    BY <1>7, HandledIds DEF Create_session
  <2>2. \A t \in Sessions : sessions'[t].subscribers \subseteq sessions[t].subscribers
    BY <1>2, <1>7 DEF Create_session, PtyTypes, Session
  <2>3. QED
    BY <2>1, <2>2, OwnStep
<1>8. ASSUME NEW c \in Conns, NEW s \in Sessions, NEW from, Attach(c, s, from) PROVE OwnIds'
  <2> DEFINE n == conns[c].client_id
             subs == (sessions[s].subscribers \ Of(n, sessions[s].subscribers))
                        \cup {[client_id |-> n, conn |-> c]}
             todo == << Event("session", s) >>
                        \o [i \in DOMAIN Chunks_from(sessions[s].ring, from) |->
                               Output(s, Chunks_from(sessions[s].ring, from)[i])]
  <2>1. /\ sessions' = [sessions EXCEPT ![s].subscribers = subs]
        /\ conns' = [conns EXCEPT ![c].pc = "attaching", ![c].session = s, ![c].todo = todo]
    BY <1>8 DEF Attach
  <2> HIDE DEF todo
  <2>2. \A d \in Conns : conns'[d].client_id = conns[d].client_id
    BY <1>1, <2>1 DEF Conn
  <2>3. subs \subseteq sessions[s].subscribers
                       \cup {[client_id |-> conns[d].client_id, conn |-> d] : d \in Conns}
    OBVIOUS
  <2> HIDE DEF subs
  <2>4. \A t \in Sessions : sessions'[t].subscribers
           \subseteq sessions[t].subscribers
                       \cup {[client_id |-> conns[d].client_id, conn |-> d] : d \in Conns}
    <3>1. sessions'[s].subscribers = subs
      BY <1>2, <2>1 DEF PtyTypes, Session
    <3>2. \A t \in Sessions : t # s => sessions'[t] = sessions[t]
      BY <2>1 DEF PtyTypes
    <3>3. QED
      BY <2>3, <3>1, <3>2
  <2>5. QED
    BY <2>2, <2>4, OwnStep
<1>9. ASSUME NEW c \in Conns, NEW s \in Sessions, Detach(c, s) PROVE OwnIds'
  <2>1. \A d \in Conns : conns'[d].client_id = conns[d].client_id
    BY <1>9, HandledIds DEF Detach
  <2>2. \A t \in Sessions : sessions'[t].subscribers \subseteq sessions[t].subscribers
    BY <1>2, <1>9 DEF Detach, PtyTypes, Session
  <2>3. QED
    BY <2>1, <2>2, OwnStep
<1>10. ASSUME NEW c \in Conns, NEW s \in Sessions, NEW z \in Sizes, ResizeWindow(c, s, z)
       PROVE  OwnIds'
  <2>1. \A d \in Conns : conns'[d].client_id = conns[d].client_id
    <3>1. CASE Handled(c)
      BY <3>1, HandledIds
    <3>2. CASE conns' = [conns EXCEPT ![c].pc = "resizing", ![c].session = s, ![c].size = z]
      BY <1>1, <3>2 DEF Conn
    <3>3. QED
      BY <1>10, <3>1, <3>2 DEF ResizeWindow
  <2>2. QED
    BY <1>10, <2>1, SubscribersKept DEF ResizeWindow
<1>11. ASSUME NEW c \in Conns, NEW s \in Sessions, Kill(c, s) PROVE OwnIds'
  <2>1. \A d \in Conns : conns'[d].client_id = conns[d].client_id
    BY <1>1, <1>11 DEF Kill, Conn
  <2>2. \A t \in Sessions : sessions'[t].subscribers \subseteq sessions[t].subscribers
    BY <1>2, <1>11, RemovedOK DEF Kill, PtyTypes
  <2>3. QED
    BY <2>1, <2>2, OwnStep
<1>12. ASSUME NEW s \in Sessions, Finish_session(s) PROVE OwnIds'
  <2>1. \A t \in Sessions : sessions'[t].subscribers \subseteq sessions[t].subscribers
    BY <1>2, <1>12, RemovedOK DEF Finish_session, PtyTypes
  <2>2. QED
    BY <1>12, <2>1, OwnStep DEF Finish_session
<1>13. ASSUME NEW s \in Sessions, NEW n \in 1 .. MaxRead, Deliver_output(s, n) PROVE OwnIds'
  <2> DEFINE ring == Push(sessions[s].ring, [i \in 1 .. n |-> pty[s].written + i - 1])
  <2>1. sessions' = [sessions EXCEPT ![s].ring = ring, ![s].subscribers = Survivors(@)]
    BY <1>13 DEF Deliver_output
  <2> HIDE DEF ring
  <2>2. \A x : Survivors(x) \subseteq x
    BY DEF Survivors
  <2>3. \A t \in Sessions : sessions'[t].subscribers \subseteq sessions[t].subscribers
    BY <1>2, <2>1, <2>2 DEF PtyTypes, Session
  <2>4. QED
    BY <1>13, <2>3, OwnStep DEF Deliver_output
<1>14. ASSUME NEW c \in Conns, ConnStep(c) PROVE OwnIds'
  BY <1>3, <1>4, <1>5, <1>6, <1>14 DEF ConnStep
<1>15. ASSUME NEW c \in Conns, ClientStep(c) PROVE OwnIds'
  BY <1>3, <1>4, <1>7, <1>8, <1>9, <1>10, <1>11, <1>15 DEF ClientStep
<1>16. ASSUME NEW s \in Sessions, PtyStep(s) PROVE OwnIds'
  BY <1>12, <1>13, <1>16 DEF PtyStep
<1>17. QED
  BY <1>14, <1>15, <1>16 DEF Next

-----------------------------------------------------------------------------
(* The daemon starts in the invariant.                                     *)
LEMMA InitOK == Init => Inv /\ OwnIds
<1> SUFFICES ASSUME Init PROVE Inv /\ OwnIds
  OBVIOUS
<1> DEFINE x == [phase |-> "unborn", ring |-> NewRing, subscribers |-> {}, size |-> Size0]
<1>1. PICK id \in Client_ids : conns = [c \in Conns |-> Conn0(id[c])]
  BY DEF Init
<1>2. \A c \in Conns : id[c] \in Conns \cup {Pane}
  BY <1>1 DEF Client_ids
<1>3. \A n \in Conns \cup {Pane} : Conn0(n) \in Conn /\ Conn0(n).pc = "ready"
  <2>1. << >> \in Seq(Message)
    OBVIOUS
  <2>2. QED
    BY <2>1, Constants DEF Conn0, Conn
<1>4. conns \in [Conns -> Conn] /\ \A c \in Conns : conns[c].pc = "ready"
  BY <1>1, <1>2, <1>3
<1>5. x \in Session /\ x.phase = "unborn" /\ x.subscribers = {} /\ x.ring = NewRing
  BY Constants DEF Session, Ring, NewRing
<1>6. sessions = [s \in Sessions |-> x]
  BY DEF Init
<1> HIDE DEF x
<1>7. sessions \in [Sessions -> Session] /\ \A s \in Sessions : sessions[s] = x
  BY <1>5, <1>6
<1>8. pty \in [Sessions -> Terminal] /\ \A s \in Sessions : pty[s].written = 0
  BY Constants DEF Init, Terminal
<1>9. NoView \in View /\ NoView.end = "none" /\ ~NoView.on
  BY DEF NoView, View
<1>10. view \in [Conns -> [Sessions -> View]]
       /\ \A c \in Conns, s \in Sessions : view[c][s] = NoView
  BY <1>9 DEF Init
<1>11. queues \in [Conns -> Seq(ExactMessage)] /\ \A c \in Conns : Len(queues[c]) <= Queue
  <2>1. << >> \in Seq(ExactMessage) /\ Len(<< >>) <= Queue
    BY Constants
  <2>2. QED
    BY <2>1 DEF Init
<1>12. PtyTypes
  BY <1>4, <1>7, <1>8, <1>10, <1>11 DEF Init, PtyTypes
<1>13. ASSUME NEW s \in Sessions PROVE RingInv(s) /\ Links(s)
  <2>1. /\ NewRing.data = << >> /\ Len(NewRing.data) = 0 /\ NewRing.start_seq = 0
        /\ End_seq(NewRing) = 0
    BY DEF NewRing, End_seq
  <2>2. RingInv(s)
    BY <1>5, <1>7, <1>8, <2>1, Constants DEF RingInv, Exact
  <2>3. \A d \in Conns : ~Attaching(d, s) /\ ~Killing(d, s)
    BY <1>4 DEF Attaching, Killing
  <2>4. \A d \in Conns : ViewInv(d, s)
    BY <1>5, <1>7, <1>9, <1>10 DEF ViewInv
  <2>5. QED
    BY <2>2, <2>3, <2>4 DEF Links, AttachInv, KillInv
<1>14. OwnIds
  BY <1>5, <1>7 DEF OwnIds
<1>15. QED
  BY <1>12, <1>13, <1>14 DEF Inv

(* Every step of the daemon preserves the invariant.                       *)
LEMMA NextOK == Inv /\ OwnIds /\ [Next]_vars => (Inv /\ OwnIds)'
<1> SUFFICES ASSUME Inv, OwnIds, [Next]_vars PROVE Inv' /\ OwnIds'
  OBVIOUS
<1>1. CASE UNCHANGED vars
  <2>1. UNCHANGED << sessions, pty, conns, queues, writers, gone, mutex, requests, view >>
    BY <1>1 DEF vars
  <2>2. PtyTypes'
    BY <2>1 DEF Inv, PtyTypes
  <2>3. SameThreads
    BY <2>1, StillThreads
  <2>4. Inv'
    BY <2>1, <2>2, <2>3, QuietOK
  <2>5. OwnIds'
    BY <2>1 DEF OwnIds
  <2>6. QED
    BY <2>4, <2>5
<1>2. CASE Next
  <2>1. OwnIds'
    BY <1>2, OwnIdsKept DEF Inv
  <2>2. ASSUME NEW c \in Conns, ConnStep(c) PROVE Inv'
    BY <2>2, AttachSendOK, AttachEndOK, ResizeRecordOK, KillNotifyOK, QuietSteps,
       RemoveClientOK DEF ConnStep
  <2>3. ASSUME NEW c \in Conns, ClientStep(c) PROVE Inv'
    <3>1. 0 .. MaxOutput \subseteq Nat
      BY PtyAssumption
    <3>2. CASE Other(c) \/ Write(c) \/ ReadFails(c) \/ Disconnect(c)
      BY <3>2, QuietSteps
    <3>3. ASSUME NEW s \in Sessions, Create_session(c, s) \/ Detach(c, s) \/ Kill(c, s)
          PROVE  Inv'
      BY <3>3, CreateOK, DetachOK, KillOK
    <3>4. ASSUME NEW s \in Sessions, NEW from \in 0 .. MaxOutput, Attach(c, s, from)
          PROVE  Inv'
      BY <3>1, <3>4, AttachOK
    <3>5. ASSUME NEW s \in Sessions, NEW z \in Sizes, ResizeWindow(c, s, z) PROVE Inv'
      BY <3>5, ResizeWindowOK
    <3>6. QED
      BY <2>3, <3>2, <3>3, <3>4, <3>5 DEF ClientStep
  <2>4. ASSUME NEW s \in Sessions, PtyStep(s) PROVE Inv'
    BY <2>4, DeliverOK, FinishOK DEF PtyStep
  <2>5. Inv'
    BY <1>2, <2>2, <2>3, <2>4 DEF Next
  <2>6. QED
    BY <2>1, <2>5
<1>3. QED
  BY <1>1, <1>2

(* The inductive invariant holds of the terminal daemon.                   *)
THEOREM Invariance == Spec => [](Inv /\ OwnIds)
BY InitOK, NextOK, PTL DEF Spec

(* Every variable of the daemon keeps its type; no queue outgrows          *)
(* CLIENT_QUEUE and no ring REPLAY_CAPACITY.                               *)
THEOREM PtyTypeCorrect == Spec => []TypeOK
<1>1. Inv => TypeOK
  <2> SUFFICES ASSUME Inv PROVE TypeOK
    OBVIOUS
  <2>1. PtyTypes /\ \A s \in Sessions : RingInv(s)
    BY DEF Inv
  <2>2. queues \in [Conns -> Seq(Message)]
    <3>1. \A c \in Conns : queues[c] \in Seq(Message)
      <4> SUFFICES ASSUME NEW c \in Conns PROVE queues[c] \in Seq(Message)
        OBVIOUS
      <4>1. queues[c] \in Seq(ExactMessage)
        BY <2>1 DEF PtyTypes
      <4>2. QED
        BY <4>1 DEF ExactMessage
    <3>2. QED
      BY <2>1, <3>1 DEF PtyTypes
  <2>3. \A s \in Sessions : Len(sessions[s].ring.data) <= Capacity
    BY <2>1 DEF RingInv
  <2>4. sessions \in [Sessions -> [phase : {"unborn", "open", "removed"}, ring : Ring,
                                   subscribers : SUBSET Subscriber, size : Sizes]]
    BY <2>1 DEF PtyTypes, Session
  <2>5. view \in [Conns -> [Sessions ->
                    [on : BOOLEAN, next : Nat, fit : BOOLEAN, kept : BOOLEAN,
                     end : {"none", "exit", "killed"}]]]
    BY <2>1 DEF PtyTypes, View
  <2>6. QED
    BY <2>1, <2>2, <2>3, <2>4, <2>5 DEF TypeOK, PtyTypes, Terminal
<1>2. QED
  BY <1>1, Invariance, PTL

(* Every output event in a queue, live or replayed from a ring that has    *)
(* wrapped, carries the bytes the terminal wrote at its offset.            *)
THEOREM OutputIsExact == Spec => []ByteExact
<1>1. Inv => ByteExact
  <2> SUFFICES ASSUME Inv, NEW c \in Conns, NEW i \in 1 .. Len(queues[c]),
                      queues[c][i].kind = "output"
               PROVE  queues[c][i].bytes = [k \in 1 .. Len(queues[c][i].bytes) |->
                                               queues[c][i].seq + k - 1]
    BY DEF ByteExact
  <2> DEFINE m == queues[c][i]
  <2>1. m \in ExactMessage
    BY DEF Inv, PtyTypes
  <2> HIDE DEF m
  <2>2. m.kind = "output"
    BY DEF m
  <2>3. m.bytes \in Seq(Nat) /\ Exact(m.bytes, m.seq)
    BY <2>1, <2>2 DEF ExactMessage, Message
  <2>4. \A k \in 1 .. Len(m.bytes) : m.bytes[k] = m.seq + k - 1
    BY <2>3 DEF Exact
  <2>5. m.bytes = [k \in 1 .. Len(m.bytes) |-> m.bytes[k]]
    BY <2>3
  <2>6. m.bytes = [k \in 1 .. Len(m.bytes) |-> m.seq + k - 1]
    BY <2>4, <2>5
  <2>7. QED
    BY <2>6 DEF m
<1>2. QED
  BY <1>1, Invariance, PTL

(* A client that attached, kept up and did not detach is subscribed and    *)
(* has all output of an open session; of one that is over it has been, or  *)
(* is being, told, and of an exit after all of the output.                 *)
THEOREM NothingIsWithheld == Spec => []NothingWithheld
<1>1. Inv => NothingWithheld
  <2> SUFFICES ASSUME Inv, NEW c \in Conns, NEW s \in Sessions,
                      view[c][s].on, view[c][s].fit, view[c][s].kept, mutex # c
               PROVE  IF sessions[s].phase = "open"
                      THEN /\ c \in ConnsOf(sessions[s].subscribers)
                           /\ view[c][s].next = pty[s].written
                      ELSE \/ \E d \in Conns : c \in ConnsOf(conns[d].notify)
                           \/ view[c][s].end = "killed"
                           \/ view[c][s].end = "exit" /\ view[c][s].next = pty[s].written
    BY DEF NothingWithheld
  <2>1. AttachInv(c, s) /\ ViewInv(c, s) /\ sessions[s] \in Session
    BY DEF Inv, Links, PtyTypes
  <2>2. ~Attaching(c, s)
    BY <2>1 DEF AttachInv
  <2>3. CASE sessions[s].phase = "open"
    BY <2>1, <2>2, <2>3 DEF ViewInv
  <2>4. CASE sessions[s].phase # "open"
    <3>1. sessions[s].phase = "removed"
      BY <2>1, <2>4 DEF ViewInv, Session
    <3>2. QED
      BY <2>1, <3>1 DEF ViewInv
  <2>5. QED
    BY <2>3, <2>4
<1>2. QED
  BY <1>1, Invariance, PTL

-----------------------------------------------------------------------------
(* What a step may queue for a connection: an answer, or a message about a *)
(* session whose end it has not heard of, which if it is output starts     *)
(* where the connection is.                                                *)
Due(c, m) ==
    \/ m.kind = "response"
    \/ /\ m.session \in Sessions /\ view[c][m.session].end = "none"
       /\ m.kind = "output" /\ view[c][m.session].fit => m.seq = view[c][m.session].next

Queued(c) ==
    \/ queues'[c] \in Seq(ExactMessage) /\ Len(queues'[c]) <= Len(queues[c])
    \/ \E m \in ExactMessage : queues'[c] = Append(queues[c], m) /\ Due(c, m)

(* Such a message to all subscribers.                                      *)
LEMMA SentQueued ==
    ASSUME PtyTypes, NEW subs \in SUBSET Subscriber, NEW s \in Sessions,
           NEW m \in ExactMessage, TrySend(subs, s, m),
           \A c \in ConnsOf(subs) : Due(c, m)
    PROVE  \A c \in Conns : Queued(c)
<1> SUFFICES ASSUME NEW c \in Conns PROVE Queued(c)
  OBVIOUS
<1>1. Sent(subs, s, m)
  BY TrySendOK
<1>2. CASE c \in ConnsOf(Survivors(subs))
  <2>1. queues'[c] = Append(queues[c], m) /\ c \in ConnsOf(subs)
    BY <1>1, <1>2 DEF Sent
  <2>2. QED
    BY <2>1 DEF Queued
<1>3. CASE c \notin ConnsOf(Survivors(subs))
  <2>1. queues'[c] = queues[c]
    BY <1>1, <1>3 DEF Sent
  <2>2. queues[c] \in Seq(ExactMessage) /\ Len(queues[c]) \in Nat
    BY DEF PtyTypes
  <2>3. QED
    BY <2>1, <2>2 DEF Queued
<1>4. QED
  BY <1>2, <1>3

(* An event about an open session, or about its end.                       *)
LEMMA OpenDue ==
    ASSUME Inv, NEW s \in Sessions, sessions[s].phase = "open", NEW kind,
           kind \in {"session", "exit", "killed"}, NEW c \in Conns
    PROVE  Due(c, Event(kind, s))
<1>1. view[c][s].end = "none"
  BY DEF Inv, Links, ViewInv
<1>2. QED
  BY <1>1 DEF Due, Event

(* Events about a session carry no bytes.                                  *)
LEMMA EventOK ==
    ASSUME NEW s \in Sessions, NEW kind \in {"session", "exit", "killed"}
    PROVE  Event(kind, s) \in ExactMessage
BY DEF Event, ExactMessage, Message

(* Every step queues only what is due.                                     *)
LEMMA QueuedOK ==
    ASSUME Inv, [Next]_vars
    PROVE  \A c \in Conns : Queued(c)
<1>1. PtyTypes
  BY DEF Inv
<1>2. \A c \in Conns : queues[c] \in Seq(ExactMessage) /\ Len(queues[c]) \in Nat
  BY <1>1 DEF PtyTypes
<1>3. ASSUME queues' = queues PROVE \A c \in Conns : Queued(c)
  BY <1>2, <1>3 DEF Queued
<1>4. ASSUME NEW d \in Conns, NEW q \in Seq(ExactMessage), Len(q) <= Len(queues[d]),
             queues' = [queues EXCEPT ![d] = q]
      PROVE  \A c \in Conns : Queued(c)
  <2> SUFFICES ASSUME NEW c \in Conns PROVE Queued(c)
    OBVIOUS
  <2>1. CASE c = d
    <3>1. queues'[c] = q
      BY <1>1, <1>4, <2>1 DEF PtyTypes
    <3>2. QED
      BY <1>4, <2>1, <3>1 DEF Queued
  <2>2. CASE c # d
    <3>1. queues'[c] = queues[c]
      BY <1>1, <1>4, <2>2 DEF PtyTypes
    <3>2. QED
      BY <1>2, <3>1 DEF Queued
  <2>3. QED
    BY <2>1, <2>2
<1>5. ASSUME NEW d \in Conns, ConnStep(d) PROVE \A c \in Conns : Queued(c)
  <2>1. CASE AttachEnd(d) \/ ReadEof(d) \/ ReadFails(d) \/ Remove_client(d)
    BY <1>3, <2>1 DEF AttachEnd, ReadEof, ReadFails, Remove_client
  <2>2. CASE Respond(d)
    <3>1. CASE queues' = queues
      BY <1>3, <3>1
    <3>2. CASE queues' = [queues EXCEPT ![d] = Append(@, Response)]
      <4>1. Response \in ExactMessage /\ Due(d, Response)
        BY DEF Response, ExactMessage, Message, Due
      <4>2. queues'[d] = Append(queues[d], Response)
            /\ \A c \in Conns : c # d => queues'[c] = queues[c]
        BY <1>1, <3>2 DEF PtyTypes
      <4>3. QED
        BY <1>2, <4>1, <4>2 DEF Queued
    <3>3. QED
      BY <2>2, <3>1, <3>2 DEF Respond
  <2>3. CASE WriteFails(d)
    <3>1. << >> \in Seq(ExactMessage) /\ Len(<< >>) <= Len(queues[d])
      BY <1>2
    <3>2. QED
      BY <1>4, <2>3, <3>1 DEF WriteFails
  <2>4. CASE AttachSend(d)
    <3> DEFINE m == Head(conns[d].todo)
    <3>1. conns[d] \in Conn
      BY <1>1 DEF PtyTypes
    <3>2. PICK s \in Sessions : s = conns[d].session
      BY <3>1 DEF Conn
    <3>3. Attaching(d, s) /\ AttachInv(d, s) /\ ViewInv(d, s) /\ conns[d].todo # << >>
      BY <2>4, <3>2 DEF AttachSend, Attaching, Inv, Links
    <3>4. /\ sessions[s].phase = "open"
          /\ \E a \in Nat : /\ Joins(conns[d].todo, s, a, pty[s].written)
                            /\ view[d][s].fit => view[d][s].next = a
      BY <3>3 DEF AttachInv
    <3>5. PICK a \in Nat : /\ Joins(conns[d].todo, s, a, pty[s].written)
                           /\ view[d][s].fit => view[d][s].next = a
      BY <3>4
    <3>6. /\ m \in ExactMessage /\ m.session = s
          /\ m.kind = "output" => m.seq = a
      BY <3>3, <3>5, JoinsTail
    <3>7. view[d][s].end = "none"
      BY <3>3, <3>4 DEF ViewInv
    <3>8. Due(d, m)
      BY <3>5, <3>6, <3>7 DEF Due
    <3>9. queues' = [queues EXCEPT ![d] = IF HasRoom(d) THEN Append(queues[d], m) ELSE queues[d]]
      BY <2>4 DEF AttachSend
    <3> HIDE DEF m
    <3>10. /\ queues'[d] = Append(queues[d], m) \/ queues'[d] = queues[d]
           /\ \A c \in Conns : c # d => queues'[c] = queues[c]
      BY <1>1, <3>9 DEF PtyTypes
    <3>11. QED
      BY <1>2, <3>6, <3>8, <3>10 DEF Queued
  <2>5. CASE ResizeRecord(d)
    <3>1. conns[d] \in Conn
      BY <1>1 DEF PtyTypes
    <3>2. PICK s \in Sessions : s = conns[d].session
      BY <3>1 DEF Conn
    <3>3. CASE queues' = queues
      BY <1>3, <3>3
    <3>4. CASE /\ sessions[s].phase = "open"
               /\ TrySend(sessions[s].subscribers, s, Event("session", s))
      <4>1. sessions[s].subscribers \in SUBSET Subscriber
        BY <1>1 DEF PtyTypes, Session
      <4>2. ConnsOf(sessions[s].subscribers) \subseteq Conns
        BY <4>1 DEF ConnsOf, Subscriber
      <4>3. \A c \in ConnsOf(sessions[s].subscribers) : Due(c, Event("session", s))
        BY <3>4, <4>2, OpenDue
      <4>4. QED
        BY <1>1, <3>4, <4>1, <4>3, EventOK, SentQueued
    <3>5. QED
      BY <2>5, <3>2, <3>3, <3>4 DEF ResizeRecord
  <2>6. CASE KillNotify(d)
    <3>1. conns[d] \in Conn
      BY <1>1 DEF PtyTypes
    <3>2. PICK s \in Sessions : s = conns[d].session
      BY <3>1 DEF Conn
    <3>3. conns[d].notify \in SUBSET Subscriber
      BY <3>1 DEF Conn
    <3>4. Killing(d, s) /\ TrySend(conns[d].notify, s, Event("killed", s)) /\ KillInv(d, s)
      BY <2>6, <3>2 DEF KillNotify, Killing, Inv, Links
    <3>5. \A c \in ConnsOf(conns[d].notify) : view[c][s].end = "none"
      BY <3>4 DEF KillInv
    <3>6. \A c \in ConnsOf(conns[d].notify) : Due(c, Event("killed", s))
      BY <3>5 DEF Due, Event
    <3>7. QED
      BY <1>1, <3>3, <3>4, <3>6, EventOK, SentQueued
  <2>7. QED
    BY <1>5, <2>1, <2>2, <2>3, <2>4, <2>5, <2>6 DEF ConnStep
<1>6. ASSUME NEW d \in Conns, ClientStep(d) PROVE \A c \in Conns : Queued(c)
  <2>1. CASE Write(d)
    <3>1. Tail(queues[d]) \in Seq(ExactMessage) /\ Len(Tail(queues[d])) <= Len(queues[d])
      BY <1>2, <2>1 DEF Write
    <3>2. QED
      BY <1>4, <2>1, <3>1 DEF Write
  <2>2. CASE ~Write(d)
    <3>1. queues' = queues
      BY <1>6, <2>2 DEF ClientStep, Other, Create_session, Attach, Detach, ResizeWindow,
         Kill, ReadFails, Disconnect
    <3>2. QED
      BY <1>3, <3>1
  <2>3. QED
    BY <2>1, <2>2
<1>7. ASSUME NEW s \in Sessions, PtyStep(s) PROVE \A c \in Conns : Queued(c)
  <2>1. sessions[s].subscribers \in SUBSET Subscriber /\ sessions[s].phase = "open"
        /\ mutex = Nobody
    BY <1>1, <1>7 DEF PtyTypes, Session, PtyStep, Deliver_output, Finish_session
  <2>2. ConnsOf(sessions[s].subscribers) \subseteq Conns
    BY <2>1 DEF ConnsOf, Subscriber
  <2>3. CASE Finish_session(s)
    <3>1. \A c \in ConnsOf(sessions[s].subscribers) : Due(c, Event("exit", s))
      BY <2>1, <2>2, OpenDue
    <3>2. TrySend(sessions[s].subscribers, s, Event("exit", s))
      BY <2>3 DEF Finish_session
    <3>3. QED
      BY <1>1, <2>1, <3>1, <3>2, EventOK, SentQueued
  <2>4. ASSUME NEW n \in 1 .. MaxRead, Deliver_output(s, n) PROVE \A c \in Conns : Queued(c)
    <3> DEFINE bytes == [i \in 1 .. n |-> pty[s].written + i - 1]
               m == Output(s, [seq |-> End_seq(sessions[s].ring), bytes |-> bytes])
    <3>1. TrySend(sessions[s].subscribers, s, m)
      BY <2>4 DEF Deliver_output
    <3>2. End_seq(sessions[s].ring) = pty[s].written
      BY <2>1 DEF Inv, RingInv
    <3>3. n \in Nat /\ pty[s].written \in Nat
      BY <1>1, PtyAssumption DEF PtyTypes, Terminal
    <3>4. bytes \in Seq(Nat) /\ Len(bytes) = n /\ Exact(bytes, pty[s].written)
      <4>1. \A i \in 1 .. n : pty[s].written + i - 1 \in Nat
        BY <3>3
      <4>2. bytes \in Seq(Nat) /\ Len(bytes) = n
        BY <3>3, <4>1
      <4>3. \A k \in 1 .. n : bytes[k] = pty[s].written + k - 1
        OBVIOUS
      <4> HIDE DEF bytes
      <4>4. QED
        BY <4>2, <4>3 DEF Exact
    <3> HIDE DEF bytes
    <3>5. /\ m \in ExactMessage /\ m.kind = "output" /\ m.session = s
          /\ m.seq = pty[s].written
      BY <3>2, <3>3, <3>4 DEF Output, ExactMessage, Message
    <3> HIDE DEF m
    <3>6. ASSUME NEW c \in ConnsOf(sessions[s].subscribers) PROVE Due(c, m)
      <4>1. c \in Conns
        BY <2>2
      <4>2. ViewInv(c, s) /\ ~Attaching(c, s)
        BY <2>1, <4>1, FreeMutex DEF Inv, Links
      <4>3. view[c][s].end = "none" /\ (view[c][s].fit => view[c][s].next = pty[s].written)
        BY <2>1, <4>2 DEF ViewInv
      <4>4. QED
        BY <3>5, <4>3 DEF Due
    <3>7. QED
      BY <1>1, <2>1, <3>1, <3>5, <3>6, SentQueued
  <2>5. QED
    BY <1>7, <2>3, <2>4 DEF PtyStep
<1>8. CASE UNCHANGED vars
  BY <1>3, <1>8 DEF vars
<1>9. QED
  BY <1>5, <1>6, <1>7, <1>8 DEF Next

(* The message a queue grew by is due.                                     *)
LEMMA LastIsDue ==
    ASSUME PtyTypes, NEW c \in Conns, Queued(c), Len(queues'[c]) > Len(queues[c])
    PROVE  Due(c, queues'[c][Len(queues'[c])])
<1>1. queues[c] \in Seq(ExactMessage) /\ Len(queues[c]) \in Nat
  BY DEF PtyTypes
<1>2. PICK m \in ExactMessage : queues'[c] = Append(queues[c], m) /\ Due(c, m)
  <2>1. ~(queues'[c] \in Seq(ExactMessage) /\ Len(queues'[c]) <= Len(queues[c]))
    BY <1>1
  <2>2. QED
    BY <2>1 DEF Queued
<1>3. queues'[c][Len(queues'[c])] = m
  BY <1>1, <1>2
<1>4. QED
  BY <1>2, <1>3

(* After an attach whose replay found room, the output a client is sent    *)
(* has no hole and no overlap, through any interleaving of the terminal,   *)
(* other clients and the queue's writer.                                   *)
THEOREM OutputIsGapless == Spec => Gapless
<1>1. ASSUME Inv, [Next]_vars, NEW c \in Conns, Len(queues'[c]) > Len(queues[c])
      PROVE  LET m == queues'[c][Len(queues'[c])] IN
             m.kind = "output" /\ view[c][m.session].fit
                 => m.seq = view[c][m.session].next
  <2>1. Due(c, queues'[c][Len(queues'[c])])
    BY <1>1, QueuedOK, LastIsDue DEF Inv
  <2>2. QED
    BY <2>1 DEF Due
<1>2. Inv /\ [Next]_vars =>
        [\A c \in Conns : Len(queues'[c]) > Len(queues[c]) =>
            LET m == queues'[c][Len(queues'[c])] IN
            m.kind = "output" /\ view[c][m.session].fit
                => m.seq = view[c][m.session].next]_vars
  BY <1>1
<1>3. QED
  BY <1>2, Invariance, PTL DEF Spec, Gapless

(* A connection hears of the end of a session once, and of nothing of the  *)
(* session after it, although kill notifies without the mutex.             *)
THEOREM EndComesLast == Spec => EndIsLast
<1>1. ASSUME Inv, [Next]_vars, NEW c \in Conns, Len(queues'[c]) > Len(queues[c])
      PROVE  LET m == queues'[c][Len(queues'[c])] IN
             m.kind # "response" => view[c][m.session].end = "none"
  <2>1. Due(c, queues'[c][Len(queues'[c])])
    BY <1>1, QueuedOK, LastIsDue DEF Inv
  <2>2. QED
    BY <2>1 DEF Due
<1>2. Inv /\ [Next]_vars =>
        [\A c \in Conns : Len(queues'[c]) > Len(queues[c]) =>
            LET m == queues'[c][Len(queues'[c])] IN
            m.kind # "response" => view[c][m.session].end = "none"]_vars
  BY <1>1
<1>3. QED
  BY <1>2, Invariance, PTL DEF Spec, EndIsLast
=============================================================================
