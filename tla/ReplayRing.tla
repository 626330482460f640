----------------------------- MODULE ReplayRing -----------------------------
(***************************************************************************)
(* The bounded output history of a terminal session                        *)
(* (crates/goble-pty/src/session.rs): the newest bytes, and the offset of  *)
(* the oldest of them in everything the session ever wrote.                *)
(***************************************************************************)
EXTENDS Integers, Sequences

CONSTANTS Capacity,         \* REPLAY_CAPACITY
          Chunk             \* OUTPUT_CHUNK

ASSUME RingAssumption == Capacity \in Nat \ {0} /\ Chunk \in Nat \ {0}

Ring == [data : Seq(Nat), start_seq : Nat]

NewRing == [data |-> << >>, start_seq |-> 0]

End_seq(ring) == ring.start_seq + Len(ring.data)

(* The last n elements of a sequence.                                      *)
Newest(s, n) == IF Len(s) > n THEN SubSeq(s, Len(s) - n + 1, Len(s)) ELSE s

PushKeepsStart(ring, bytes) ==
    [data |-> Newest(ring.data \o bytes, Capacity), start_seq |-> ring.start_seq]
(* Bytes dropped from the front advance the offset by the same amount.     *)
Push(ring, bytes) ==
    LET kept == Newest(ring.data \o bytes, Capacity) IN
    [data |-> kept, start_seq |-> End_seq(ring) + Len(bytes) - Len(kept)]

(* Where a replay from from_seq starts: within what is retained.           *)
ReplayStart(ring, from_seq) ==
    LET low == IF from_seq > ring.start_seq THEN from_seq ELSE ring.start_seq
    IN  IF low < End_seq(ring) THEN low ELSE End_seq(ring)

(* The retained bytes from from_seq on, cut into events of Chunk bytes.    *)
Chunks_from(ring, from_seq) ==
    LET start == ReplayStart(ring, from_seq)
        bytes == SubSeq(ring.data, start - ring.start_seq + 1, Len(ring.data))
    IN  [i \in 1 .. (Len(bytes) + Chunk - 1) \div Chunk |->
            LET from == (i - 1) * Chunk
                to   == IF from + Chunk < Len(bytes) THEN from + Chunk
                                                     ELSE Len(bytes)
            IN  [seq |-> start + from, bytes |-> SubSeq(bytes, from + 1, to)]]
=============================================================================
