--------------------------- MODULE PtyServerProps ---------------------------
(***************************************************************************)
(* What the terminal daemon promises its clients.                          *)
(***************************************************************************)
EXTENDS PtyServer

-----------------------------------------------------------------------------
(* "`seq` is the byte offset of the first byte in an `output` event"       *)
(* (protocol.rs:8): live or replayed from a ring that has wrapped, every   *)
(* output event carries the bytes the terminal wrote at that offset.       *)
ByteExact ==
    \A c \in Conns : \A i \in 1 .. Len(queues[c]) :
        LET m == queues[c][i] IN
        m.kind = "output"
            => m.bytes = [k \in 1 .. Len(m.bytes) |-> m.seq + k - 1]

(* After an attach whose replay found room, the output a client is sent    *)
(* starts where it asked and has no hole and no overlap: a client that is  *)
(* too slow is dropped and never skips (server.rs:556-560).                *)
Gapless ==
    [][\A c \in Conns : Len(queues'[c]) > Len(queues[c]) =>
          LET m == queues'[c][Len(queues'[c])] IN
          m.kind = "output" /\ view[c][m.session].fit
              => m.seq = view[c][m.session].next]_vars

(* A connection hears of the end of a session once, and of nothing of the  *)
(* session after it, although kill notifies without the mutex.             *)
EndIsLast ==
    [][\A c \in Conns : Len(queues'[c]) > Len(queues[c]) =>
          LET m == queues'[c][Len(queues'[c])] IN
          m.kind # "response" => view[c][m.session].end = "none"]_vars

(* A client that attached, kept up, and did not detach (under its id, on   *)
(* any connection) is still subscribed and has been sent all output of the *)
(* session, or, if the session is over, has been told so, after all of the *)
(* output if the child exited by itself (server.rs:542-545, 563-583).      *)
NothingWithheld ==
    \A c \in Conns, s \in Sessions :
        LET v == view[c][s] IN
        v.on /\ v.fit /\ v.kept /\ mutex # c =>
            IF sessions[s].phase = "open"
            THEN c \in ConnsOf(sessions[s].subscribers) /\ v.next = pty[s].written
            ELSE \/ \E d \in Conns : c \in ConnsOf(conns[d].notify)
                 \/ v.end = "killed"
                 \/ v.end = "exit" /\ v.next = pty[s].written

-----------------------------------------------------------------------------
(* "A slow or departed client must never block the pty" (server.rs:556):   *)
(* whoever holds the mutex releases it, even if no client ever reads.      *)
MutexIsReleased == \A c \in Conns : mutex = c ~> mutex # c

(* A client that leaves, also while its queue is full and an answer waits  *)
(* for room, is forgotten: its thread ends and no session keeps sending.   *)
DepartedIsForgotten ==
    \A c \in Conns :
        c \in gone ~> /\ conns[c].pc = "closed"
                      /\ \A s \in Sessions :
                            \A b \in sessions[s].subscribers : b.conn # c
=============================================================================
