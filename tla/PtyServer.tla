----------------------------- MODULE PtyServer -----------------------------
(***************************************************************************)
(* The terminal daemon (crates/goble-pty/src/server.rs).  Every connection *)
(* has a thread that reads requests and a thread that writes a bounded     *)
(* queue of messages to the socket; every session has a thread that reads  *)
(* the pty, keeps the output in a ring and queues it for the subscribers.  *)
(* One mutex guards the sessions.                                          *)
(*                                                                         *)
(* One action is one critical section of that mutex, except that attach,   *)
(* which puts several messages into one queue while it holds the mutex,    *)
(* is as many steps, because the queue's writer runs in between.  The n-th *)
(* byte a session writes is the number n, so that a byte in the wrong      *)
(* place is seen.                                                          *)
(***************************************************************************)
EXTENDS ReplayRing, FiniteSets

CONSTANTS Sessions,         \* session ids
          Conns,            \* connections
          Pane,             \* a client id that connections may share
          Nobody,           \* nobody holds the mutex
          Sizes,            \* terminal sizes
          Leavers,          \* the connections whose client may leave
          Queue,            \* CLIENT_QUEUE
          MaxOutput,        \* bound: bytes a session writes
          MaxRead,          \* bound: bytes of one read of the pty
          MaxRequests       \* bound: requests of all connections

ASSUME PtyAssumption ==
    /\ Queue \in Nat \ {0} /\ MaxOutput \in Nat /\ MaxRead \in Nat
    /\ MaxRequests \in Nat
    /\ Nobody \notin Conns /\ Leavers \subseteq Conns
    /\ Pane \notin Conns /\ Sizes # {} /\ Sessions # {}

VARIABLES
    sessions,               \* Inner.sessions
    pty,                    \* the terminals: bytes written and size
    conns,                  \* the threads that read requests
    queues,                 \* the queues between a connection's threads
    writers,                \* the writing threads that live
    gone,                   \* the clients that closed their socket
    mutex,                  \* the attach call that holds the mutex
    requests,               \* requests besides create
    view                    \* history: what a client was sent of a session

vars == << sessions, pty, conns, queues, writers, gone, mutex, requests, view >>

-----------------------------------------------------------------------------
Message ==
    [kind : {"response"}]
    \cup [kind : {"session", "exit", "killed"}, session : Sessions]
    \cup [kind : {"output"}, session : Sessions, seq : Nat, bytes : Seq(Nat)]

Response == [kind |-> "response"]
Event(kind, s) == [kind |-> kind, session |-> s]
Output(s, c) == [kind |-> "output", session |-> s, seq |-> c.seq, bytes |-> c.bytes]

Subscriber == [client_id : Conns \cup {Pane}, conn : Conns]

Conn == [pc : {"ready", "attaching", "resizing", "killing", "responding",
               "leaving", "closed"},
         client_id : Conns \cup {Pane}, session : Sessions, size : Sizes,
         todo : Seq(Message), notify : SUBSET Subscriber]

TypeOK ==
    /\ sessions \in [Sessions -> [phase : {"unborn", "open", "removed"}, ring : Ring,
                                  subscribers : SUBSET Subscriber, size : Sizes]]
    /\ pty \in [Sessions -> [written : Nat, size : Sizes]]
    /\ conns \in [Conns -> Conn]
    /\ queues \in [Conns -> Seq(Message)]
    /\ writers \subseteq Conns
    /\ gone \subseteq Conns
    /\ mutex \in Conns \cup {Nobody}
    /\ requests \in Nat
    /\ view \in [Conns -> [Sessions ->
                    [on : BOOLEAN, next : Nat, fit : BOOLEAN, kept : BOOLEAN,
                     end : {"none", "exit", "killed"}]]]
    /\ \A c \in Conns : Len(queues[c]) <= Queue
    /\ \A s \in Sessions : Len(sessions[s].ring.data) <= Capacity

(* What a client that is not attached may expect.  Once attached (on), it  *)
(* expects the byte at offset next; fit says that there was room for the   *)
(* replay, kept that there was room for every event since.                 *)
NoView == [on |-> FALSE, next |-> 0, fit |-> TRUE, kept |-> TRUE, end |-> "none"]

(* The size of a new terminal.                                             *)
Size0 == CHOOSE z \in Sizes : TRUE

Conn0(n) == [pc |-> "ready", client_id |-> n, session |-> CHOOSE s \in Sessions : TRUE,
             size |-> Size0, todo |-> << >>, notify |-> {}]

(* A client says hello first, if at all, and a connection that does not    *)
(* has an id of its own.  The two connections of a pane share theirs.      *)
(* (The server takes a new name at any time; no client in the repository   *)
(* changes its name, and what it subscribed to before would stay behind.)  *)
Client_ids == {[c \in Conns |-> c], [c \in Conns |-> Pane]}

Init ==
    /\ sessions = [s \in Sessions |-> [phase |-> "unborn", ring |-> NewRing,
                                       subscribers |-> {}, size |-> Size0]]
    /\ pty = [s \in Sessions |-> [written |-> 0, size |-> Size0]]
    /\ \E id \in Client_ids : conns = [c \in Conns |-> Conn0(id[c])]
    /\ queues = [c \in Conns |-> << >>]
    /\ writers = Conns
    /\ gone = {}
    /\ mutex = Nobody
    /\ requests = 0
    /\ view = [c \in Conns |-> [s \in Sessions |-> NoView]]

-----------------------------------------------------------------------------
(* The queues.                                                             *)

HasRoomLate(c) == c \in writers /\ Len(queues[c]) <= Queue
HasRoom(c) == c \in writers /\ Len(queues[c]) < Queue

(* What a client was sent of a session after it was sent m.                *)
Noted(v, m) ==
    [v EXCEPT !.next = IF m.kind = "output" THEN m.seq + Len(m.bytes) ELSE @,
              !.end  = IF m.kind \in {"exit", "killed"} THEN m.kind ELSE @]

(* try_send of m to each of the subscribers of session s.                  *)
Refusing(subs) == {b \in subs : ~HasRoom(b.conn)}

ConnsOf(subs) == {b.conn : b \in subs}

TrySend(subs, s, m) ==
    /\ queues' = [c \in Conns |-> IF c \in ConnsOf(subs \ Refusing(subs))
                                 THEN Append(queues[c], m) ELSE queues[c]]
    /\ view' = [c \in Conns |->
                   IF c \in ConnsOf(subs \ Refusing(subs))
                   THEN [view[c] EXCEPT ![s] = Noted(@, m)]
                   ELSE IF c \in ConnsOf(subs)
                   THEN [view[c] EXCEPT ![s].kept = FALSE]
                   ELSE view[c]]

SurvivorsAll(subs) == subs
(* The subscriptions retained after try_send.                              *)
Survivors(subs) == subs \ Refusing(subs)

-----------------------------------------------------------------------------
(* The thread of a session.  Once the session is removed it finds nothing  *)
(* to change, whatever the terminal still writes.                          *)

Deliver_output(s, n) ==
    LET first == pty[s].written
        bytes == [i \in 1 .. n |-> first + i - 1]
        event == Output(s, [seq |-> End_seq(sessions[s].ring), bytes |-> bytes])
    IN  /\ sessions[s].phase = "open"
        /\ mutex = Nobody
        /\ first + n <= MaxOutput
        /\ pty' = [pty EXCEPT ![s].written = first + n]
        /\ TrySend(sessions[s].subscribers, s, event)
        /\ sessions' = [sessions EXCEPT ![s].ring = Push(@, bytes),
                                        ![s].subscribers = Survivors(@)]
        /\ UNCHANGED << conns, writers, gone, mutex, requests >>

(* What is left of a session that is removed from the map.                 *)
Removed(session) == [session EXCEPT !.phase = "removed", !.ring = NewRing,
                                    !.subscribers = {}]

FinishStays(s) ==
    /\ sessions[s].phase = "open"
    /\ mutex = Nobody
    /\ TrySend(sessions[s].subscribers, s, Event("exit", s))
    /\ sessions' = [sessions EXCEPT ![s].subscribers = Survivors(@)]
    /\ UNCHANGED << pty, conns, writers, gone, mutex, requests >>
(* EOF, the child's status, and finish_session.                            *)
Finish_session(s) ==
    /\ sessions[s].phase = "open"
    /\ mutex = Nobody
    /\ TrySend(sessions[s].subscribers, s, Event("exit", s))
    /\ sessions' = [sessions EXCEPT ![s] = Removed(@)]
    /\ UNCHANGED << pty, conns, writers, gone, mutex, requests >>

-----------------------------------------------------------------------------
(* The thread of a connection: a request is handled, then answered.        *)

(* The thread has read a request of its client and takes the mutex.        *)
Reads(c) ==
    /\ conns[c].pc = "ready"
    /\ c \notin gone
    /\ mutex = Nobody

Request(c) ==
    /\ Reads(c)
    /\ requests < MaxRequests
    /\ requests' = requests + 1

Goto(c, pc) == conns' = [conns EXCEPT ![c].pc = pc]

(* The request is handled, and will be answered.                           *)
Handled(c) ==
    conns' = [conns EXCEPT ![c] = [Conn0(conns[c].client_id) EXCEPT
                                      !.pc = "responding"]]

(* list, input, signal, and every request that fails: they change nothing  *)
(* here, and are answered.                                                 *)
Other(c) ==
    /\ Request(c)
    /\ Handled(c)
    /\ UNCHANGED << sessions, pty, queues, writers, gone, mutex, view >>

Create_session(c, s) ==
    /\ Reads(c)
    /\ sessions[s].phase = "unborn"
    /\ sessions' = [sessions EXCEPT ![s].phase = "open"]
    /\ Handled(c)
    /\ UNCHANGED << pty, queues, writers, gone, mutex, requests, view >>

OfAll(n, subs) == subs
(* The subscriptions of a client: attach, detach and remove_client go by   *)
(* its id, whatever connection they were made on.                          *)
Of(n, subs) == {b \in subs : b.client_id = n}

(* The clients that no longer expect anything of session s.                *)
Release(n, s) ==
    [c \in Conns |-> IF \E b \in sessions[s].subscribers : b.conn = c /\ b.client_id = n
                     THEN [view[c] EXCEPT ![s] = NoView] ELSE view[c]]

(* attach: subscribe, then queue the session's state and the replay ...    *)
Attach(c, s, from_seq) ==
    LET n == conns[c].client_id IN
    /\ Request(c)
    /\ sessions[s].phase = "open"
    /\ sessions' = [sessions EXCEPT ![s].subscribers =
                       (@ \ Of(n, @)) \cup {[client_id |-> n, conn |-> c]}]
    /\ conns' = [conns EXCEPT
                    ![c].pc = "attaching", ![c].session = s,
                    ![c].todo = << Event("session", s) >>
                        \o [i \in DOMAIN Chunks_from(sessions[s].ring, from_seq) |->
                               Output(s, Chunks_from(sessions[s].ring, from_seq)[i])]]
    /\ mutex' = c
    /\ view' = [Release(n, s) EXCEPT ![c][s] =
                   [NoView EXCEPT !.on = TRUE,
                                  !.next = ReplayStart(sessions[s].ring, from_seq)]]
    /\ UNCHANGED << pty, queues, writers, gone >>

AttachSendWaits(c) ==
    /\ conns[c].pc = "attaching"
    /\ conns[c].todo # << >>
    /\ c \in writers => HasRoom(c)
    /\ queues' = [queues EXCEPT ![c] = IF HasRoom(c) THEN Append(@, Head(conns[c].todo)) ELSE @]
    /\ view' = [view EXCEPT ![c][conns[c].session] =
                   IF HasRoom(c) THEN Noted(@, Head(conns[c].todo))
                                 ELSE [@ EXCEPT !.fit = FALSE]]
    /\ conns' = [conns EXCEPT ![c].todo = Tail(@)]
    /\ UNCHANGED << sessions, pty, writers, gone, mutex, requests >>
(* ... each of them only if there is room ...                              *)
AttachSend(c) ==
    /\ conns[c].pc = "attaching"
    /\ conns[c].todo # << >>
    /\ queues' = [queues EXCEPT ![c] = IF HasRoom(c) THEN Append(@, Head(conns[c].todo)) ELSE @]
    /\ view' = [view EXCEPT ![c][conns[c].session] =
                   IF HasRoom(c) THEN Noted(@, Head(conns[c].todo))
                                 ELSE [@ EXCEPT !.fit = FALSE]]
    /\ conns' = [conns EXCEPT ![c].todo = Tail(@)]
    /\ UNCHANGED << sessions, pty, writers, gone, mutex, requests >>

(* ... and release the mutex.                                              *)
AttachEnd(c) ==
    /\ conns[c].pc = "attaching"
    /\ conns[c].todo = << >>
    /\ mutex' = Nobody
    /\ Handled(c)
    /\ UNCHANGED << sessions, pty, queues, writers, gone, requests, view >>

Detach(c, s) ==
    LET n == conns[c].client_id IN
    /\ Request(c)
    /\ sessions[s].phase = "open"
    /\ sessions' = [sessions EXCEPT ![s].subscribers = @ \ Of(n, @)]
    /\ view' = Release(n, s)
    /\ Handled(c)
    /\ UNCHANGED << pty, queues, writers, gone, mutex >>

(* resize: the terminal first, without the mutex; it may fail ...  (Two    *)
(* that overlap may be recorded in the other order, and the server then    *)
(* reports a size the terminal does not have.)                             *)
ResizeWindow(c, s, z) ==
    /\ Request(c)
    /\ sessions[s].phase = "open"
    /\ \/ /\ pty' = [pty EXCEPT ![s].size = z]
          /\ conns' = [conns EXCEPT ![c].pc = "resizing", ![c].session = s,
                                    ![c].size = z]
       \/ /\ Handled(c)
          /\ UNCHANGED pty
    /\ UNCHANGED << sessions, queues, writers, gone, mutex, view >>

(* ... then what the server knows of it, if the session is still there.    *)
ResizeRecord(c) ==
    LET s == conns[c].session
        subs == sessions[s].subscribers
    IN  /\ conns[c].pc = "resizing"
        /\ mutex = Nobody
        /\ IF sessions[s].phase = "open"
           THEN /\ TrySend(subs, s, Event("session", s))
                /\ sessions' = [sessions EXCEPT ![s].size = conns[c].size,
                                                ![s].subscribers = Survivors(@)]
           ELSE UNCHANGED << sessions, queues, view >>
        /\ Handled(c)
        /\ UNCHANGED << pty, writers, gone, mutex, requests >>

(* kill: the session is removed ...                                        *)
Kill(c, s) ==
    /\ Request(c)
    /\ sessions[s].phase = "open"
    /\ sessions' = [sessions EXCEPT ![s] = Removed(@)]
    /\ conns' = [conns EXCEPT ![c].pc = "killing", ![c].session = s,
                              ![c].notify = sessions[s].subscribers]
    /\ UNCHANGED << pty, queues, writers, gone, mutex, view >>

(* ... and its subscribers are told, without the mutex.                    *)
KillNotify(c) ==
    /\ conns[c].pc = "killing"
    /\ TrySend(conns[c].notify, conns[c].session, Event("killed", conns[c].session))
    /\ Handled(c)
    /\ UNCHANGED << sessions, pty, writers, gone, mutex, requests >>

(* The answer waits for room; it fails once the writer is gone.            *)
Respond(c) ==
    /\ conns[c].pc = "responding"
    /\ \/ HasRoom(c) /\ queues' = [queues EXCEPT ![c] = Append(@, Response)]
                     /\ Goto(c, "ready")
       \/ c \notin writers /\ Goto(c, "leaving") /\ UNCHANGED queues
    /\ UNCHANGED << sessions, pty, writers, gone, mutex, requests, view >>

(* The client is found gone by the thread that reads ...                   *)
ReadEof(c) ==
    /\ conns[c].pc = "ready"
    /\ c \in gone
    /\ conns' = [conns EXCEPT ![c].pc = "leaving"]
    /\ UNCHANGED << sessions, pty, queues, writers, gone, mutex, requests, view >>

(* The thread ends as well when it cannot read what its client sends, or   *)
(* the socket fails.  (A request that is too large is answered before:     *)
(* that is a failed request, and then this.)                               *)
ReadFails(c) ==
    /\ conns[c].pc = "ready"
    /\ c \notin gone
    /\ conns' = [conns EXCEPT ![c].pc = "leaving"]
    /\ UNCHANGED << sessions, pty, queues, writers, gone, mutex, requests, view >>

Remove_clientForgets(c) ==
    /\ conns[c].pc = "leaving"
    /\ mutex = Nobody
    /\ conns' = [conns EXCEPT ![c].pc = "closed"]
    /\ UNCHANGED << sessions, view, pty, queues, writers, gone, mutex, requests >>
Remove_client(c) ==
    LET n == conns[c].client_id IN
    /\ conns[c].pc = "leaving"
    /\ mutex = Nobody
    /\ sessions' = [s \in Sessions |->
                       [sessions[s] EXCEPT !.subscribers = @ \ Of(n, @)]]
    /\ view' = [d \in Conns |-> [s \in Sessions |-> Release(n, s)[d][s]]]
    /\ conns' = [conns EXCEPT ![c].pc = "closed"]
    /\ UNCHANGED << pty, queues, writers, gone, mutex, requests >>

(* ... or by the one that writes, which ends then.                         *)
WriteFails(c) ==
    /\ c \in gone /\ c \in writers
    /\ queues[c] # << >>
    /\ queues' = [queues EXCEPT ![c] = << >>]
    /\ writers' = writers \ {c}
    /\ UNCHANGED << sessions, pty, conns, gone, mutex, requests, view >>

(* A message is written to the socket of a client that reads it.           *)
Write(c) ==
    /\ c \notin gone
    /\ queues[c] # << >>
    /\ queues' = [queues EXCEPT ![c] = Tail(@)]
    /\ UNCHANGED << sessions, pty, conns, writers, gone, mutex, requests, view >>

(* The client closes its socket.                                           *)
Disconnect(c) ==
    /\ c \notin gone
    /\ gone' = gone \cup {c}
    /\ UNCHANGED << sessions, pty, conns, queues, writers, mutex, requests, view >>

-----------------------------------------------------------------------------
(* What a connection's threads do without waiting for their client.        *)
ConnStep(c) ==
    \/ AttachSend(c) \/ AttachEnd(c) \/ ResizeRecord(c) \/ KillNotify(c)
    \/ Respond(c) \/ ReadEof(c) \/ Remove_client(c) \/ WriteFails(c)

ClientStep(c) ==
    \/ Other(c)
    \/ \E s \in Sessions :
          \/ Create_session(c, s)
          \/ \E from \in 0 .. MaxOutput : Attach(c, s, from)
          \/ Detach(c, s)
          \/ \E z \in Sizes : ResizeWindow(c, s, z)
          \/ Kill(c, s)
    \/ Write(c)
    \/ c \in Leavers /\ (ReadFails(c) \/ Disconnect(c))

PtyStep(s) ==
    \/ \E n \in 1 .. MaxRead : Deliver_output(s, n)
    \/ Finish_session(s)

Next ==
    \/ \E c \in Conns : ConnStep(c) \/ ClientStep(c)
    \/ \E s \in Sessions : PtyStep(s)

Spec == Init /\ [][Next]_vars

(* The server's threads run.  Nobody needs to read, write or leave.        *)
FairSpec == Spec /\ \A c \in Conns : WF_vars(ConnStep(c))
=============================================================================
