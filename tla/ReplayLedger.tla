---------------------------- MODULE ReplayLedger ----------------------------
(***************************************************************************)
(* Shared ReplayLedger handles (crates/goble-replay/src/lib.rs) used       *)
(* concurrently: writer tasks that record a turn and then stream into it   *)
(* and settle it, by index or at the tail, and a host that selects,        *)
(* applies, releases, discards, rewinds, forks, checkpoints and restores.  *)
(***************************************************************************)
EXTENDS Ledger

CONSTANTS Handles,          \* the ledgers in the process
          Writers,          \* the tasks that record turns
          Idle,             \* a writer that holds no index
          Outcomes,         \* the statuses writers settle their turns to
          MaxTurns,         \* bound: turns recorded in a behaviour
          MaxEvents         \* bound: events on one record

ASSUME BoundsAssumption == MaxTurns \in Nat /\ MaxEvents \in Nat

ASSUME OutcomesAssumption == Outcomes \subseteq TurnStatus

ASSUME IdleAssumption == Idle \notin [handle : Handles, index : Nat, turn : Nat]

VARIABLES ledger,           \* per handle, the state behind its mutex
          held,             \* per writer, the turn it records into
          saved,            \* the checkpoint a consumer holds
          recorded,         \* how many turns were ever recorded
          candidate         \* history: the turn each handle's client selected

vars == << ledger, held, saved, recorded, candidate >>

TypeOK ==
    /\ ledger \in [Handles -> LedgerState]
    /\ held \in [Writers -> [handle : Handles, index : Nat, turn : Nat]
                               \cup {Idle}]
    /\ saved \in Checkpoint
    /\ recorded \in 0 .. MaxTurns
    /\ candidate \in [Handles -> Nat]

Init ==
    /\ ledger = [h \in Handles |-> NewLedger]
    /\ held = [w \in Writers |-> Idle]
    /\ saved = << >>
    /\ recorded = 0
    /\ candidate = [h \in Handles |-> 0]

Update(h, l) == ledger' = [ledger EXCEPT ![h] = l]

HostOnly == UNCHANGED << held, recorded >>

-----------------------------------------------------------------------------
(* A writer's calls.                                                       *)

Record(w, h) ==
    /\ recorded < MaxTurns
    /\ recorded' = recorded + 1
    /\ Update(h, RecordTurn(ledger[h], recorded + 1))
    /\ held' = [held EXCEPT ![w] = [handle |-> h,
                                    index  |-> RecordedIndex(ledger[h]),
                                    turn   |-> recorded + 1]]
    /\ UNCHANGED << saved, candidate >>

RoomAt(h, i) == Len(ledger[h].turns[i + 1].events) < MaxEvents

(* append_events_to and append_events: a missing record is an error.       *)
AppendAt(w, i) ==
    LET h == held[w].handle IN
    /\ HasTurn(ledger[h], i)
    /\ RoomAt(h, i)
    /\ Update(h, AppendEventsTo(ledger[h], i, held[w].turn))
    /\ UNCHANGED << held, saved, recorded, candidate >>

SettleAt(w, i, st) ==
    LET h == held[w].handle IN
    /\ HasTurn(ledger[h], i)
    /\ Update(h, SettleTurnAt(ledger[h], i, st))
    /\ held' = [held EXCEPT ![w] = Idle]
    /\ UNCHANGED << saved, recorded, candidate >>

Tail_(w) == Len(ledger[held[w].handle].turns) - 1

Append_events_to(w) == held[w] # Idle /\ AppendAt(w, held[w].index)

Append_events(w) == held[w] # Idle /\ Tail_(w) \in Nat /\ AppendAt(w, Tail_(w))

Settle_turn_at(w) ==
    /\ held[w] # Idle
    /\ \E st \in Outcomes : SettleAt(w, held[w].index, st)

Settle_turn(w) ==
    /\ held[w] # Idle
    /\ Tail_(w) \in Nat
    /\ \E st \in Outcomes : SettleAt(w, Tail_(w), st)

-----------------------------------------------------------------------------
(* The host's calls.                                                       *)

SelectTurn(h, at) ==
    /\ HasTurn(ledger[h], at)
    /\ Update(h, Select(ledger[h], at))
    /\ candidate' = [candidate EXCEPT ![h] = ledger[h].turns[at + 1].turn]
    /\ HostOnly /\ UNCHANGED saved

ApplyCandidate(h, at) ==
    /\ CanApply(ledger[h], at)
    /\ Update(h, Apply(ledger[h], at))
    /\ HostOnly /\ UNCHANGED << saved, candidate >>

ReleaseCandidate(h, at) ==
    /\ HasTurn(ledger[h], at)
    /\ Update(h, Release(ledger[h], at))
    /\ HostOnly /\ UNCHANGED << saved, candidate >>

DiscardFrom(h, at) ==
    /\ HasTurn(ledger[h], at)
    /\ Update(h, Discard(ledger[h], at))
    /\ HostOnly /\ UNCHANGED << saved, candidate >>

(* rewind_to and its alias revert_to.                                      *)
Rewind(h, at) ==
    /\ Update(h, RewindTo(ledger[h], at))
    /\ HostOnly /\ UNCHANGED << saved, candidate >>

(* The branch is a ledger of its own, held under another handle.           *)
ForkTo(h, g, at) ==
    /\ h # g
    /\ Update(g, Fork(ledger[h], at))
    /\ HostOnly /\ UNCHANGED << saved, candidate >>

(* checkpoint() is checkpoint_at(len).                                     *)
TakeCheckpoint(h, at) ==
    /\ saved' = CheckpointAt(ledger[h], at)
    /\ HostOnly /\ UNCHANGED << ledger, candidate >>

RestoreCheckpoint(h) ==
    /\ Update(h, FromCheckpoint(saved))
    /\ HostOnly /\ UNCHANGED << saved, candidate >>

-----------------------------------------------------------------------------
Writer(w) ==
    \/ \E h \in Handles : Record(w, h)
    \/ Append_events_to(w)
    \/ Append_events(w)
    \/ Settle_turn_at(w)
    \/ Settle_turn(w)

Host(h) ==
    \/ RestoreCheckpoint(h)
    \/ \E at \in 0 .. MaxTurns :
          \/ SelectTurn(h, at)
          \/ ApplyCandidate(h, at)
          \/ ReleaseCandidate(h, at)
          \/ DiscardFrom(h, at)
          \/ Rewind(h, at)
          \/ TakeCheckpoint(h, at)
          \/ \E g \in Handles : ForkTo(h, g, at)

Next == \/ \E w \in Writers : Writer(w)
        \/ \E h \in Handles : Host(h)

Spec == Init /\ [][Next]_vars

-----------------------------------------------------------------------------
(* The numbers of the turns of a turn list, oldest first.                  *)
TurnsOf(turns) == [i \in 1 .. Len(turns) |-> turns[i].turn]

(* The `index` field of every record is its position: "0-based,            *)
(* contiguous" (lib.rs:57), in every ledger and in the checkpoint a        *)
(* consumer holds, whatever truncations, forks and restores came before.   *)
Contiguous(turns) == \A i \in 1 .. Len(turns) : turns[i].index = i - 1

IndexContiguous ==
    /\ \A h \in Handles : Contiguous(ledger[h].turns)
    /\ Contiguous(saved)

(* The ledgers implement Transcript: apart from recording, every operation *)
(* of lib.rs cuts a history back to a prefix, copies a prefix or restores  *)
(* one, and streaming into or settling a record moves no turn.             *)
Histories == INSTANCE Transcript
                WITH Turns   <- 1 .. MaxTurns,
                     history <- [h \in Handles |-> TurnsOf(ledger[h].turns)],
                     kept    <- TurnsOf(saved)

ImplementsTranscript == Histories!TSpec

(* apply "Errors if `at` ... is not the currently selected candidate (call *)
(* select first)" (lib.rs:239): the turn an apply commits is the turn the  *)
(* client selected.  rewind_to leaves the marker behind, so a turn         *)
(* recorded later at the same index can be committed in its place.         *)
AppliedWasSelected ==
    \A h \in Handles : \A at \in 0 .. MaxTurns :
        CanApply(ledger[h], at)
            => ledger[h].turns[at + 1].turn = candidate[h]
=============================================================================
