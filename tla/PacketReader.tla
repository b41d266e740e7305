---------------------------- MODULE PacketReader ----------------------------
(***************************************************************************)
(* One fr::media2::PacketReader: the boost::sml state machine that guards  *)
(* it, the user thread that opens, plays, pauses, resets, joins and        *)
(* destroys it, and the worker thread processPrivately() runs in.          *)
(*                                                                         *)
(* The state machine is thread_safe<recursive_mutex>: process_event holds  *)
(* its mutex while the transition AND its action run (smHeld); an event a  *)
(* state has no transition for is ignored; the state changes before the    *)
(* action runs; state.is() takes no lock.  Only the user thread ever runs  *)
(* an action that blocks, so the mutex is a BOOLEAN: held by the user.     *)
(***************************************************************************)
EXTENDS Integers, Sequences

CONSTANTS
  NumAv,          \* streams of the media file; packets carry an index 1..NumAv
  NumPackets,     \* packets av_read_frame returns before the end of the file
  Layouts,        \* what setupStreams may push, in order: one record per
                  \* stream that has a decoder, its index in the file (av) and
                  \* whether its codec could be opened (live)
  MaxOpens,       \* bound on the number of times the source is opened
  UserOps,        \* the operations the user thread calls
  CallbackPauses, \* may a packet subscriber send a pause event?
  CallbackResets  \* may it, or an eof subscriber, send a reset event?

LayoutEntry == [av : 1..NumAv, live : BOOLEAN]
StreamEntry == [av : 1..NumAv, live : BOOLEAN, gen : Nat]

ASSUME ReaderAssumption ==
  /\ NumAv \in Nat \ {0} /\ NumPackets \in Nat /\ MaxOpens \in Nat \ {0}
  /\ Layouts \subseteq Seq(LayoutEntry)
  /\ \A layout \in Layouts : \A i, j \in 1..Len(layout) :
       i < j => layout[i].av < layout[j].av
  /\ CallbackPauses \in BOOLEAN /\ CallbackResets \in BOOLEAN

VARIABLES
  sm,           \* state of the sml machine ("failed" is its terminal X)
  smHeld,       \* the user thread is inside process_event
  streamOwner,  \* who holds streamMutex
  wpc,          \* processingThread: "none" when it is not joinable
  upc, caller,  \* where the user thread is, and which call entered close()
  ctx,          \* formatContext # nullptr
  streams,      \* the vector of Streams; gen is the open that pushed an entry
  gen,          \* number of the current open
  decoders,     \* ghost: the streams of the file that had a decoder when it was
                \* last opened
  unread,       \* packets av_read_frame has not returned yet
  packet,       \* stream_index of the packet the worker holds
  disciplined,  \* does this user join (or close) after each process before
                \* the next process, open, reset or destroy, open only what
                \* is closed, and never reset from a subscriber?
  pausedReads,  \* ghost: packets read since the machine went to "paused"
  unjoined,     \* ghost: process() was called and nothing has joined since
  aborted       \* "no", or why the process died

vars == <<sm, smHeld, streamOwner, wpc, upc, caller, ctx, streams, gen,
          decoders, unread, packet, disciplined, pausedReads, unjoined, aborted>>
user == <<upc, caller>>
source == <<ctx, streams, gen, decoders>>
input == <<unread, packet, disciplined>>
ghosts == <<pausedReads, unjoined, aborted>>

TypeOK ==
  /\ sm \in {"opening", "opened", "failed", "playing", "paused", "done"}
  /\ smHeld \in BOOLEAN
  /\ streamOwner \in {"none", "user", "worker"}
  /\ wpc \in {"none", "start", "check", "pause", "read", "eof", "lock",
              "forward", "callback", "relock", "resetLock", "exited"}
  /\ upc \in {"opening", "probing", "idle", "joining", "closing",
              "closeJoin", "destroyed"}
  /\ caller \in {"none", "open", "reset", "destroy"}
  /\ ctx \in BOOLEAN
  /\ streams \in Seq(StreamEntry)
  /\ gen \in Nat /\ decoders \subseteq 1..NumAv
  /\ unread \in 0..NumPackets
  /\ packet \in 1..NumAv
  /\ pausedReads \in 0..2 /\ unjoined \in BOOLEAN /\ disciplined \in BOOLEAN
  /\ aborted \in {"no", "doubleStart", "nullContext", "outOfRange", "selfJoin"}

\* The constructor has sent open: the machine is in "opening" and the user
\* thread is inside its action.
Init ==
  /\ sm = "opening" /\ smHeld = TRUE /\ upc = "opening" /\ caller = "none"
  /\ streamOwner = "none" /\ wpc = "none"
  /\ ctx = FALSE /\ streams = <<>> /\ gen = 0 /\ decoders = {}
  /\ disciplined \in BOOLEAN
  /\ unread = 0 /\ packet = 1 /\ pausedReads = 0 /\ unjoined = FALSE
  /\ aborted = "no"

-----------------------------------------------------------------------------
(* The user thread: opening the source. *)

Call(op) == op \in UserOps /\ upc = "idle" /\ aborted = "no"

\* An event waits for a worker that blocks in a reset of its own.
Event(op) == Call(op) /\ wpc \notin {"relock", "resetLock"}

\* std::thread assignment: over a joinable thread it calls std::terminate.
StartWorker ==
  /\ unjoined' = TRUE
  /\ IF wpc = "none"
     THEN wpc' = "start" /\ UNCHANGED aborted
     ELSE aborted' = "doubleStart" /\ UNCHANGED wpc

SendOpen ==
  /\ Event("open") /\ sm = "done" /\ gen < MaxOpens
  /\ disciplined => ~unjoined /\ ~ctx
  /\ sm' = "opening" /\ smHeld' = TRUE /\ upc' = "opening"
  /\ UNCHANGED <<streamOwner, wpc, caller, source, input, ghosts>>

OpenFormatFails ==
  /\ upc = "opening" /\ aborted = "no"
  /\ ctx' = FALSE /\ sm' = "failed" /\ smHeld' = FALSE /\ upc' = "idle"
  /\ UNCHANGED <<streamOwner, wpc, caller, streams, gen, decoders, input,
                 ghosts>>

OpenFormat ==
  /\ upc = "opening" /\ aborted = "no"
  /\ ctx' = TRUE /\ gen' = gen + 1 /\ unread' = NumPackets
  /\ upc' = "probing"
  /\ UNCHANGED <<sm, smHeld, streamOwner, wpc, caller, streams, decoders,
                 packet, disciplined, ghosts>>

\* avformat_find_stream_info fails: setupStreams calls close() first.
ProbeFails ==
  /\ upc = "probing" /\ aborted = "no"
  /\ upc' = "closing" /\ caller' = "open"
  /\ UNCHANGED <<sm, smHeld, streamOwner, wpc, source, input, ghosts>>

\* The entries are appended: open() does not clear the vector.  A stream without
\* a decoder has none, and those behind it move up.
Pushed(layout) ==
  [i \in 1..Len(layout) |->
     [av |-> layout[i].av, live |-> layout[i].live, gen |-> gen]]

SetupStreams ==
  /\ upc = "probing" /\ aborted = "no"
  /\ \E layout \in Layouts :
       /\ streams' = streams \o Pushed(layout)
       /\ decoders' = {layout[i].av : i \in 1..Len(layout)}
       /\ sm' = IF \E i \in 1..Len(layout) : layout[i].live
                THEN "opened" ELSE "failed"
  /\ smHeld' = FALSE /\ upc' = "idle"
  /\ UNCHANGED <<streamOwner, wpc, caller, ctx, gen, input, ghosts>>

-----------------------------------------------------------------------------
(* The user thread: playing, pausing and joining. *)

\* process() in "opened" sends play, whose action is process() again, now in
\* "playing".  The worker cannot run its own first event before this returns.
SendPlay ==
  /\ Event("process") /\ sm = "opened"
  /\ disciplined => ~unjoined
  /\ sm' = "playing" /\ StartWorker
  /\ UNCHANGED <<smHeld, streamOwner, user, source, pausedReads, input>>

\* process() called in any other state starts a worker without an event.
ProcessElsewhere ==
  /\ Call("process") /\ sm # "opened"
  /\ disciplined => ~unjoined /\ sm = "done"
  /\ StartWorker
  /\ UNCHANGED <<sm, smHeld, streamOwner, user, source, pausedReads, input>>

\* What a pause event does: "playing" pauses, "paused" plays again.
Toggle ==
  /\ sm' = CASE sm = "playing" -> "paused"
             [] sm = "paused"  -> "playing"
             [] OTHER          -> sm
  /\ pausedReads' = IF sm = "playing" THEN 0 ELSE pausedReads

SendPause ==
  /\ Event("pause") /\ sm \in {"playing", "paused"}
  /\ Toggle
  /\ UNCHANGED <<smHeld, streamOwner, wpc, user, source, aborted,
                 unjoined, input>>

\* A play event in "paused": unpause() only notifies the condition variable.
SendUnpause ==
  /\ Event("unpause") /\ sm = "paused"
  /\ sm' = "playing"
  /\ UNCHANGED <<smHeld, streamOwner, wpc, user, source, input, ghosts>>

\* Mutant: join() takes streamMutex while it waits.
CallJoinLocked ==
  /\ Call("join") /\ streamOwner = "none"
  /\ upc' = "joining" /\ streamOwner' = "user"
  /\ UNCHANGED <<sm, smHeld, wpc, caller, source, input, ghosts>>

CallJoin ==
  /\ Call("join") /\ upc' = "joining"
  /\ UNCHANGED <<sm, smHeld, streamOwner, wpc, caller, source, input,
                 ghosts>>

JoinReturns ==
  /\ upc = "joining" /\ aborted = "no" /\ wpc \in {"none", "exited"}
  /\ wpc' = "none" /\ upc' = "idle" /\ unjoined' = FALSE
  /\ UNCHANGED <<sm, smHeld, streamOwner, caller, source, pausedReads,
                 aborted, input>>

-----------------------------------------------------------------------------
(* The user thread: closing, on reset and on destruction. *)

\* Mutant: the row "opened" + reset has no target state.
SendResetStays ==
  /\ Event("reset") /\ sm \in {"opened", "playing", "paused", "done"}
  /\ disciplined => ~unjoined
  /\ smHeld' = TRUE /\ upc' = "closing" /\ caller' = "reset"
  /\ UNCHANGED <<sm, streamOwner, wpc, source, input, ghosts>>

SendReset ==
  /\ Event("reset") /\ sm \in {"opened", "playing", "paused", "done"}
  /\ disciplined => ~unjoined
  /\ sm' = "done" /\ smHeld' = TRUE
  /\ upc' = "closing" /\ caller' = "reset"
  /\ UNCHANGED <<streamOwner, wpc, source, input, ghosts>>

\* ~PacketReader calls close() without an event: the machine stays as it is.
Destroy ==
  /\ Call("destroy")
  /\ disciplined => ~unjoined
  /\ upc' = "closing" /\ caller' = "destroy"
  /\ UNCHANGED <<sm, smHeld, streamOwner, wpc, source, input, ghosts>>

CloseLock ==
  /\ upc = "closing" /\ aborted = "no" /\ streamOwner = "none"
  /\ streamOwner' = "user" /\ upc' = "closeJoin"
  /\ UNCHANGED <<sm, smHeld, wpc, caller, source, input, ghosts>>

\* Mutants: streamMutex is never released; the stream vector is not cleared.
CloseKeepsLock ==
  /\ upc = "closeJoin" /\ aborted = "no" /\ wpc \in {"none", "exited"}
  /\ wpc' = "none" /\ unjoined' = FALSE /\ ctx' = FALSE /\ streams' = <<>>
  /\ smHeld' = FALSE
  /\ sm' = IF caller = "open" THEN "failed" ELSE sm
  /\ upc' = IF caller = "destroy" THEN "destroyed" ELSE "idle"
  /\ caller' = "none"
  /\ UNCHANGED <<streamOwner, gen, decoders, input, pausedReads, aborted>>

CloseKeepsStreams ==
  /\ upc = "closeJoin" /\ aborted = "no" /\ wpc \in {"none", "exited"}
  /\ wpc' = "none" /\ unjoined' = FALSE /\ ctx' = FALSE
  /\ streamOwner' = "none" /\ smHeld' = FALSE
  /\ sm' = IF caller = "open" THEN "failed" ELSE sm
  /\ upc' = IF caller = "destroy" THEN "destroyed" ELSE "idle"
  /\ caller' = "none"
  /\ UNCHANGED <<streams, gen, decoders, input, pausedReads, aborted>>

\* join() holding streamMutex, then everything is freed and the call returns
\* to its caller; setupStreams sends open_error after it.
CloseFinish ==
  /\ upc = "closeJoin" /\ aborted = "no" /\ wpc \in {"none", "exited"}
  /\ wpc' = "none" /\ unjoined' = FALSE /\ ctx' = FALSE /\ streams' = <<>>
  /\ streamOwner' = "none" /\ smHeld' = FALSE
  /\ sm' = IF caller = "open" THEN "failed" ELSE sm
  /\ upc' = IF caller = "destroy" THEN "destroyed" ELSE "idle"
  /\ caller' = "none"
  /\ UNCHANGED <<gen, decoders, pausedReads, aborted, input>>

-----------------------------------------------------------------------------
(* The worker thread: processPrivately(). *)

Work(at) == wpc = at /\ aborted = "no"

\* The worker's own play event; in "opened" its action would start a second
\* worker over this one.
WorkerStart ==
  /\ Work("start") /\ ~smHeld
  /\ IF sm = "opened"
     THEN sm' = "playing" /\ aborted' = "doubleStart" /\ UNCHANGED wpc
     ELSE /\ sm' = IF sm = "paused" THEN "playing" ELSE sm
          /\ wpc' = "check" /\ UNCHANGED aborted
  /\ UNCHANGED <<smHeld, streamOwner, user, source, pausedReads, unjoined,
                 input>>

WorkerCheck ==
  /\ Work("check")
  /\ wpc' = IF sm = "done" THEN "exited" ELSE "pause"
  /\ UNCHANGED <<sm, smHeld, streamOwner, user, source, input, ghosts>>

\* The predicate of the wait is constantly true: it never waits.
WorkerPause ==
  /\ Work("pause") /\ wpc' = "read"
  /\ UNCHANGED <<sm, smHeld, streamOwner, user, source, input, ghosts>>

\* Mutant: the worker trusts the packet of a failed read.
WorkerReadUnchecked ==
  /\ Work("read") /\ ctx
  /\ packet' \in 1..NumAv /\ unread' = unread - 1 /\ wpc' = "lock"
  /\ UNCHANGED <<sm, smHeld, streamOwner, user, source, disciplined, ghosts>>

\* av_read_frame: a packet, or a negative result (end of file or any error).
WorkerRead ==
  /\ Work("read")
  /\ \/ /\ ~ctx /\ aborted' = "nullContext"
        /\ UNCHANGED <<wpc, pausedReads, unread, packet>>
     \/ /\ ctx /\ unread > 0
        /\ packet' \in 1..NumAv /\ unread' = unread - 1 /\ wpc' = "lock"
        /\ pausedReads' = IF sm = "paused" /\ pausedReads < 2
                          THEN pausedReads + 1 ELSE pausedReads
        /\ UNCHANGED aborted
     \/ /\ ctx /\ wpc' = "eof"
        /\ UNCHANGED <<pausedReads, aborted, unread, packet>>
  /\ UNCHANGED <<sm, smHeld, streamOwner, user, source, unjoined, disciplined>>

\* Mutants: send_eof frees the source; "playing" + eof has no target state.
WorkerEofCloses ==
  /\ Work("eof") /\ ~smHeld
  /\ sm' = IF sm = "playing" THEN "done" ELSE sm
  /\ wpc' = "check" /\ ctx' = FALSE /\ streams' = <<>>
  /\ UNCHANGED <<smHeld, streamOwner, user, gen, decoders, input, ghosts>>

WorkerEofStays ==
  /\ Work("eof") /\ ~smHeld /\ wpc' = "check"
  /\ UNCHANGED <<sm, smHeld, streamOwner, user, source, input, ghosts>>

WorkerEof ==
  /\ Work("eof") /\ ~smHeld
  /\ sm' = IF sm = "playing" THEN "done" ELSE sm
  /\ wpc' = "check"
  /\ UNCHANGED <<smHeld, streamOwner, user, source, input, ghosts>>

WorkerLock ==
  /\ Work("lock") /\ streamOwner = "none"
  /\ streamOwner' = "worker" /\ wpc' = "forward"
  /\ UNCHANGED <<sm, smHeld, user, source, input, ghosts>>

\* Mutant: the lock_guard of the forward is never released.
WorkerForwardKeepsLock ==
  /\ Work("forward") /\ packet <= Len(streams) /\ wpc' = "check"
  /\ UNCHANGED <<sm, smHeld, streamOwner, user, source, input, ghosts>>

\* Subscribers run in the worker, under streamMutex; one may send pause.
WorkerForward ==
  /\ Work("forward")
  /\ \/ /\ packet > Len(streams) /\ aborted' = "outOfRange"
        /\ UNCHANGED <<wpc, streamOwner>>
     \/ /\ packet <= Len(streams) /\ streams[packet].live /\ CallbackPauses
        /\ wpc' = "callback" /\ UNCHANGED <<streamOwner, aborted>>
     \/ /\ packet <= Len(streams)
        /\ wpc' = "check" /\ streamOwner' = "none" /\ UNCHANGED aborted
  /\ UNCHANGED <<sm, smHeld, user, source, pausedReads, unjoined, input>>

WorkerCallback ==
  /\ Work("callback") /\ ~smHeld
  /\ Toggle /\ wpc' = "check" /\ streamOwner' = "none"
  /\ UNCHANGED <<smHeld, user, source, aborted, unjoined, input>>

\* A subscriber's reset event: close() locks streamMutex, which its thread
\* holds around the packet's signal.
WorkerCallbackReset ==
  /\ Work("callback") /\ ~smHeld /\ CallbackResets /\ ~disciplined
  /\ sm \in {"opened", "playing", "paused", "done"}
  /\ sm' = "done" /\ wpc' = "relock"
  /\ UNCHANGED <<smHeld, streamOwner, user, source, input, ghosts>>

\* From the eof signal the lock may be had, and the worker joins itself: an
\* exception nobody catches.
WorkerEofReset ==
  /\ Work("eof") /\ ~smHeld /\ CallbackResets /\ ~disciplined
  /\ sm = "playing" /\ sm' = "done"
  /\ IF streamOwner = "none"
     THEN aborted' = "selfJoin" /\ UNCHANGED wpc
     ELSE wpc' = "resetLock" /\ UNCHANGED aborted
  /\ UNCHANGED <<smHeld, streamOwner, user, source, pausedReads, unjoined,
                 input>>

-----------------------------------------------------------------------------
Terminated == upc = "destroyed" /\ UNCHANGED vars

InCall == \/ OpenFormatFails \/ OpenFormat \/ ProbeFails \/ SetupStreams
          \/ JoinReturns \/ CloseLock \/ CloseFinish

UserCall == \/ SendOpen \/ SendPlay \/ ProcessElsewhere \/ SendPause
            \/ SendUnpause \/ CallJoin \/ SendReset \/ Destroy

Worker == \/ WorkerStart \/ WorkerCheck \/ WorkerPause \/ WorkerRead
          \/ WorkerEof \/ WorkerLock \/ WorkerForward \/ WorkerCallback
          \/ WorkerCallbackReset \/ WorkerEofReset

Next == InCall \/ UserCall \/ Worker \/ Terminated

Spec == Init /\ [][Next]_vars

\* Both threads are scheduled, and a read does not fail to make progress for
\* ever; the user need never make another call.
FairSpec == Spec /\ WF_vars(InCall) /\ WF_vars(Worker)
-----------------------------------------------------------------------------
(* Properties. *)

\* Who holds streamMutex (taken by close() and by the worker around a
\* forward) and the machine's mutex is decided by where the threads are.
LockInv ==
  /\ streamOwner = "worker" <=> wpc \in {"forward", "callback", "relock"}
  /\ streamOwner = "user" <=> upc = "closeJoin"
  /\ smHeld <=> \/ upc \in {"opening", "probing"}
                \/ upc \in {"closing", "closeJoin"} /\ caller # "destroy"
  /\ wpc = "resetLock" => streamOwner = "user"

UserBlocked ==
  \/ upc \in {"joining", "closeJoin"} /\ wpc \notin {"none", "exited"}
  \/ upc = "closing" /\ streamOwner = "worker"

WorkerBlocked ==
  \/ wpc = "lock" /\ streamOwner = "user"
  \/ wpc \in {"start", "eof", "callback"} /\ smHeld
  \/ wpc \in {"relock", "resetLock"}

\* close() joins holding streamMutex and, on reset, the machine's mutex, the
\* two locks the worker takes.  That is the only way the threads can deadlock,
\* but for a subscriber that resets its own reader: else join() itself never
\* does, a destroy deadlocks on streamMutex only, and a close still waiting for
\* streamMutex only on a subscriber that sends pause.
HangShape ==
  UserBlocked /\ WorkerBlocked =>
    \/ upc = "closeJoin" /\ (wpc \in {"lock", "resetLock"} \/ caller # "destroy")
    \/ upc = "closing" /\ caller # "destroy" /\ wpc = "callback"
    \/ wpc = "relock"

\* Has the packet's stream moved up in the vector, for a stream before it, or
\* itself, that has no decoder?
MovedUp == \E i \in 1..packet : i \notin decoders

\* A user who joins before reopening, resetting or destroying never makes
\* process() assign over a running thread or the worker read a null context, nor
\* forward index past the vector, but for a packet behind a stream that has no
\* decoder (process(), processPrivately()).
NoAbort == disciplined => aborted = "no" \/ (aborted = "outOfRange" /\ MovedUp)

\* The entry the worker indexes was pushed by the current open, never by one
\* before it; and behind no stream without a decoder, it is the packet's.
RightStream ==
  disciplined /\ wpc = "forward" /\ packet <= Len(streams) =>
    /\ streams[packet].gen = gen
    /\ streams[packet].av = packet \/ MovedUp

\* The source a worker reads from is neither closed nor reopened between the
\* check of "done" that let it in and its next check.
SourceStable ==
  [][(disciplined
        /\ wpc \in {"pause", "read", "eof", "lock", "forward", "callback"})
       => UNCHANGED source]_vars

\* join() returns (the worker meets its end of file), unless the process ends as
\* in NoAbort or someone pauses: "paused" ignores eof, so a paused worker spins
\* until it is unpaused.
JoinTerminates ==
  (disciplined /\ upc = "joining")
    ~> (upc # "joining" \/ sm = "paused" \/ aborted # "no")

\* A user who joins first gets out of close(), on destruction, on a reset and
\* on a failed open.
CloseTerminates ==
  (disciplined /\ upc = "closing") ~> upc \in {"idle", "destroyed"}

\* "the thread will rejoin when the object is destroyed" (PacketReader.h:98),
\* whether or not the user joined it first.
DestroyRejoins ==
  (upc = "closing" /\ caller = "destroy") ~> (upc = "destroyed" \/ aborted # "no")

-----------------------------------------------------------------------------
(* What comments promise and the code does not keep: no run checks these, see
   the README. *)

\* "it will be forwarded to the appropriate stream in the stream vector"
\* (PacketReader.h:25), whether or not every stream has a decoder.
AppropriateStream ==
  disciplined /\ wpc = "forward" =>
    packet <= Len(streams) /\ streams[packet].av = packet

\* "Sending the StateMachine::pause event pauses processing"
\* (PacketReader.h:134): only the packet in flight is read in "paused".
PauseHolds == pausedReads <= 1

\* "Closes and re-opens the source" (PacketReaderBase.h:71).
ResetReopens ==
  [][upc = "closeJoin" /\ caller = "reset" /\ upc' = "idle"
       => sm' = "opened"]_vars

\* "the thread will rejoin when the object is destroyed or reopened"
\* (PacketReader.h:98): a reopened reader has no worker of its last source.
ReopenJoins == upc = "probing" => wpc = "none"
=============================================================================
