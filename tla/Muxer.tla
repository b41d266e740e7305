------------------------------- MODULE Muxer -------------------------------
(***************************************************************************)
(* fr::media2::Muxer: each subscribed stream's thread hands its packets to *)
(* process(), which buffers up to bufferMax of them and then writes the    *)
(* oldest for each new one; a user thread subscribes to streams, flushes,  *)
(* closes, opens again and destroys it.                                    *)
(* bufferMutex covers the push (and the write of an eviction) and a whole  *)
(* flush; the comparison of buffer.size() with bufferMax, and close()'s    *)
(* trailer and state, are outside it.                                      *)
(***************************************************************************)
EXTENDS Integers, Sequences, FiniteSets

CONSTANTS
  Sources,     \* the streams to subscribe to, each forwarded by its own thread
  BufferMax,   \* bufferMax
  MaxPackets,  \* bound on the packets of each source
  MayFail,     \* may libavformat refuse a stream, the file, the header, a
               \* packet or the trailer?
  MaxFlushes,  \* bound on the calls of flush()
  MaxOpens     \* bound on the calls of open() after the constructor's

ASSUME MuxerAssumption ==
  /\ IsFiniteSet(Sources) /\ Sources # {} /\ BufferMax \in Nat
  /\ MaxPackets \in Nat /\ MaxFlushes \in Nat /\ MaxOpens \in Nat
  /\ MayFail \in BOOLEAN

Packet == [source : Sources, n : Nat]

VARIABLES
  state,       \* "OPEN", "CLOSED" or "ERROR": the constructor opened the file
  streamStart, \* no header attempted yet
  header,      \* the file has a header
  trailer,     \* the file has a trailer
  buffer,
  locked,      \* the user thread holds bufferMutex, in flush()
  count,       \* packets each source has handed over
  pc,          \* each source: "idle", or the branch of process() it took
  linked,      \* each source: "no", "connecting" (its slot is connected, its
               \* info->stream not set), "failed" (and never will be), "set"
  user,        \* the user thread: "idle", "subscribe", "flush", "closeFlush",
               \* "closeFile" or "destroyed"
  patient,     \* does this user wait for the sources before close()?
  flushes,     \* calls of flush() so far
  destroying,  \* the close() under way is ~Muxer's: all are unsubscribed
  opens,       \* calls of open() so far
  written,     \* the packets of each source libavformat took, in order
  base,        \* how many of each source's packets are in earlier files
  lost,        \* a packet taken off the buffer, or the end of a file, was
               \* not written
  crashed      \* "no", or how the process died

vars == <<state, streamStart, header, trailer, buffer, locked, count, pc,
          linked, user, patient, flushes, destroying, opens, written, base,
          lost, crashed>>
file == <<state, streamStart, header, trailer, written, base, lost>>
budget == <<patient, flushes, opens>>
calls == <<linked, user, destroying, budget>>

TypeOK ==
  /\ state \in {"OPEN", "CLOSED", "ERROR"}
  /\ streamStart \in BOOLEAN /\ header \in BOOLEAN /\ trailer \in BOOLEAN
  /\ buffer \in Seq(Packet) /\ locked \in BOOLEAN
  /\ count \in [Sources -> Nat]
  /\ pc \in [Sources -> {"idle", "append", "evict"}]
  /\ linked \in [Sources -> {"no", "connecting", "failed", "set"}]
  /\ user \in {"idle", "subscribe", "flush", "closeFlush", "closeFile", "destroyed"}
  /\ patient \in BOOLEAN /\ flushes \in Nat /\ destroying \in BOOLEAN
  /\ opens \in Nat /\ base \in [Sources -> Nat]
  /\ written \in [Sources -> Seq(Nat)] /\ lost \in BOOLEAN
  /\ crashed \in {"no", "closedFile", "noHeader", "noStream", "lateStream",
                  "terminate"}

Init ==
  /\ state = "OPEN" /\ streamStart = TRUE
  /\ header = FALSE /\ trailer = FALSE
  /\ buffer = <<>> /\ locked = FALSE
  /\ count = [s \in Sources |-> 0] /\ pc = [s \in Sources |-> "idle"]
  /\ linked = [s \in Sources |-> "no"]
  /\ user = "idle" /\ patient \in BOOLEAN /\ flushes = 0 /\ destroying = FALSE
  /\ opens = 0 /\ base = [s \in Sources |-> 0]
  /\ written = [s \in Sources |-> <<>>] /\ lost = FALSE /\ crashed = "no"

-----------------------------------------------------------------------------
(* Writing the file. *)

\* write(): the header before the first packet, then the packet.  A failure
\* throws; the packet is gone from the buffer either way.
WriteFails ==
  /\ MayFail /\ state = "OPEN" /\ (header \/ streamStart)
  /\ streamStart' = FALSE /\ lost' = TRUE
  /\ header' \in {header, TRUE}
  /\ UNCHANGED <<state, trailer, written, base>>

WriteCrashes(how) ==
  /\ how = IF state # "OPEN" THEN "closedFile"
           ELSE IF ~streamStart /\ ~header THEN "noHeader" ELSE "no"
  /\ how # "no"
  /\ UNCHANGED file

WriteOk(p) ==
  /\ state = "OPEN" /\ (header \/ streamStart)
  /\ streamStart' = FALSE /\ header' = TRUE
  /\ written' = [written EXCEPT ![p.source] = Append(@, p.n)]
  /\ UNCHANGED <<state, trailer, base, lost>>

-----------------------------------------------------------------------------
(* A source's thread: process(). *)

Running == crashed = "no"

\* Mutant: the buffer is compared with <=.
OfferLoose(s) ==
  /\ Running /\ pc[s] = "idle" /\ linked[s] = "set" /\ count[s] < MaxPackets
  /\ patient => (user \in {"idle", "flush"} /\ state = "OPEN")
  /\ pc' = [pc EXCEPT ![s] = IF Len(buffer) <= BufferMax THEN "append"
                             ELSE "evict"]
  /\ count' = [count EXCEPT ![s] = @ + 1]
  /\ UNCHANGED <<file, buffer, locked, calls, crashed>>

\* The size is compared before the lock is taken.
Offer(s) ==
  /\ Running /\ pc[s] = "idle" /\ linked[s] = "set" /\ count[s] < MaxPackets
  /\ patient => (user \in {"idle", "flush"} /\ state = "OPEN")
  /\ pc' = [pc EXCEPT ![s] = IF Len(buffer) < BufferMax THEN "append"
                             ELSE "evict"]
  /\ count' = [count EXCEPT ![s] = @ + 1]
  /\ UNCHANGED <<file, buffer, locked, calls, crashed>>

\* The slot is connected and info->stream is not set, or null: copyTimingData()
\* throws into process()'s catch or writes through the uninitialised pointer,
\* and then stream_index is read from it.  Not even a careful user knows of the
\* slot that a subscribe() that threw has left connected.
OfferUnlinked(s) ==
  /\ Running /\ pc[s] = "idle" /\ linked[s] \in {"connecting", "failed"}
  /\ count[s] < MaxPackets
  /\ patient => (user \in {"idle", "flush"} /\ state = "OPEN")
  /\ crashed' = "noStream"
  /\ UNCHANGED <<file, buffer, locked, count, pc, calls>>

Held(s) == [source |-> s, n |-> count[s]]

AppendPacket(s) ==
  /\ Running /\ pc[s] = "append" /\ ~locked
  /\ buffer' = Append(buffer, Held(s)) /\ pc' = [pc EXCEPT ![s] = "idle"]
  /\ UNCHANGED <<file, locked, count, calls, crashed>>

\* Mutant: past bufferMax the new packet is written directly.
EvictBack(s) ==
  /\ Running /\ pc[s] = "evict" /\ ~locked
  /\ WriteOk(Held(s)) /\ UNCHANGED <<buffer, crashed>>
  /\ pc' = [pc EXCEPT ![s] = "idle"]
  /\ UNCHANGED <<locked, count, calls>>

\* The new packet goes in and the oldest is written, under the lock.  An
\* exception leaves through the signal and the source's thread.
Evict(s) ==
  /\ Running /\ pc[s] = "evict" /\ ~locked
  /\ LET b == Append(buffer, Held(s)) IN
       /\ buffer' = Tail(b)
       /\ \/ WriteOk(Head(b)) /\ UNCHANGED crashed
          \/ WriteFails /\ crashed' = "terminate"
          \/ WriteCrashes(crashed')
  /\ pc' = [pc EXCEPT ![s] = "idle"]
  /\ UNCHANGED <<locked, count, calls>>

-----------------------------------------------------------------------------
(* The user thread. *)

SourcesDone == \A s \in Sources : pc[s] = "idle"

\* What a careful user does between two runs of its sources only.
UserCalls == Running /\ user = "idle" /\ (patient => SourcesDone)

\* Mutant: the check that no header has been written is dropped.
SubscribeAlways(s) ==
  /\ UserCalls /\ linked[s] = "no"
  /\ linked' = [linked EXCEPT ![s] = "connecting"] /\ user' = "subscribe"
  /\ UNCHANGED <<file, buffer, locked, count, pc, destroying, budget, crashed>>

\* subscribe() up to the slot's connection; it throws once a header is written.
Subscribe(s) ==
  /\ UserCalls /\ linked[s] = "no" /\ streamStart
  /\ linked' = [linked EXCEPT ![s] = "connecting"] /\ user' = "subscribe"
  /\ UNCHANGED <<file, buffer, locked, count, pc, destroying, budget, crashed>>

\* The rest: libavformat's new stream.  A header that another source's packet
\* wrote since may crash it; a refusal throws and the slot stays connected.
SubscribeEnds(s) ==
  /\ Running /\ user = "subscribe" /\ linked[s] = "connecting"
  /\ user' = "idle"
  /\ \/ /\ linked' = [linked EXCEPT ![s] = "set"]
        /\ crashed' \in {"no", IF streamStart THEN "no" ELSE "lateStream"}
     \/ /\ MayFail /\ linked' = [linked EXCEPT ![s] = "failed"]
        /\ UNCHANGED crashed
  /\ UNCHANGED <<file, buffer, locked, count, pc, destroying, budget>>

\* unsubscribe() drops every stream's slot; one that is running still ends.
Unsubscribe ==
  /\ Running /\ user = "idle"
  /\ linked' = [s \in Sources |-> "no"]
  /\ UNCHANGED <<file, buffer, locked, count, pc, user, destroying, budget,
                 crashed>>

\* open(): nothing if the file is open; else it is truncated, or the attempt
\* fails and throws.
Open ==
  /\ Running /\ user = "idle" /\ state # "OPEN" /\ opens < MaxOpens
  /\ opens' = opens + 1
  /\ \/ /\ state' = "OPEN" /\ header' = FALSE /\ trailer' = FALSE
        /\ base' = [s \in Sources |-> base[s] + Len(written[s])]
        /\ written' = [s \in Sources |-> <<>>] /\ UNCHANGED <<streamStart, lost>>
     \/ /\ MayFail /\ state' = "ERROR"
        /\ UNCHANGED <<streamStart, header, trailer, written, base, lost>>
  /\ UNCHANGED <<buffer, locked, count, pc, linked, user, patient, flushes,
                 destroying, crashed>>

Flush ==
  /\ Running /\ user = "idle" /\ flushes < MaxFlushes
  /\ user' = "flush" /\ flushes' = flushes + 1 /\ locked' = TRUE
  /\ UNCHANGED <<file, buffer, count, pc, linked, patient, destroying, opens,
                 crashed>>

\* close() flushes whatever the state; closed already, it does no more.
Close ==
  /\ UserCalls /\ (state = "OPEN" \/ buffer # <<>>)
  /\ user' = "closeFlush" /\ locked' = TRUE
  /\ UNCHANGED <<file, buffer, count, pc, linked, destroying, budget, crashed>>

\* ~Muxer: unsubscribe(), then close().
Destroy ==
  /\ UserCalls
  /\ user' = "closeFlush" /\ locked' = TRUE /\ destroying' = TRUE
  /\ linked' = [s \in Sources |-> "no"]
  /\ UNCHANGED <<file, buffer, count, pc, budget, crashed>>

InFlush == Running /\ user \in {"flush", "closeFlush"}

\* The lock_guard's end: flush() returns, or close() goes on.
FlushReturns ==
  /\ locked' = FALSE
  /\ user' = IF user = "flush" THEN "idle" ELSE "closeFile"

\* One packet of the loop.  A failed write throws out of flush() to its
\* caller, who may go on; out of a destructor it terminates the program.
FlushPacket ==
  /\ InFlush /\ buffer # <<>>
  /\ buffer' = Tail(buffer)
  /\ \/ WriteOk(Head(buffer)) /\ UNCHANGED <<user, locked, crashed>>
     \/ /\ WriteFails /\ locked' = FALSE /\ user' = "idle"
        /\ crashed' = IF destroying THEN "terminate" ELSE "no"
     \/ WriteCrashes(crashed') /\ UNCHANGED <<user, locked>>
  /\ UNCHANGED <<count, pc, linked, destroying, budget>>

\* Mutant: flush() writes one packet only.
FlushStops ==
  /\ InFlush /\ FlushReturns
  /\ UNCHANGED <<file, buffer, count, pc, linked, destroying, budget, crashed>>

FlushEnds ==
  /\ InFlush /\ buffer = <<>> /\ FlushReturns
  /\ UNCHANGED <<file, buffer, count, pc, linked, destroying, budget, crashed>>

CloseReturns == user' = IF destroying THEN "destroyed" ELSE "idle"

\* The rest of close(): libavformat's own queue and the trailer if a header was
\* attempted, neither of them looked at, and the file.
CloseFile ==
  /\ Running /\ user = "closeFile" /\ CloseReturns
  /\ IF state = "OPEN"
     THEN /\ state' = "CLOSED" /\ streamStart' = TRUE
          /\ \/ trailer' = (~streamStart /\ header) /\ UNCHANGED lost
             \/ /\ MayFail /\ ~streamStart /\ header
                /\ trailer' \in BOOLEAN /\ lost' = TRUE
          /\ crashed' = IF ~streamStart /\ ~header THEN "noHeader" ELSE "no"
          /\ UNCHANGED <<header, written, base>>
     ELSE UNCHANGED <<file, crashed>>
  /\ UNCHANGED <<buffer, locked, count, pc, linked, destroying, budget>>

UserSteps == FlushPacket \/ FlushEnds \/ CloseFile

SourceSteps(s) == Offer(s) \/ OfferUnlinked(s) \/ AppendPacket(s) \/ Evict(s)

Next == \/ \E s \in Sources : \/ SourceSteps(s)
                              \/ Subscribe(s) \/ SubscribeEnds(s)
        \/ Unsubscribe \/ Open \/ Flush \/ Close \/ Destroy \/ UserSteps

Spec == Init /\ [][Next]_vars

-----------------------------------------------------------------------------
(* Properties. *)

Appending == {s \in Sources : pc[s] = "append"}

\* The unlocked size check lets every source that passed it append: the buffer
\* is bounded all the same, by one packet per source over bufferMax.
BufferBound ==
  Len(buffer) + Cardinality(Appending) <= BufferMax + Cardinality(Sources) - 1

\* Whatever fails and whoever closes early, no packet is in the file twice or
\* behind a later one of its source; and while no write failed none is missing
\* in between, nor between one file and the next that open() starts, evictions
\* and flushes of two threads or not (bufferMutex).
Ordered ==
  \A s \in Sources :
    /\ \A i \in 1..Len(written[s]) - 1 : written[s][i] < written[s][i + 1]
    /\ ~lost => \A i \in 1..Len(written[s]) : written[s][i] = base[s] + i

\* Closed by a user who waits for the sources, the file has every packet that
\* was handed over since it was opened, and a trailer if it has any (close()
\* flushes first).
ClosedComplete ==
  patient /\ state = "CLOSED" /\ ~lost =>
    /\ \A s \in Sources : base[s] + Len(written[s]) = count[s]
    /\ trailer <=> \E s \in Sources : written[s] # <<>>

\* Nor does libavformat, as long as no write failed, ever see a packet or a
\* trailer without its header, a packet for a file that is closed, or a new
\* stream in a file that has its header: only the slot of a subscribe() that
\* threw brings down this user's process.
NeverCrashes ==
  patient /\ ~lost =>
    \/ crashed = "no"
    \/ crashed = "noStream" /\ \E s \in Sources : linked[s] = "failed"

-----------------------------------------------------------------------------
(* What comments promise and the code does not keep: no run checks these, see
   the README. *)

\* "Number of elements to retain in buffer" (Muxer.h:140).
BufferAtMost == Len(buffer) <= BufferMax

\* A header that could not be written is not followed by packets.
HeaderFirst == patient => crashed \in {"no", "terminate", "noStream"}

\* "if you try to add a stream after the muxer has started writing [...] ffmpeg
\* will crash" (Muxer.cpp:60): the check does not hold until the stream is added.
NoLateStream == crashed # "lateStream"

\* close() "clears stream data" (Muxer.h:111, Muxer.cpp:48).
CloseClears == state = "CLOSED" /\ user = "idle" =>
  \A s \in Sources : linked[s] = "no"

\* "this (should) flush buffers to wherever you're writing" (Muxer.h:110): once
\* close() has returned nothing waits in the buffer.
CloseFlushes == state = "CLOSED" /\ user = "idle" => buffer = <<>>
=============================================================================
