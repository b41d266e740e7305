----------------------------- MODULE Transport -----------------------------
(***************************************************************************)
(* ZmqSegmentPublisher and ZmqSegmentSubscriber over ZeroMQ's PUB and SUB  *)
(* sockets.  Each publisher connects to the address the subscriber bound.  *)
(* A PUB socket sends to nobody until the other side's subscription has    *)
(* arrived, and drops what a full pipe cannot take; the pipe (both high    *)
(* water marks and the network) is one queue here.  The subscriber's       *)
(* thread polls and signals one segment at a time.                         *)
(***************************************************************************)
EXTENDS Integers, Sequences

CONSTANTS
  Publishers,
  HighWater,     \* segments a pipe holds
  MaxSegments,   \* bound on the segments of each publisher
  MaxRuns        \* bound on the calls of process()

ASSUME TransportAssumption ==
  HighWater \in Nat \ {0} /\ MaxSegments \in Nat /\ MaxRuns \in Nat

VARIABLES
  joined,      \* the publishers the subscription has reached
  sent,        \* segments each publisher was given
  early,       \* ghost: those it was given before the subscription
  overflow,    \* ghost: those its full pipe dropped
  pipe,        \* the segments on their way
  received,    \* the segments of each publisher signalled by receivedSegment
  thread,      \* processingThread: "none", "test", "wait" or "ended" (but
               \* not joined)
  shutdownPlox,
  joining,     \* the user waits in join()
  runs,        \* calls of process()
  closes,      \* ghost: calls of close() since the last process()
  late,        \* ghost: segments signalled since the last close()
  terminated   \* process() replaced a thread that was not joined

vars == <<joined, sent, early, overflow, pipe, received, thread, shutdownPlox,
          joining, runs, closes, late, terminated>>
network == <<joined, sent, early, overflow>>
user == <<shutdownPlox, joining, runs, closes, terminated>>

TypeOK ==
  /\ joined \subseteq Publishers
  /\ sent \in [Publishers -> 0..MaxSegments]
  /\ early \in [Publishers -> 0..MaxSegments]
  /\ overflow \in [Publishers -> SUBSET (1..MaxSegments)]
  /\ pipe \in [Publishers -> Seq(1..MaxSegments)]
  /\ \A p \in Publishers : Len(pipe[p]) <= HighWater
  /\ received \in [Publishers -> Seq(1..MaxSegments)]
  /\ thread \in {"none", "test", "wait", "ended"}
  /\ shutdownPlox \in BOOLEAN /\ joining \in BOOLEAN /\ terminated \in BOOLEAN
  /\ runs \in 0..MaxRuns /\ closes \in Nat /\ late \in Nat

Init ==
  /\ joined = {} /\ sent = [p \in Publishers |-> 0]
  /\ early = [p \in Publishers |-> 0]
  /\ overflow = [p \in Publishers |-> {}]
  /\ pipe = [p \in Publishers |-> <<>>]
  /\ received = [p \in Publishers |-> <<>>]
  /\ thread = "none" /\ shutdownPlox = FALSE /\ joining = FALSE
  /\ runs = 0 /\ closes = 0 /\ late = 0 /\ terminated = FALSE

-----------------------------------------------------------------------------
(* The publishers, and ZeroMQ. *)

\* The subscription reaches a publisher that connected.
Joined(p) ==
  /\ p \notin joined /\ joined' = joined \cup {p}
  /\ UNCHANGED <<sent, early, overflow, pipe, received, thread, user, late>>

\* process(segment): one multipart message.
Publish(p) ==
  /\ sent[p] < MaxSegments /\ sent' = [sent EXCEPT ![p] = @ + 1]
  /\ UNCHANGED <<joined, received, thread, user, late>>

SendToNobody(p) ==
  /\ Publish(p) /\ p \notin joined
  /\ early' = [early EXCEPT ![p] = @ + 1] /\ UNCHANGED <<overflow, pipe>>

Send(p) ==
  /\ Publish(p) /\ p \in joined /\ Len(pipe[p]) < HighWater
  /\ pipe' = [pipe EXCEPT ![p] = Append(@, sent[p] + 1)]
  /\ UNCHANGED <<early, overflow>>

SendToFull(p) ==
  /\ Publish(p) /\ p \in joined /\ Len(pipe[p]) >= HighWater
  /\ overflow' = [overflow EXCEPT ![p] = @ \cup {sent[p] + 1}]
  /\ UNCHANGED <<early, pipe>>

-----------------------------------------------------------------------------
(* The subscriber's thread: processPrivately(). *)

\* Mutant: the flag is tested only when nothing is waiting.
TestIdle ==
  /\ thread = "test"
  /\ thread' = IF shutdownPlox /\ \A p \in Publishers : pipe[p] = <<>>
               THEN "ended" ELSE "wait"
  /\ UNCHANGED <<network, pipe, received, user, late>>

Test ==
  /\ thread = "test" /\ thread' = IF shutdownPlox THEN "ended" ELSE "wait"
  /\ UNCHANGED <<network, pipe, received, user, late>>

\* Mutant: two messages are read for one event.
DeliverSkips(p) ==
  /\ thread = "wait" /\ Len(pipe[p]) > 1
  /\ pipe' = [pipe EXCEPT ![p] = Tail(Tail(@))]
  /\ received' = [received EXCEPT ![p] = Append(@, pipe[p][2])]
  /\ late' = IF shutdownPlox THEN late + 1 ELSE late
  /\ thread' = "test" /\ UNCHANGED <<network, user>>

\* Mutant: the newest message is read first.
DeliverNewest(p) ==
  /\ thread = "wait" /\ pipe[p] # <<>>
  /\ pipe' = [pipe EXCEPT ![p] = SubSeq(@, 1, Len(@) - 1)]
  /\ received' = [received EXCEPT ![p] = Append(@, pipe[p][Len(pipe[p])])]
  /\ late' = IF shutdownPlox THEN late + 1 ELSE late
  /\ thread' = "test" /\ UNCHANGED <<network, user>>

\* wait() runs the callback: it reads a message and signals its segment.
Deliver(p) ==
  /\ thread = "wait" /\ pipe[p] # <<>>
  /\ pipe' = [pipe EXCEPT ![p] = Tail(@)]
  /\ received' = [received EXCEPT ![p] = Append(@, Head(pipe[p]))]
  /\ late' = IF shutdownPlox THEN late + 1 ELSE late
  /\ thread' = "test" /\ UNCHANGED <<network, user>>

\* Mutant: the loop ends when a wait times out.
TimeoutEnds ==
  /\ thread = "wait" /\ \A p \in Publishers : pipe[p] = <<>>
  /\ thread' = "ended"
  /\ UNCHANGED <<network, pipe, received, user, late>>

Timeout ==
  /\ thread = "wait" /\ \A p \in Publishers : pipe[p] = <<>>
  /\ thread' = "test"
  /\ UNCHANGED <<network, pipe, received, user, late>>

-----------------------------------------------------------------------------
(* The user of the subscriber. *)

Idle == ~joining /\ ~terminated

\* Assigning to a joinable std::thread terminates the program.
Process ==
  /\ Idle /\ runs < MaxRuns /\ runs' = runs + 1 /\ closes' = 0
  /\ IF thread = "none"
     THEN thread' = "test" /\ UNCHANGED terminated
     ELSE terminated' = TRUE /\ UNCHANGED thread
  /\ UNCHANGED <<network, pipe, received, shutdownPlox, joining, late>>

Close ==
  /\ Idle /\ closes = 0
  /\ shutdownPlox' = TRUE /\ closes' = 1 /\ late' = 0
  /\ UNCHANGED <<network, pipe, received, thread, joining, runs, terminated>>

Join ==
  /\ Idle /\ thread # "none" /\ joining' = TRUE
  /\ UNCHANGED <<network, pipe, received, thread, shutdownPlox, runs, closes,
                 late, terminated>>

JoinReturns ==
  /\ joining /\ thread = "ended" /\ thread' = "none" /\ joining' = FALSE
  /\ UNCHANGED <<network, pipe, received, shutdownPlox, runs, closes, late,
                 terminated>>

Poll == Test \/ Timeout \/ \E p \in Publishers : Deliver(p)

Next == \/ \E p \in Publishers :
             Joined(p) \/ SendToNobody(p) \/ Send(p) \/ SendToFull(p)
        \/ ~terminated /\ Poll
        \/ Process \/ Close \/ Join \/ JoinReturns

Spec == Init /\ [][Next]_vars

\* The thread runs, and ZeroMQ takes the pipes' messages in turn.
FairSpec ==
  /\ Spec /\ WF_vars(~terminated /\ Poll) /\ WF_vars(JoinReturns)
  /\ \A p \in Publishers : SF_vars(~terminated /\ Deliver(p))

-----------------------------------------------------------------------------
(* Properties. *)

Members(s) == {s[i] : i \in 1..Len(s)}

\* What a publisher was given is received, on its way, or lost for one of two
\* reasons, and only once: no subscription yet, or a full pipe.
LossHasCause ==
  \A p \in Publishers :
    1..sent[p] = 1..early[p] \cup overflow[p]
                 \cup Members(received[p]) \cup Members(pipe[p])

\* The segments of a publisher are signalled in order, none twice.
InOrder ==
  \A p \in Publishers :
    LET line == received[p] \o pipe[p] IN
      \A i \in 1..Len(line) - 1 : line[i] < line[i + 1]

\* A segment on its way is received, however busy the other publishers are,
\* unless the subscriber is closed or its thread was never started.
Arrives ==
  \A p \in Publishers, n \in 1..MaxSegments :
    [](n \in Members(pipe[p]) /\ thread # "none"
         => <>(n \in Members(received[p]) \/ shutdownPlox \/ terminated))

\* close() is noticed at once: one more segment is signalled at most.
OneAfterClose == shutdownPlox => late <= 1

-----------------------------------------------------------------------------
(* What comments promise and the code does not keep: no run checks these, see
   the README. *)

\* It "will just send whatever you shove into it" (ZmqSegmentPublisher.h:41-42):
\* a segment a publisher was given is sent.
AllSent == \A p \in Publishers : early[p] = 0

\* "(If we let it just destruct we could lose some messages)" (Transport.cpp:
\* 81-82): a close() and join() lose none that was sent before them.
CloseLosesNone ==
  \A p \in Publishers, n \in 1..MaxSegments :
    [](n \in Members(pipe[p]) /\ thread # "none" /\ ~shutdownPlox
         => <>(n \in Members(received[p]) \/ terminated))

\* "a thread that runs until close gets called" (ZmqSegmentSubscriber.h:50), also
\* when process() is called again after a close().
RunsUntilClose == [][thread' = "ended" /\ thread # "ended" => closes > 0]_vars
=============================================================================
