-------------------------- MODULE Transport_proofs --------------------------
(***************************************************************************)
(* Theorems about Transport, for every set of publishers, high water mark  *)
(* and number of segments and runs.                                        *)
(***************************************************************************)
EXTENDS Transport, SequenceTheorems, TLAPS

-----------------------------------------------------------------------------
(* Sequences: what reading one element moves from a queue to a log. *)

\* Appending adds the element to the members, at the end.
LEMMA AppendMembers ==
  ASSUME NEW S, NEW s \in Seq(S), NEW e \in S
  PROVE  Members(Append(s, e)) = Members(s) \cup {e}
<1>1. /\ Append(s, e) \in Seq(S) /\ Len(Append(s, e)) = Len(s) + 1
      /\ \A i \in 1..Len(s) : Append(s, e)[i] = s[i]
      /\ Append(s, e)[Len(s) + 1] = e
  BY AppendProperties
<1>2. Len(s) \in Nat
  OBVIOUS
<1>3. 1..Len(s) + 1 = 1..Len(s) \cup {Len(s) + 1}
  BY <1>2
<1>. QED
  BY <1>1, <1>3 DEF Members

\* A queue's members are its head and those of its tail.
LEMMA TailMembers ==
  ASSUME NEW S, NEW t \in Seq(S), t # <<>>
  PROVE  Members(t) = {Head(t)} \cup Members(Tail(t))
<1>1. /\ Len(t) \in Nat /\ Len(t) > 0 /\ Len(Tail(t)) = Len(t) - 1
      /\ \A i \in 1..Len(Tail(t)) : Tail(t)[i] = t[i + 1]
  BY HeadTailProperties, EmptySeq
<1>2. Head(t) = t[1]
  OBVIOUS
<1>3. ASSUME NEW i \in 1..Len(t) PROVE t[i] \in {Head(t)} \cup Members(Tail(t))
  <2>1. CASE i = 1
    BY <1>2, <2>1
  <2>2. CASE i # 1
    <3>1. i - 1 \in 1..Len(Tail(t)) /\ Tail(t)[i - 1] = t[i]
      BY <1>1, <2>2
    <3>. QED
      BY <3>1 DEF Members
  <2>. QED
    BY <2>1, <2>2
<1>4. ASSUME NEW i \in 1..Len(Tail(t)) PROVE Tail(t)[i] \in Members(t)
  <2>1. i + 1 \in 1..Len(t)
    BY <1>1
  <2>. QED
    BY <1>1, <2>1 DEF Members
<1>5. Head(t) \in Members(t)
  BY <1>1, <1>2 DEF Members
<1>. QED
  BY <1>3, <1>4, <1>5 DEF Members

\* Log and queue together stay the same line when the head is read.
LEMMA ReadKeepsLine ==
  ASSUME NEW S, NEW s \in Seq(S), NEW t \in Seq(S), t # <<>>
  PROVE  Append(s, Head(t)) \o Tail(t) = s \o t
<1>1. PICK h \in S : h = Head(t)
  BY HeadTailProperties
<1>2. /\ Tail(t) \in Seq(S) /\ Len(Tail(t)) = Len(t) - 1
      /\ \A i \in 1..Len(Tail(t)) : Tail(t)[i] = t[i + 1]
      /\ Len(t) \in Nat /\ Len(t) > 0 /\ h = t[1]
  BY <1>1, HeadTailProperties, EmptySeq
<1>3. <<h>> \in Seq(S) /\ Len(<<h>>) = 1 /\ <<h>>[1] = h
  OBVIOUS
<1>4. /\ <<h>> \o Tail(t) \in Seq(S) /\ Len(<<h>> \o Tail(t)) = 1 + Len(Tail(t))
      /\ \A i \in 1..1 + Len(Tail(t)) :
           (<<h>> \o Tail(t))[i] = IF i <= 1 THEN <<h>>[i] ELSE Tail(t)[i - 1]
  BY <1>2, <1>3, ConcatProperties
<1>5. ASSUME NEW i \in 1..Len(t) PROVE (<<h>> \o Tail(t))[i] = t[i]
  <2>1. CASE i = 1
    BY <1>2, <1>3, <1>4, <2>1
  <2>2. CASE i # 1
    <3>1. i - 1 \in 1..Len(Tail(t)) /\ i \in 1..1 + Len(Tail(t)) /\ i > 1
      BY <1>2, <2>2
    <3>. QED
      BY <1>2, <1>4, <3>1
  <2>. QED
    BY <2>1, <2>2
<1>6. t = <<h>> \o Tail(t)
  BY <1>2, <1>4, <1>5, SeqEqual
<1>7. Append(s, h) = s \o <<h>>
  BY AppendIsConcat
<1>8. (s \o <<h>>) \o Tail(t) = s \o (<<h>> \o Tail(t))
  BY <1>2, <1>3, ConcatAssociative
<1>. QED
  BY <1>1, <1>6, <1>7, <1>8

\* An element of the line is one of the log or of the queue.
LEMMA LineMembers ==
  ASSUME NEW S, NEW s \in Seq(S), NEW t \in Seq(S), NEW i \in 1..Len(s \o t)
  PROVE  (s \o t)[i] \in Members(s) \cup Members(t)
<1>1. /\ Len(s \o t) = Len(s) + Len(t)
      /\ (s \o t)[i] = IF i <= Len(s) THEN s[i] ELSE t[i - Len(s)]
      /\ Len(s) \in Nat /\ Len(t) \in Nat
  BY ConcatProperties
<1>2. i <= Len(s) => i \in 1..Len(s)
  BY <1>1
<1>3. ~(i <= Len(s)) => i - Len(s) \in 1..Len(t)
  BY <1>1
<1>. QED
  BY <1>1, <1>2, <1>3 DEF Members

\* What joins the queue joins the line at its end.
LEMMA AppendToLine ==
  ASSUME NEW S, NEW s \in Seq(S), NEW t \in Seq(S), NEW e \in S
  PROVE  s \o Append(t, e) = Append(s \o t, e)
<1>1. <<e>> \in Seq(S) /\ s \o t \in Seq(S)
  BY ConcatProperties
<1>2. Append(t, e) = t \o <<e>> /\ Append(s \o t, e) = (s \o t) \o <<e>>
  BY <1>1, AppendIsConcat
<1>. QED
  BY <1>1, <1>2, ConcatAssociative

\* A line that grows at its end, and only upwards, is still in order.
Ascending(line) == \A i \in 1..Len(line) - 1 : line[i] < line[i + 1]

\* A line in order that gets a greater number stays in order.
LEMMA AppendAscends ==
  ASSUME NEW S \in SUBSET Nat, NEW line \in Seq(S), NEW n \in S, Ascending(line),
         \A i \in 1..Len(line) : line[i] < n
  PROVE  Ascending(Append(line, n))
<1>1. /\ Len(Append(line, n)) = Len(line) + 1
      /\ \A i \in 1..Len(line) : Append(line, n)[i] = line[i]
      /\ Append(line, n)[Len(line) + 1] = n
      /\ Len(line) \in Nat
  BY AppendProperties
<1>2. ASSUME NEW i \in 1..Len(line)
      PROVE  Append(line, n)[i] < Append(line, n)[i + 1]
  <2>1. CASE i = Len(line)
    BY <1>1, <2>1
  <2>2. CASE i # Len(line)
    <3>1. i \in 1..Len(line) - 1 /\ i + 1 \in 1..Len(line)
      BY <1>1, <2>2
    <3>. QED
      BY <1>1, <3>1 DEF Ascending
  <2>. QED
    BY <2>1, <2>2
<1>. QED
  BY <1>1, <1>2 DEF Ascending

-----------------------------------------------------------------------------
(* Types. *)

\* The steps of the publishers and ZeroMQ, of the thread, and of its user.
NetworkStep == \E p \in Publishers :
  Joined(p) \/ SendToNobody(p) \/ Send(p) \/ SendToFull(p)
UserStep == Process \/ Close \/ Join \/ JoinReturns

\* A publisher the subscription has not reached sent everything to nobody: by
\* this the count of segments sent bounds that of the early ones.
AllEarly == \A p \in Publishers \ joined : early[p] = sent[p]

\* Every reachable state of the publishers, the pipes and the subscriber is of
\* the right type: no pipe ever holds more than its high water mark.
THEOREM TypeCorrect == Spec => [](TypeOK /\ AllEarly)
<1>1. Init => TypeOK /\ AllEarly
  <2>. SUFFICES ASSUME Init PROVE TypeOK /\ AllEarly
    OBVIOUS
  <2>1. 0 \in 0..MaxSegments /\ 0 \in 0..MaxRuns /\ 0 <= HighWater
    BY TransportAssumption
  <2>2. <<>> \in Seq(1..MaxSegments) /\ Len(<<>>) = 0
    OBVIOUS
  <2>3. \A p \in Publishers : Len(pipe[p]) <= HighWater
    BY <2>1 DEF Init
  <2>. QED
    BY <2>1, <2>2, <2>3 DEF Init, TypeOK, AllEarly
<1>2. TypeOK /\ AllEarly /\ [Next]_vars => TypeOK' /\ AllEarly'
  <2>. SUFFICES ASSUME TypeOK, AllEarly, [Next]_vars PROVE TypeOK' /\ AllEarly'
    OBVIOUS
  <2>1. ASSUME NEW p \in Publishers, Joined(p) PROVE TypeOK' /\ AllEarly'
    BY <2>1 DEF Joined, TypeOK, AllEarly, user
  <2>2. ASSUME NEW p \in Publishers, SendToNobody(p)
        PROVE  TypeOK' /\ AllEarly'
    <3>1. /\ sent' = [sent EXCEPT ![p] = sent[p] + 1]
          /\ early' = [early EXCEPT ![p] = sent[p] + 1]
          /\ sent[p] + 1 \in 0..MaxSegments
      <4>1. early[p] = sent[p] /\ sent[p] \in Nat /\ sent[p] < MaxSegments
        BY <2>2 DEF SendToNobody, Publish, TypeOK, AllEarly
      <4>2. sent[p] + 1 \in 0..MaxSegments
        BY <4>1, TransportAssumption
      <4>. QED
        BY <2>2, <4>1, <4>2 DEF SendToNobody, Publish
    <3>. QED
      BY <2>2, <3>1 DEF SendToNobody, Publish, TypeOK, AllEarly, user
  <2>3. ASSUME NEW p \in Publishers, Send(p) PROVE TypeOK' /\ AllEarly'
    <3>1. sent[p] + 1 \in 1..MaxSegments /\ sent[p] + 1 \in 0..MaxSegments
      BY <2>3, TransportAssumption DEF Send, Publish, TypeOK
    <3>2. /\ Append(pipe[p], sent[p] + 1) \in Seq(1..MaxSegments)
          /\ Len(Append(pipe[p], sent[p] + 1)) <= HighWater
      BY <2>3, <3>1, AppendProperties, TransportAssumption DEF Send, TypeOK
    <3>. QED
      BY <2>3, <3>1, <3>2 DEF Send, Publish, TypeOK, AllEarly, user
  <2>4. ASSUME NEW p \in Publishers, SendToFull(p) PROVE TypeOK' /\ AllEarly'
    <3>1. sent[p] + 1 \in 1..MaxSegments /\ sent[p] + 1 \in 0..MaxSegments
      BY <2>4, TransportAssumption DEF SendToFull, Publish, TypeOK
    <3>. QED
      BY <2>4, <3>1 DEF SendToFull, Publish, TypeOK, AllEarly, user
  <2>5. CASE Test \/ Timeout
    BY <2>5 DEF Test, Timeout, TypeOK, AllEarly, user, network
  <2>6. ASSUME NEW p \in Publishers, Deliver(p) PROVE TypeOK' /\ AllEarly'
    <3>1. /\ Head(pipe[p]) \in 1..MaxSegments
          /\ Tail(pipe[p]) \in Seq(1..MaxSegments)
          /\ Len(Tail(pipe[p])) <= HighWater
      BY <2>6, HeadTailProperties, TransportAssumption DEF Deliver, TypeOK
    <3>2. received' \in [Publishers -> Seq(1..MaxSegments)]
      BY <2>6, <3>1 DEF Deliver, TypeOK
    <3>. QED
      BY <2>6, <3>1, <3>2 DEF Deliver, TypeOK, AllEarly, user, network
  <2>7. CASE UserStep
    <3>1. UNCHANGED <<network, pipe, received>>
      BY <2>7 DEF UserStep, Process, Close, Join, JoinReturns
    <3>2. thread' \in {"none", "test", "wait", "ended"}
      BY <2>7 DEF UserStep, Process, Close, Join, JoinReturns, TypeOK
    <3>3. shutdownPlox' \in BOOLEAN /\ joining' \in BOOLEAN
          /\ terminated' \in BOOLEAN
      BY <2>7 DEF UserStep, Process, Close, Join, JoinReturns, TypeOK
    <3>4. runs' \in 0..MaxRuns /\ closes' \in Nat /\ late' \in Nat
      BY <2>7, TransportAssumption
      DEF UserStep, Process, Close, Join, JoinReturns, TypeOK
    <3>. QED
      BY <3>1, <3>2, <3>3, <3>4 DEF TypeOK, AllEarly, network
  <2>8. CASE UNCHANGED vars
    BY <2>8 DEF vars, TypeOK, AllEarly
  <2>. QED
    BY <2>1, <2>2, <2>3, <2>4, <2>5, <2>6, <2>7, <2>8
    DEF Next, Poll, UserStep
<1>. QED
  BY <1>1, <1>2, PTL DEF Spec

-----------------------------------------------------------------------------
(* Where segments are, and what was lost. *)

\* The steps of the thread but Deliver, and those of its user, move nothing.
LEMMA QuietSteps ==
  ASSUME UserStep \/ Test \/ Timeout \/ UNCHANGED vars
  PROVE  UNCHANGED <<network, pipe, received>>
BY DEF UserStep, Process, Close, Join, JoinReturns, Test, Timeout, vars, network

\* For every capacity of the pipes, a publisher's segments are received, on
\* their way, or lost because the subscription had not arrived or the pipe was
\* full (publisher.send in ZmqSegmentPublisher::process).
THEOREM LossCorrect == Spec => []LossHasCause
<1>1. Init => LossHasCause
  <2>1. Members(<<>>) = {} /\ 1..0 = {}
    BY DEF Members
  <2>. QED
    BY <2>1 DEF Init, LossHasCause
<1>2. TypeOK /\ AllEarly /\ LossHasCause /\ [Next]_vars
        => LossHasCause'
  <2>. SUFFICES ASSUME TypeOK, AllEarly, LossHasCause, [Next]_vars
                PROVE  LossHasCause'
    OBVIOUS
  <2>1. ASSUME NEW p \in Publishers, Joined(p)
        PROVE  LossHasCause'
    BY <2>1 DEF Joined, LossHasCause, Members
  <2>2. ASSUME NEW p \in Publishers, SendToNobody(p)
        PROVE  LossHasCause'
    <3>1. /\ sent' = [sent EXCEPT ![p] = @ + 1]
          /\ early' = [early EXCEPT ![p] = @ + 1]
          /\ UNCHANGED <<joined, overflow, pipe, received>>
      BY <2>2 DEF SendToNobody, Publish
    <3>2. sent[p] \in Nat /\ early[p] = sent[p]
      BY <2>2 DEF SendToNobody, AllEarly, TypeOK
    <3>3. 1..(sent[p] + 1) = 1..sent[p] \cup {sent[p] + 1}
      BY <3>2
    <3>5. ASSUME NEW q \in Publishers
          PROVE  1..sent'[q] = 1..early'[q] \cup overflow'[q]
                       \cup Members(received'[q]) \cup Members(pipe'[q])
      <4>1. 1..sent[q] = 1..early[q] \cup overflow[q]
                         \cup Members(received[q]) \cup Members(pipe[q])
        BY DEF LossHasCause
      <4>2. CASE q = p
        <5>1. sent'[q] = sent[p] + 1 /\ early'[q] = sent[p] + 1
          BY <3>1, <3>2, <4>2 DEF TypeOK
        <5>. QED
          BY <3>1, <3>2, <3>3, <4>1, <4>2, <5>1
      <4>3. CASE q # p
        <5>1. sent'[q] = sent[q] /\ early'[q] = early[q]
          BY <3>1, <4>3 DEF TypeOK
        <5>. QED
          BY <3>1, <4>1, <5>1
      <4>. QED
        BY <4>2, <4>3
    <3>. QED
      BY <3>5 DEF LossHasCause
  <2>3. ASSUME NEW p \in Publishers, Send(p) \/ SendToFull(p)
        PROVE  LossHasCause'
    <3>1. /\ sent' = [sent EXCEPT ![p] = @ + 1] /\ p \in joined
          /\ UNCHANGED <<joined, early, received>>
          /\ sent[p] \in Nat /\ sent[p] + 1 \in 1..MaxSegments
      BY <2>3, TransportAssumption
      DEF Send, SendToFull, Publish, TypeOK
    <3>2. 1..(sent[p] + 1) = 1..sent[p] \cup {sent[p] + 1}
      BY <3>1
    <3>4. /\ overflow'[p] \cup Members(pipe'[p])
               = overflow[p] \cup Members(pipe[p]) \cup {sent[p] + 1}
          /\ \A q \in Publishers \ {p} :
               overflow'[q] = overflow[q] /\ pipe'[q] = pipe[q]
      <4>1. CASE Send(p)
        <5>. PICK n \in 1..MaxSegments : n = sent[p] + 1
          BY <3>1
        <5>. DEFINE S == 1..MaxSegments
        <5>0. pipe[p] \in Seq(S) /\ n \in S
          BY DEF TypeOK
        <5>. HIDE DEF S
        <5>1. Members(Append(pipe[p], n)) = Members(pipe[p]) \cup {n}
          BY <5>0, AppendMembers
        <5>2. /\ pipe'[p] = Append(pipe[p], sent[p] + 1) /\ overflow' = overflow
              /\ \A q \in Publishers \ {p} : pipe'[q] = pipe[q]
          BY <4>1 DEF Send, TypeOK
        <5>. QED
          BY <5>1, <5>2
      <4>2. CASE SendToFull(p)
        <5>1. /\ overflow'[p] = overflow[p] \cup {sent[p] + 1} /\ pipe' = pipe
              /\ \A q \in Publishers \ {p} : overflow'[q] = overflow[q]
          BY <4>2 DEF SendToFull, TypeOK
        <5>. QED
          BY <5>1
      <4>. QED
        BY <2>3, <4>1, <4>2
    <3>5. ASSUME NEW q \in Publishers
          PROVE  1..sent'[q] = 1..early'[q] \cup overflow'[q]
                       \cup Members(received'[q]) \cup Members(pipe'[q])
      <4>1. 1..sent[q] = 1..early[q] \cup overflow[q]
                         \cup Members(received[q]) \cup Members(pipe[q])
        BY DEF LossHasCause
      <4>2. CASE q = p
        <5>1. sent'[q] = sent[p] + 1
          BY <3>1, <4>2 DEF TypeOK
        <5>. QED
          BY <3>1, <3>2, <3>4, <4>1, <4>2, <5>1
      <4>3. CASE q # p
        <5>1. sent'[q] = sent[q]
          BY <3>1, <4>3 DEF TypeOK
        <5>. QED
          BY <3>1, <3>4, <4>1, <4>3, <5>1
      <4>. QED
        BY <4>2, <4>3
    <3>. QED
      BY <3>5 DEF LossHasCause
  <2>4. ASSUME NEW p \in Publishers, Deliver(p)
        PROVE  LossHasCause'
    <3>1. UNCHANGED <<joined, sent, early, overflow>>
      BY <2>4 DEF Deliver, network
    <3>2. PICK h \in 1..MaxSegments : h = Head(pipe[p])
      BY <2>4, HeadTailProperties DEF Deliver, TypeOK
    <3>3. /\ Members(Append(received[p], h)) = Members(received[p]) \cup {h}
          /\ Members(pipe[p]) = {h} \cup Members(Tail(pipe[p]))
      BY <2>4, <3>2, AppendMembers, TailMembers DEF Deliver, TypeOK
    <3>4. /\ received'[p] = Append(received[p], h)
          /\ pipe'[p] = Tail(pipe[p])
          /\ \A q \in Publishers \ {p} :
               received'[q] = received[q] /\ pipe'[q] = pipe[q]
      BY <2>4, <3>2 DEF Deliver, TypeOK
    <3>5. \A q \in Publishers :
            Members(received'[q]) \cup Members(pipe'[q])
              = Members(received[q]) \cup Members(pipe[q])
      BY <3>3, <3>4
    <3>. QED
      BY <3>1, <3>5 DEF LossHasCause
  <2>5. CASE UserStep \/ Test \/ Timeout \/ UNCHANGED vars
    BY <2>5, QuietSteps DEF network, LossHasCause
  <2>. QED
    BY <2>1, <2>2, <2>3, <2>4, <2>5 DEF Next, Poll, UserStep
<1>. QED
  BY <1>1, <1>2, TypeCorrect, PTL DEF Spec

-----------------------------------------------------------------------------
(* Order. *)

\* What a publisher's subscriber has, and then what is under way to it.
Line(p) == received[p] \o pipe[p]

\* The numbers of the segments.
Numbers == 1..MaxSegments

\* Such a line is made of segments.
LEMMA LineTypes ==
  ASSUME TypeOK, NEW p \in Publishers
  PROVE  /\ received[p] \in Seq(Numbers) /\ pipe[p] \in Seq(Numbers)
         /\ Line(p) \in Seq(Numbers)
<1>1. received[p] \in Seq(Numbers) /\ pipe[p] \in Seq(Numbers)
  BY DEF TypeOK, Numbers
<1>. QED
  BY <1>1, ConcatProperties DEF Line

\* No segment in the line is younger than the last one its publisher was given:
\* the next to be sent is younger than all of them.
LEMMA LineBelowSent ==
  ASSUME TypeOK, LossHasCause, NEW p \in Publishers
  PROVE  \A i \in 1..Len(Line(p)) : Line(p)[i] < sent[p] + 1
<1>1. received[p] \in Seq(Numbers) /\ pipe[p] \in Seq(Numbers)
  BY LineTypes
<1>2. sent[p] \in Nat
  BY DEF TypeOK
<1>3. Members(received[p]) \cup Members(pipe[p]) \subseteq 1..sent[p]
  BY DEF LossHasCause
<1>4. ASSUME NEW i \in 1..Len(Line(p)) PROVE Line(p)[i] \in 1..sent[p]
  BY <1>1, <1>3, LineMembers DEF Line
<1>. QED
  BY <1>2, <1>4

\* For every capacity of the pipes and however the publishers' messages are
\* interleaved, the segments of a publisher are signalled in the order it was
\* given them, and none twice.
THEOREM OrderCorrect == Spec => []InOrder
<1>. DEFINE Ordered == \A p \in Publishers : Ascending(Line(p))
<1>1. InOrder <=> Ordered
  BY DEF InOrder, Line, Ascending
<1>2. Init => Ordered
  <2>. SUFFICES ASSUME Init, NEW p \in Publishers PROVE Ascending(Line(p))
    OBVIOUS
  <2>1. Line(p) = <<>> \o <<>>
    BY DEF Init, Line
  <2>2. <<>> \in Seq(Nat) /\ Len(<<>>) = 0
    OBVIOUS
  <2>3. Len(Line(p)) = 0
    BY <2>1, <2>2, ConcatProperties
  <2>. QED
    BY <2>3 DEF Ascending
<1>3. TypeOK /\ LossHasCause /\ Ordered /\ [Next]_vars => Ordered'
  <2>. SUFFICES ASSUME TypeOK, LossHasCause, Ordered, [Next]_vars,
                       NEW q \in Publishers
                PROVE  Ascending(Line(q)')
    BY DEF Ascending
  <2>1. ASSUME NEW p \in Publishers, Joined(p) \/ SendToNobody(p) \/ SendToFull(p)
        PROVE  Line(q)' = Line(q)
    BY <2>1 DEF Joined, SendToNobody, SendToFull, Publish, Line
  <2>2. ASSUME NEW p \in Publishers, Send(p)
        PROVE  Ascending(Line(q)')
    <3>1. /\ received' = received
          /\ pipe' = [pipe EXCEPT ![p] = Append(pipe[p], sent[p] + 1)]
      BY <2>2 DEF Send, Publish
    <3>2. CASE q # p
      <4>1. Line(q)' = Line(q)
        BY <3>1, <3>2 DEF Line, TypeOK
      <4>. QED
        BY <4>1
    <3>3. CASE q = p
      <4>. DEFINE n == sent[p] + 1
      <4>1. n \in Numbers
        BY <2>2, TransportAssumption DEF Send, Publish, TypeOK, Numbers
      <4>2. \A i \in 1..Len(Line(p)) : Line(p)[i] < n
        BY LineBelowSent
      <4>3. Line(q)' = received[p] \o Append(pipe[p], n)
        BY <3>1, <3>3 DEF Line, TypeOK
      <4>. HIDE DEF n
      <4>4. received[p] \o Append(pipe[p], n) = Append(Line(p), n)
        <5>1. received[p] \in Seq(Numbers) /\ pipe[p] \in Seq(Numbers)
          BY LineTypes
        <5>2. \A s, t \in Seq(Numbers) : s \o Append(t, n) = Append(s \o t, n)
          BY <4>1, AppendToLine
        <5>. QED
          BY <5>1, <5>2 DEF Line
      <4>5. Ascending(Append(Line(p), n))
        <5>1. Numbers \in SUBSET Nat
          BY DEF Numbers
        <5>. QED
          BY <4>1, <4>2, <5>1, LineTypes, AppendAscends
      <4>. QED
        BY <4>3, <4>4, <4>5
    <3>. QED
      BY <3>2, <3>3
  <2>3. ASSUME NEW p \in Publishers, Deliver(p)
        PROVE  Line(q)' = Line(q)
    <3>1. /\ pipe' = [pipe EXCEPT ![p] = Tail(pipe[p])] /\ pipe[p] # <<>>
          /\ received' = [received EXCEPT ![p] = Append(received[p], Head(pipe[p]))]
      BY <2>3 DEF Deliver
    <3>2. Append(received[p], Head(pipe[p])) \o Tail(pipe[p])
            = received[p] \o pipe[p]
      BY <3>1, LineTypes, ReadKeepsLine
    <3>. QED
      BY <3>1, <3>2 DEF Line, TypeOK
  <2>4. CASE UserStep \/ Test \/ Timeout \/ UNCHANGED vars
    <3>1. Line(q)' = Line(q)
      BY <2>4, QuietSteps DEF Line
    <3>. QED
      BY <3>1
  <2>. QED
    BY <2>1, <2>2, <2>3, <2>4 DEF Next, Poll, UserStep
<1>. QED
  BY <1>1, <1>2, <1>3, TypeCorrect, LossCorrect, PTL DEF Spec

-----------------------------------------------------------------------------
(* Closing. *)

\* The flag, once set, stays; the thread that found it unset is in its wait()
\* and signals at most one segment before it tests the flag again.
CloseInv == shutdownPlox => late \in 0..1 /\ (thread = "wait" => late = 0)

\* After close(), at most one more segment is signalled, for every capacity of
\* the pipes and whatever is on its way (the loop of processPrivately() tests
\* shutdownPlox before each wait).
THEOREM CloseCorrect == Spec => []OneAfterClose
<1>1. Init => CloseInv
  BY DEF Init, CloseInv
<1>2. TypeOK /\ CloseInv /\ [Next]_vars => CloseInv'
  <2>. SUFFICES ASSUME TypeOK, CloseInv, [Next]_vars PROVE CloseInv'
    OBVIOUS
  <2>1. CASE NetworkStep
    BY <2>1
    DEF NetworkStep, Joined, SendToNobody, Send, SendToFull, Publish, user, CloseInv
  <2>2. CASE Test \/ Timeout
    BY <2>2 DEF Test, Timeout, user, CloseInv
  <2>3. ASSUME NEW p \in Publishers, Deliver(p) PROVE CloseInv'
    BY <2>3 DEF Deliver, user, CloseInv
  <2>4. CASE UserStep
    <3>1. CASE Process
      BY <3>1 DEF Process, CloseInv
    <3>2. CASE Close
      BY <3>2 DEF Close, CloseInv
    <3>3. CASE Join \/ JoinReturns
      BY <3>3 DEF Join, JoinReturns, CloseInv
    <3>. QED
      BY <2>4, <3>1, <3>2, <3>3 DEF UserStep
  <2>5. CASE UNCHANGED vars
    BY <2>5 DEF vars, CloseInv
  <2>. QED
    BY <2>1, <2>2, <2>3, <2>4, <2>5 DEF Next, Poll, NetworkStep, UserStep
<1>3. CloseInv => OneAfterClose
  BY DEF CloseInv, OneAfterClose
<1>. QED
  BY <1>1, <1>2, <1>3, TypeCorrect, PTL DEF Spec
=============================================================================
