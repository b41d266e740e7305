----------------------------- MODULE Transcode -----------------------------
(***************************************************************************)
(* fr::media2::Decoder and fr::media2::Encoder on one Stream: the thread   *)
(* that forwards packets runs Decoder::process, which runs the Encoder's   *)
(* slot for every frame, which signals the packets it gets, all nested in  *)
(* one call.  Another thread subscribes the two, as often as it likes.  A  *)
(* codec (libavcodec) holds back up to its delay and says how much of what *)
(* it holds is ready; an encoder may reorder (B-frames: EncoderTest.cpp:42 *)
(* encodes with libx264).                                                  *)
(***************************************************************************)
EXTENDS Integers, Sequences

CONSTANTS
  MaxPackets,                  \* bound on the packets the stream forwards
  FramesUpTo,                  \* the frames that the first p packets decode to
  DecoderDelay, EncoderDelay,  \* frames a codec holds back when not flushed
  MaxSlots,                    \* bound on the slots connected to one signal
  MaxErrors                    \* bound on the errors a codec reports

ASSUME TranscodeAssumption ==
  /\ {MaxPackets, MaxSlots, MaxErrors} \subseteq Nat
  /\ DecoderDelay \in Nat /\ EncoderDelay \in Nat
  /\ FramesUpTo \in [0..MaxPackets -> Nat] /\ FramesUpTo[0] = 0
  /\ \A p, q \in 0..MaxPackets : p <= q => FramesUpTo[p] <= FramesUpTo[q]

VARIABLES
  source,     \* who made the Stream: "reader", "unpacker", or a reader that
              \* could not open the codec and left the "dataless" one
  careful,    \* does the user subscribe only before playing, decoder first?
  reorders,   \* does the Encoder's codec give packets in decoding order?
  slots,      \* of each Decoder, the slots connected to the Stream
  known,      \* do the first Decoder's parameters say what it decodes?
  links,      \* the Encoder's slots connected to the first Decoder
  encoder,    \* its context: "null", "unopened" or "open"
  building,   \* what Encoder::subscribe does next: "no", "context" or "open"
  codec,      \* the codec of the Encoder: "none", "named" or "source"
  playing,
  read,       \* packets forwarded
  pc,         \* the forwarding thread: "idle", or where in the nested calls
  turn,       \* the Decoder whose process() runs
  calls,      \* of each Decoder, its slots that the packet has yet to run
  runs,       \* the Encoder's slots that the frame has yet to run
  dec,        \* the Stream's codec context, shared by its Decoders
  frame,      \* workingFrame while an Encoder's slot runs
  enc,        \* the Encoder's codec context
  decoded,    \* has the first Decoder signalled a frame?
  out,        \* the packets the Encoder signalled, named by their frames, as
              \* long as twice is false
  errors,
  twice,      \* was a packet or a frame signalled to two slots?
  crashed     \* "no", "nullData", "nullContext", "freed" or "terminate"

setup == <<source, careful, reorders>>
encoding == <<encoder, building, codec>>
graph == <<slots, known, links, encoding, playing>>
emission == <<calls, runs>>
work == <<read, pc, turn, dec, frame, decoded, out, errors, twice>>
vars == <<setup, graph, emission, work, enc, crashed>>

\* A codec context: the frames it holds and how many it has ready; a send makes
\* ready all but at most the delay.  It gives the i-th: the first, unless it is
\* an encoder's that reorders.
Fresh == [held |-> <<>>, ready |-> 0]
Accept(context, frames, delay) ==
  LET all == context.held \o frames IN
    {[held |-> all, ready |-> r] :
       r \in {n \in context.ready..Len(all) : Len(all) - n <= delay}}
Remove(s, i) == SubSeq(s, 1, i - 1) \o SubSeq(s, i + 1, Len(s))
Give(context, i) ==
  [held |-> Remove(context.held, i), ready |-> context.ready - 1]
Choices == IF reorders THEN 1..Len(enc.held) ELSE 1..1

\* A frame is its number in the order its Decoder signals it; a packet decodes
\* to any number of them.
FramesOf(p) ==
  [i \in 1..FramesUpTo[p] - FramesUpTo[p - 1] |-> FramesUpTo[p - 1] + i]
Frame == 1..FramesUpTo[MaxPackets]
Decoders == 1..2
Nobody == [d \in Decoders |-> 0]

Context(context) ==
  /\ context.held \in Seq(Frame)
  /\ context.ready \in 0..Len(context.held)

TypeOK ==
  /\ source \in {"reader", "unpacker", "dataless"}
  /\ {careful, reorders, known, playing, decoded, twice} \subseteq BOOLEAN
  /\ {slots, calls} \subseteq [Decoders -> 0..MaxSlots]
  /\ {links, runs} \subseteq 0..MaxSlots
  /\ encoder \in {"null", "unopened", "open"}
  /\ building \in {"no", "context", "open"}
  /\ codec \in {"none", "named", "source"}
  /\ read \in 0..MaxPackets /\ turn \in Decoders
  /\ pc \in {"idle", "send", "receive", "encode", "drain"}
  /\ Context(dec) /\ Context(enc)
  /\ frame \in Frame \cup {0} /\ out \in Seq(Frame)
  /\ errors \in 0..MaxErrors
  /\ crashed \in {"no", "nullData", "nullContext", "freed", "terminate"}

Init ==
  /\ source \in {"reader", "unpacker", "dataless"}
  /\ careful \in BOOLEAN /\ reorders \in BOOLEAN
  /\ slots = Nobody /\ known = FALSE /\ links = 0
  /\ encoder = "null" /\ building = "no"
  /\ codec \in {"none", "named"}
  /\ playing = FALSE /\ read = 0 /\ pc = "idle" /\ turn = 1
  /\ calls = Nobody /\ runs = 0
  /\ dec = Fresh /\ frame = 0 /\ enc = Fresh /\ decoded = FALSE /\ out = <<>>
  /\ errors = 0 /\ twice = FALSE /\ crashed = "no"

-----------------------------------------------------------------------------
(* The user's thread. *)

\* A careful user builds the chain before playing.
MayBuild == crashed = "no" /\ (careful => ~playing)

\* Decoder::subscribeCallback: a Stream made for segments has no AVStream, so
\* its parameters are not copied.
SubscribeCallback(d) == known' = (known \/ (d = 1 /\ source = "reader"))

\* PacketSubscriber::subscribe connects one more slot, whatever is connected; a
\* Stream without data is dereferenced.
SubscribeDecoder(d) ==
  /\ MayBuild /\ building = "no" /\ slots[1] + slots[2] < MaxSlots
  /\ slots' = [slots EXCEPT ![d] = @ + 1]
  /\ SubscribeCallback(d)
  /\ crashed' = IF source = "dataless" THEN "nullData" ELSE "no"
  /\ UNCHANGED <<setup, links, encoding, playing, emission, work, enc>>

\* PacketSubscriber::unsubscribe: a slot that runs goes on, one that the packet
\* has yet to run is passed over.
UnsubscribeDecoder(d) ==
  /\ MayBuild /\ building = "no" /\ slots[d] > 0
  /\ slots' = [slots EXCEPT ![d] = 0] /\ calls' = [calls EXCEPT ![d] = 0]
  /\ UNCHANGED <<setup, known, links, encoding, playing, runs, work, enc,
                 crashed>>

\* FrameSubscriber::subscribe connects one more slot first, which stays when the
\* rest throws (Encoder.cpp:74-76 only warns of a second one) ...
ConnectEncoder ==
  /\ MayBuild /\ building = "no" /\ links < MaxSlots /\ (careful => known)
  /\ links' = links + 1 /\ building' = "context"
  /\ UNCHANGED <<setup, slots, known, encoder, codec, playing, emission, work,
                 enc, crashed>>

\* ... then Encoder::subscribeCallback picks the codec of the source, whatever
\* name the constructor was given, and allocates a context, freeing the one a
\* frame may be encoded with, or throws ...
EncoderContext ==
  /\ MayBuild /\ building = "context"
  /\ codec' = IF known THEN "source" ELSE "none"
  /\ \/ /\ encoder' = "unopened" /\ enc' = Fresh /\ building' = "open"
        /\ \/ UNCHANGED crashed
           \/ /\ pc \in {"encode", "drain"} /\ encoder # "null"
              /\ crashed' = "freed"
     \/ building' = "no" /\ UNCHANGED <<encoder, enc, crashed>>
  /\ UNCHANGED <<setup, slots, known, links, playing, emission, work>>

\* ... and opens it, which throws without a codec and may throw with one.
EncoderOpen ==
  /\ MayBuild /\ building = "open" /\ building' = "no"
  /\ encoder' \in {encoder} \cup IF codec = "source" THEN {"open"} ELSE {}
  /\ UNCHANGED <<setup, slots, known, links, codec, playing, emission, work,
                 enc, crashed>>

\* FrameSubscriber::unsubscribe: the Encoder keeps its context.
UnsubscribeEncoder ==
  /\ MayBuild /\ building = "no" /\ links > 0
  /\ links' = 0 /\ runs' = 0
  /\ UNCHANGED <<setup, slots, known, encoding, playing, calls, work, enc,
                 crashed>>

\* A careful user plays a chain whose Encoder has opened, or Decoders alone.
Play ==
  /\ crashed = "no" /\ ~playing
  /\ careful => building = "no" /\ (links > 0 => encoder = "open" /\ slots[1] > 0)
  /\ playing' = TRUE
  /\ UNCHANGED <<setup, slots, known, links, encoding, emission, work, enc,
                 crashed>>

-----------------------------------------------------------------------------
(* The forwarding thread. *)

At(where) == pc = where /\ crashed = "no"

\* A signal runs the slots that were connected when it was emitted and still
\* are, one after the other; which is first is left open.
Call(left) ==
  IF left = Nobody
  THEN pc' = "idle" /\ calls' = left /\ turn' = 1
  ELSE \E d \in Decoders :
         /\ left[d] > 0 /\ calls' = [left EXCEPT ![d] = @ - 1]
         /\ turn' = d /\ pc' = "send"

\* stream->forward(packet) emits the Stream's signal.
Read ==
  /\ At("idle") /\ playing /\ read < MaxPackets
  /\ read' = read + 1 /\ Call(slots)
  /\ twice' = (twice \/ slots[1] + slots[2] > 1)
  /\ UNCHANGED <<setup, graph, runs, dec, frame, enc, decoded, out, errors,
                 crashed>>

\* A Decoder returns to the signal.
Return == Call(calls)

\* Only a reader opens the context it makes; StreamData(Segment*) does not.
Opened == source = "reader"

\* avcodec_send_packet: a context that was never opened refuses every packet,
\* an open one may refuse while it has output ready.  A packet that is refused,
\* or fails, is lost without a word.
Send ==
  /\ At("send")
  /\ \/ /\ Opened /\ dec' \in Accept(dec, FramesOf(read), DecoderDelay)
        /\ pc' = "receive" /\ UNCHANGED <<turn, calls, errors>>
     \/ /\ ~Opened \/ dec.ready > 0
        /\ Return /\ UNCHANGED <<dec, errors>>
     \/ errors < MaxErrors /\ errors' = errors + 1 /\ Return /\ UNCHANGED dec
  /\ UNCHANGED <<setup, graph, runs, read, frame, enc, decoded, out, twice,
                 crashed>>

\* The loop of Decoder::process: a frame goes to the slots connected to this
\* Decoder; nothing ready, or an error, ends the loop.
Receive ==
  /\ At("receive")
  /\ \/ /\ dec.ready > 0 /\ dec' = Give(dec, 1)
        /\ decoded' = (decoded \/ turn = 1)
        /\ IF turn = 1 /\ links > 0
           THEN /\ frame' = dec.held[1] /\ pc' = "encode"
                /\ runs' = links - 1 /\ twice' = (twice \/ links > 1)
           ELSE UNCHANGED <<frame, pc, runs, twice>>
        /\ UNCHANGED <<turn, calls, errors>>
     \/ /\ dec.ready > 0 /\ errors < MaxErrors
        /\ dec' = Give(dec, 1) /\ errors' = errors + 1
        /\ Return /\ UNCHANGED <<frame, runs, decoded, twice>>
     \/ /\ dec.ready = 0
        /\ Return /\ UNCHANGED <<dec, frame, runs, decoded, errors, twice>>
  /\ UNCHANGED <<setup, graph, read, enc, out, crashed>>

\* Encoder::process up to avcodec_send_frame: the context is used unchecked,
\* and an error throws through the signals out of the thread.
Encode ==
  /\ At("encode")
  /\ \/ /\ encoder = "null" /\ crashed' = "nullContext"
        /\ UNCHANGED <<enc, pc, errors>>
     \/ /\ encoder = "unopened" \/ enc.ready > 0
        /\ crashed' = "terminate" /\ UNCHANGED <<enc, pc, errors>>
     \/ /\ encoder # "null" /\ errors < MaxErrors /\ errors' = errors + 1
        /\ crashed' = "terminate" /\ UNCHANGED <<enc, pc>>
     \/ /\ encoder = "open" /\ enc' \in Accept(enc, <<frame>>, EncoderDelay)
        /\ pc' = "drain" /\ UNCHANGED <<crashed, errors>>
  /\ UNCHANGED <<setup, graph, emission, read, turn, dec, frame, decoded, out,
                 twice>>

\* Encoder::process returns to the frames signal, which runs its next slot with
\* the same frame.
NextRun ==
  IF runs = 0 THEN pc' = "receive" /\ frame' = 0 /\ UNCHANGED runs
              ELSE pc' = "encode" /\ runs' = runs - 1 /\ UNCHANGED frame

Signal ==
  \E i \in Choices :
    /\ out' = IF twice THEN out ELSE Append(out, enc.held[i])
    /\ enc' = Give(enc, i)

\* Mutants: one packet is received for each frame; the last packet is signalled
\* again when there is no more; the loop does not end.
DrainOne ==
  /\ At("drain") /\ NextRun
  /\ IF enc.ready > 0 THEN Signal ELSE UNCHANGED <<out, enc>>
  /\ UNCHANGED <<setup, graph, calls, read, turn, dec, decoded, errors, twice,
                 crashed>>

DrainRepeats ==
  /\ At("drain")
  /\ IF enc.ready > 0
     THEN Signal /\ UNCHANGED <<pc, runs, frame>>
     ELSE /\ NextRun /\ UNCHANGED enc
          /\ out' = IF out = <<>> THEN out ELSE Append(out, out[Len(out)])
  /\ UNCHANGED <<setup, graph, calls, read, turn, dec, decoded, errors, twice,
                 crashed>>

DrainForever ==
  /\ At("drain") /\ enc.ready > 0 /\ Signal
  /\ UNCHANGED <<setup, graph, emission, read, pc, turn, dec, frame, decoded,
                 errors, twice, crashed>>

\* The loop of Encoder::process: each packet is signalled; an error throws, and
\* so does a context that was made meanwhile and is not open yet.
Drain ==
  /\ At("drain")
  /\ \/ enc.ready > 0 /\ Signal /\ UNCHANGED <<pc, frame, runs, errors, crashed>>
     \/ /\ enc.ready > 0 /\ errors < MaxErrors
        /\ errors' = errors + 1 /\ crashed' = "terminate"
        /\ UNCHANGED <<pc, frame, runs, enc, out>>
     \/ /\ encoder = "unopened" /\ crashed' = "terminate"
        /\ UNCHANGED <<pc, frame, runs, enc, out, errors>>
     \/ /\ encoder # "unopened" /\ enc.ready = 0 /\ NextRun
        /\ UNCHANGED <<enc, out, errors, crashed>>
  /\ UNCHANGED <<setup, graph, calls, read, turn, dec, decoded, twice>>

Subscriptions ==
  \/ \E d \in Decoders : SubscribeDecoder(d) \/ UnsubscribeDecoder(d)
  \/ ConnectEncoder \/ EncoderContext \/ EncoderOpen \/ UnsubscribeEncoder
Forwarding == Read \/ Send \/ Receive \/ Encode \/ Drain
Next == Subscriptions \/ Play \/ Forwarding

Spec == Init /\ [][Next]_vars

\* The forwarding thread is scheduled; nothing makes the user act.
FairSpec == Spec /\ WF_vars(Forwarding)

-----------------------------------------------------------------------------
(* Properties. *)

\* A chain with one slot at each signal.
Chained ==
  /\ source = "reader" /\ careful
  /\ slots = [Nobody EXCEPT ![1] = 1] /\ links = 1
Finished == read = MaxPackets /\ pc = "idle"
Entered == IF pc = "send" THEN read - 1 ELSE read
Working == IF pc = "encode" THEN <<frame>> ELSE <<>>
Coming == Working \o dec.held
Pipeline == out \o enc.held \o Coming

Increasing(s) == \A i, j \in 1..Len(s) : i < j => s[i] < s[j]
Distinct(s) == \A i, j \in 1..Len(s) : i # j => s[i] # s[j]
Below(s, t) == \A i \in 1..Len(s), j \in 1..Len(t) : s[i] < t[j]

\* While each signal has had one slot at a time to run, no frame is encoded
\* twice, whatever fails and whoever subscribes or unsubscribes in between: what
\* the Encoder's codec holds, the frame between the codecs and what the
\* decoder's holds are in order, and each packet that is out belongs to another
\* frame, before all those the Encoder has not seen; with a codec that does not
\* reorder the packets are in the order of their frames (Decoder.cpp:31-40,
\* Encoder.cpp:59-70).
InOrder ==
  ~twice =>
    /\ Increasing(enc.held \o Coming)
    /\ Distinct(out \o enc.held) /\ Below(out, Coming)
    /\ ~reorders => Increasing(out \o enc.held)

\* Until a codec reports an error, a chain built before playing loses nothing
\* and survives: both loops empty their codec, so that neither refuses what
\* comes next (Decoder.cpp:29 drops a packet that is refused, Encoder.cpp:57
\* throws for a frame), and the Encoder never runs with the context it has
\* before subscribe() ends (Encoder.cpp:47).
NothingDropped ==
  playing /\ Chained /\ errors = 0 =>
    /\ crashed = "no"
    /\ Len(Pipeline) = FramesUpTo[Entered]
    /\ \A f \in 1..FramesUpTo[Entered] :
         \E i \in 1..Len(Pipeline) : Pipeline[i] = f

\* All but the frames the codecs hold back comes out in the end.
Emerges ==
  (playing /\ Chained) ~>
    \/ errors > 0
    \/ Len(out) + DecoderDelay + EncoderDelay >= FramesUpTo[MaxPackets]

-----------------------------------------------------------------------------
(* What comments and tests promise and the code does not keep; the run
   unpacked_decodes checks the first, see the README for the others. *)

\* A StreamCache lets "a remote host ... assemble a stream for decoding"
\* (StreamCache.h:17-18), but StreamData.cpp:33-39 never opens the context: no
\* packet of an unpacked Stream is decoded, though every one was passed on.
UnpackedDecodes ==
  source = "unpacker" /\ careful /\ slots[1] > 0 /\ errors = 0 /\ Finished =>
    decoded

\* "verify that the same number of packets were written as read"
\* (MuxerTest.cpp:33-34): nothing flushes the codecs.
SameNumber ==
  Chained /\ errors = 0 /\ Finished => Len(out) = FramesUpTo[MaxPackets]

\* "If codecName is empty, try to guess the codec" (Encoder.h:63-64): a name
\* that is not empty is kept.
HonoursCodec == [][codec = "named" => codec' = "named"]_vars

\* "allowed to be null and should be tested before use" (StreamData.h:23-25).
NullTested == crashed \notin {"nullData", "nullContext"}

\* Two slots at one signal (two Decoders of one Stream, or an Encoder whose
\* subscribe() was called again) still encode each frame once.
EachInOrder == Distinct(enc.held \o Coming)
=============================================================================
