------------------------------ MODULE Cluster ------------------------------
(***************************************************************************)
(* The demos together: clients that register with the Router and stream    *)
(* their segments, the lambda in the router's main() that passes on the    *)
(* segments of registered streams, and the storage service, which asks the *)
(* router's registry once for each stream and files what it receives.      *)
(*                                                                         *)
(* Each hop is a publisher that connects and a subscriber that is bound,   *)
(* as in Transport: what is published before the subscription arrives is   *)
(* gone, so is what a full pipe cannot take, the rest arrives in order.    *)
(* The pool of storage threads (Storage says how they share the work) is   *)
(* one thread.                                                             *)
(***************************************************************************)
EXTENDS Router, Sequences

CONSTANTS
  Followed,     \* the streams whose segments are followed
  MaxSegments,  \* bound on the segments of a stream
  HighWater,    \* segments a pipe holds at least
  Unasked       \* jobCache has no entry

ASSUME ClusterAssumption ==
  /\ MaxSegments \in Nat \ {0} /\ HighWater \in Nat \ {0} /\ Followed # {} /\ Followed \subseteq StreamIds
  /\ Unasked \notin JobIds \cup {None} /\ None \notin StreamIds

Message == [client : Clients, stream : Followed, n : 1..MaxSegments]

VARIABLES
  next,      \* the next segment of each client's streams
  linked,    \* the clients whose publisher has the router's subscription
  uplink,    \* what each client's publisher has under way to the router
  lost,      \* ghost: the segments that a full pipe dropped or that could not
             \* be written to their file, as long as the router lives
  attached,  \* the router's publisher has the storage service's subscription
  tasks,     \* what is under way to the storage service or in its queue
  storage,   \* "idle"; "ask": the query is sent, "told": answered; "file"; or
             \* "stuck": the router died with the query
  task,      \* the segment it handles
  told,      \* the answer
  jobCache,  \* a job, None for an empty one, or Unasked
  files      \* what is in storage, at its job, stream and segment

hops == <<next, linked, uplink, lost, attached>>
store == <<tasks, storage, task, told, jobCache, files>>
clusterVars == <<vars, hops, store>>

ClusterTypeOK ==
  /\ TypeOK
  /\ next \in [Clients -> [Followed -> 1..MaxSegments + 1]]
  /\ linked \subseteq Clients /\ uplink \in [Clients -> Seq(Message)]
  /\ lost \subseteq Message
  /\ attached \in BOOLEAN /\ tasks \in Seq(Message) /\ task \in Message
  /\ storage \in {"idle", "ask", "told", "file", "stuck"}
  /\ told \in JobIds \cup {None}
  /\ jobCache \in [Followed -> JobIds \cup {None, Unasked}]
  /\ files \subseteq [job : JobIds, client : Clients, stream : Followed,
                     n : 1..MaxSegments]

ClusterInit ==
  /\ Init
  /\ next = [c \in Clients |-> [s \in Followed |-> 1]]
  /\ linked = {} /\ uplink = [c \in Clients |-> <<>>] /\ attached = FALSE
  /\ lost = {}
  /\ tasks = <<>> /\ storage = "idle" /\ told = None /\ files = {}
  /\ task = [client |-> CHOOSE c \in Clients : TRUE,
             stream |-> CHOOSE s \in Followed : TRUE, n |-> 1]
  /\ jobCache = [s \in Followed |-> Unasked]

-----------------------------------------------------------------------------
(* The client and the router's main(). *)

Lose(segments) == lost' = IF restarts = 0 THEN lost \cup segments ELSE lost

\* A new publisher's subscription arrives when it likes.
Link(c) ==
  /\ client[c] = "accepted" /\ c \notin linked /\ linked' = linked \cup {c}
  /\ UNCHANGED <<vars, next, uplink, lost, attached, store>>

\* The segmenters send the segments of the streams with the ids the client
\* proposed, the last one again when flush() and the destructor repeat it and
\* the pipe takes it. They go nowhere without a subscription, and what the pipe
\* cannot take is dropped.
Stream(c, s) ==
  /\ client[c] = "accepted" /\ s \in offer[c].streamIds
  /\ next[c][s] <= MaxSegments
  /\ LET m == [client |-> c, stream |-> s, n |-> next[c][s]]
     IN \/ c \notin linked /\ UNCHANGED <<uplink, lost>>
        \/ /\ c \in linked /\ UNCHANGED lost
           /\ \E k \in IF m.n = MaxSegments THEN {1, 2} ELSE {1} :
                uplink' = [uplink EXCEPT ![c] = @ \o [i \in 1..k |-> m]]
        \/ /\ c \in linked /\ Len(uplink[c]) >= HighWater /\ UNCHANGED uplink
           /\ Lose({m})
  /\ next' = [next EXCEPT ![c][s] = @ + 1]
  /\ UNCHANGED <<vars, linked, attached, store>>

Attach ==
  /\ ~attached /\ attached' = TRUE
  /\ UNCHANGED <<vars, next, linked, uplink, lost, store>>

\* Mutant: every segment is passed on.
ForwardAll(c) ==
  /\ connected /\ uplink[c] # <<>>
  /\ uplink' = [uplink EXCEPT ![c] = Tail(@)]
  /\ tasks' = IF attached THEN Append(tasks, Head(uplink[c])) ELSE tasks
  /\ UNCHANGED <<vars, next, linked, attached, lost, storage, task, told, jobCache,
                 files>>

\* Mutant: a segment that meets another one on its way is dropped.
ForwardOne(c) ==
  /\ connected /\ uplink[c] # <<>>
  /\ uplink' = [uplink EXCEPT ![c] = Tail(@)]
  /\ tasks' = IF attached /\ streamIds[Head(uplink[c]).stream] # None
                 /\ tasks = <<>>
              THEN <<Head(uplink[c])>> ELSE tasks
  /\ UNCHANGED <<vars, next, linked, attached, lost, storage, task, told, jobCache,
                 files>>

\* The lambda: only a segment whose stream is registered is passed on. What is
\* not in the storage service's queue yet may fill the pipe.
Forward(c) ==
  /\ connected /\ uplink[c] # <<>>
  /\ uplink' = [uplink EXCEPT ![c] = Tail(@)]
  /\ LET m == Head(uplink[c])
         published == attached /\ streamIds[m.stream] # None
     IN \/ ~published /\ UNCHANGED <<tasks, lost>>
        \/ published /\ tasks' = Append(tasks, m) /\ UNCHANGED lost
        \/ /\ published /\ Len(tasks) >= HighWater /\ UNCHANGED tasks
           /\ Lose({m})
  /\ UNCHANGED <<vars, next, linked, attached, storage, task, told, jobCache,
                 files>>

-----------------------------------------------------------------------------
(* The storage service: process(), queryJob() and jobServiceLookup(). *)

Take ==
  /\ storage = "idle" /\ tasks # <<>>
  /\ task' = Head(tasks) /\ tasks' = Tail(tasks)
  /\ storage' = IF jobCache[task'.stream] = Unasked THEN "ask" ELSE "file"
  /\ UNCHANGED <<vars, hops, told, jobCache, files>>

\* The registry's stream thread looks the stream up: processBy().
Lookup ==
  /\ storage = "ask" /\ storage' = "told" /\ told' = streamIds[task.stream]
  /\ UNCHANGED <<vars, hops, tasks, task, jobCache, files>>

\* Whatever the answer is, it is cached for good.
Remember ==
  /\ storage = "told" /\ storage' = "file"
  /\ jobCache' = [jobCache EXCEPT ![task.stream] = told]
  /\ UNCHANGED <<vars, hops, tasks, task, told, files>>

SameFile(f, g) == f.job = g.job /\ f.stream = g.stream /\ f.n = g.n

\* Mutant: the job is the one last looked up.
FileLast ==
  /\ storage = "file" /\ storage' = "idle"
  /\ LET f == [job |-> told, client |-> task.client, stream |-> task.stream,
               n |-> task.n] IN
       files' = IF f.job = None THEN files
                ELSE {g \in files : ~SameFile(f, g)} \cup {f}
  /\ UNCHANGED <<vars, hops, tasks, task, told, jobCache>>

\* The segments whose file has the name of the one in hand.
Namesakes == {m \in Message : m.stream = task.stream /\ m.n = task.n}

\* The file is named for the job, the stream and the segment's dts: a segment
\* of the same name is overwritten, one without a job is dropped. Nothing tests
\* the ofstream: it may not open, or only empty the file it opens.
File ==
  /\ storage = "file" /\ storage' = "idle"
  /\ LET f == [job |-> jobCache[task.stream], client |-> task.client,
               stream |-> task.stream, n |-> task.n]
         others == {g \in files : ~SameFile(f, g)}
     IN \/ f.job = None /\ UNCHANGED <<files, lost>>
        \/ f.job # None /\ files' = others \cup {f} /\ UNCHANGED lost
        \/ /\ f.job # None /\ files' \in {files, others}
           /\ Lose(Namesakes)
  /\ UNCHANGED <<vars, next, linked, uplink, attached, tasks, task, told, jobCache>>

\* The router dies and starts again (Restart): with it what is under way to it,
\* some of what is under way from it, its subscriptions, and the query its
\* registry has answered and not sent, which its REQ socket never repeats.
RouterDies ==
  /\ Restart
  /\ linked' = {} /\ uplink' = [c \in Clients |-> <<>>] /\ attached' = FALSE
  /\ lost' = {}
  /\ \E k \in 0..Len(tasks) : tasks' = SubSeq(tasks, 1, k)
  /\ storage' \in {storage, IF storage \in {"ask", "told"} THEN "stuck"
                            ELSE storage}
  /\ UNCHANGED <<next, task, told, jobCache, files>>

Storing == Take \/ Lookup \/ Remember \/ File

\* The router's other steps leave the segments alone.
ClusterNext ==
  \/ \E c \in Clients : \/ Send(c) /\ UNCHANGED <<hops, store>>
                        \/ Receive(c) /\ UNCHANGED <<hops, store>>
                        \/ Link(c) \/ Forward(c)
                        \/ \E s \in Followed : Stream(c, s)
  \/ Connect /\ UNCHANGED <<hops, store>>
  \/ Handle /\ UNCHANGED <<hops, store>>
  \/ Shutdown /\ UNCHANGED <<hops, store>>
  \/ Attach \/ Storing \/ RouterDies

\* Threads that have something to do run; clients may stay away.
ClusterSpec ==
  /\ ClusterInit /\ [][ClusterNext]_clusterVars
  /\ WF_clusterVars(Storing) /\ \A c \in Clients : WF_clusterVars(Forward(c))
  /\ WF_clusterVars(Connect /\ UNCHANGED <<hops, store>>)

-----------------------------------------------------------------------------
(* Properties. *)

\* The segments of c's stream s under way, or handled, and those in a file.
Travelling(c, s) ==
  {uplink[c][i] : i \in 1..Len(uplink[c])} \cup {tasks[i] : i \in 1..Len(tasks)}
  \cup (IF storage = "idle" THEN {} ELSE {task})
UnderWay(c, s, n) == [client |-> c, stream |-> s, n |-> n] \in Travelling(c, s)
Filed(s, n) == \E f \in files : f.stream = s /\ f.n = n

\* The storage service asks about a stream only when a segment of it came
\* through the router's lambda, so as long as the router lives no stream is ever
\* written off as unknown, whatever the registration, the segments and the
\* queries overtake (Storage.cpp:108).
NeverWrittenOff ==
  restarts = 0 => \A s \in Followed : jobCache[s] # None

\* Segments are filed under the job their client was given, if the registry was
\* told of it and took the stream's id, whoever else proposed that id and
\* however the two jobs' segments mix (RouterJobHandler.cpp:70-83).
FiledRight ==
  restarts = 0 => \A f \in files :
    f.client \notin unheard /\ f.stream \in answer[f.client].streamIds
      => f.job = answer[f.client].jobId

\* A stream may start late, when the subscriptions or the registration did, but
\* every hole it has later has a cause: once a segment is filed all the later
\* ones sent are, too, or are under way, or a pipe was full or a file could not
\* be written, as long as the router lives: the lambda's test, the one question
\* the storage service asks and its cached answer lose none.
NoHoles ==
  restarts = 0 => \A f \in files, m \in 1..MaxSegments :
    f.n < m /\ m < next[f.client][f.stream]
      => \/ Filed(f.stream, m) \/ UnderWay(f.client, f.stream, m)
         \/ [client |-> f.client, stream |-> f.stream, n |-> m] \in lost

-----------------------------------------------------------------------------
(* What comments promise and the code does not keep: no run checks these, see
   the README. *)

\* "server can override it" (client.cpp:99): nor do two clients' segments ever
\* share a name; the one whose ids were replaced goes on with the ones it
\* proposed.
OwnFiles == [][restarts = 0 => \A f \in files : f \in files']_clusterVars

\* After the router's restart the jobs cached before it are still taken for the
\* streams of new ones.
FiledRightAlways ==
  \A f \in files :
    f.client \notin unheard /\ f.stream \in answer[f.client].streamIds
      => f.job = answer[f.client].jobId

\* A query is answered: jobServiceLookup() waits without a timeout.
QueryAnswered == (storage = "ask") ~> (storage = "idle")
=============================================================================
