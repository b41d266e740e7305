--------------------------- MODULE Cluster_proofs ---------------------------
(***************************************************************************)
(* Theorems about Router and about Cluster, which runs it together with    *)
(* streaming clients and the storage service: for every set of clients and *)
(* ids, every offer, and any number of restarts and segments.              *)
(***************************************************************************)
EXTENDS Cluster, SequenceTheorems, TLAPS

-----------------------------------------------------------------------------
(* The router: types, and who is being served. *)

\* The client that is being served has sent its request and has no answer yet.
Served == serving # None => client[serving] = "sent"

\* Every reachable state of the router is of the right type, for every set of
\* ids that clients may propose, and a client is served once.
THEOREM RouterTypes == Spec => [](TypeOK /\ Served)
<1>1. Init => TypeOK /\ Served
  <2>. SUFFICES ASSUME Init PROVE TypeOK /\ Served
    OBVIOUS
  <2>1. offer \in [Clients -> Job]
    BY DEF Init
  <2>2. (CHOOSE c \in Clients : TRUE) \in Clients
    BY RouterAssumption
  <2>3. jerb \in Job
    BY <2>1, <2>2 DEF Init
  <2>4. 0 \in 0..MaxRestarts
    BY RouterAssumption
  <2>. QED
    BY <2>1, <2>3, <2>4 DEF Init, TypeOK, Served
<1>2. TypeOK /\ Served /\ [Next]_vars => TypeOK' /\ Served'
  <2>. SUFFICES ASSUME TypeOK, Served, [Next]_vars PROVE TypeOK' /\ Served'
    OBVIOUS
  <2>1. ASSUME NEW c \in Clients, Send(c) PROVE TypeOK' /\ Served'
    BY <2>1 DEF Send, TypeOK, Served, control, request, registry
  <2>2. ASSUME NEW c \in Clients, Receive(c) PROVE TypeOK' /\ Served'
    BY <2>2, NoneAssumption DEF Receive, TypeOK, Served, control, registry
  <2>3. CASE Connect \/ Shutdown
    BY <2>3 DEF Connect, Shutdown, TypeOK, Served, request, registry
  <2>4. CASE MakeJob
    <3>1. PICK id \in JobIds : /\ jerb' = [jerb EXCEPT !.jobId = id]
                               /\ dirs' = dirs \cup {id}
      BY <2>4 DEF MakeJob, FreshJobs, TypeOK, Job
    <3>2. jerb' \in Job /\ dirs' \subseteq JobIds
      BY <3>1 DEF TypeOK, Job
    <3>. QED
      BY <2>4, <3>2 DEF MakeJob, TypeOK, Served, control, registry
  <2>5. CASE MakeStreams
    <3>1. PICK ids \in SUBSET StreamIds : jerb' = [jerb EXCEPT !.streamIds = ids]
      BY <2>5 DEF MakeStreams, FreshStreams, TypeOK, Job
    <3>2. jerb' \in Job
      BY <3>1 DEF TypeOK, Job
    <3>. QED
      BY <2>5, <3>2 DEF MakeStreams, TypeOK, Served, control, registry
  <2>6. CASE Signal
    <3>1. jerb.jobId \in JobIds /\ serving \in Clients
      BY <2>6 DEF Signal, TypeOK, Job
    <3>. QED
      BY <2>6, <3>1 DEF Signal, TypeOK, Served, control, request
  <2>7. CASE Index
    <3>1. jerb.jobId \in JobIds
      BY DEF TypeOK, Job
    <3>2. streamIds' \in [StreamIds -> JobIds \cup {None}]
      BY <2>7, <3>1 DEF Index, TypeOK
    <3>. QED
      BY <2>7, <3>2 DEF Index, TypeOK, Served, control, request
  <2>8. CASE Reply
    BY <2>8 DEF Reply, Proceed, TypeOK, Served, control, registry
  <2>9. CASE Restart
    <3>1. restarts' \in 0..MaxRestarts
      BY <2>9, RouterAssumption DEF Restart, TypeOK
    <3>. QED
      BY <2>9, <3>1 DEF Restart, TypeOK, Served
  <2>10. CASE UNCHANGED vars
    BY <2>10 DEF vars, TypeOK, Served
  <2>. QED
    BY <2>1, <2>2, <2>3, <2>4, <2>5, <2>6, <2>7, <2>8, <2>9, <2>10
    DEF Next, Handle
<1>. QED
  BY <1>1, <1>2, PTL DEF Spec

-----------------------------------------------------------------------------
(* The registry. *)

\* A registered job's id is in the map of jobs before its streams are.
JobsFirst == StreamsHaveJobs /\ (handler = "index" => jerb.jobId \in jobs)

\* Whoever finds a job by a stream id finds it by its job id, too, at every
\* moment between the two halves of JobRegistry::add() and for every job.
THEOREM RegistryCorrect == Spec => []StreamsHaveJobs
<1>1. Init => JobsFirst
  BY DEF Init, JobsFirst, StreamsHaveJobs
<1>2. TypeOK /\ JobsFirst /\ [Next]_vars => JobsFirst'
  <2>. SUFFICES ASSUME TypeOK, JobsFirst, [Next]_vars PROVE JobsFirst'
    OBVIOUS
  <2>1. ASSUME NEW c \in Clients, Send(c) \/ Receive(c) PROVE JobsFirst'
    BY <2>1 DEF Send, Receive, registry, request, JobsFirst, StreamsHaveJobs
  <2>2. CASE Connect \/ Shutdown
    BY <2>2 DEF Connect, Shutdown, registry, request, JobsFirst, StreamsHaveJobs
  <2>3. CASE MakeJob \/ MakeStreams \/ Reply
    BY <2>3 DEF MakeJob, MakeStreams, Reply, registry, JobsFirst, StreamsHaveJobs
  <2>4. CASE Signal
    BY <2>4 DEF Signal, request, JobsFirst, StreamsHaveJobs
  <2>5. CASE Index
    BY <2>5 DEF Index, request, TypeOK, JobsFirst, StreamsHaveJobs
  <2>6. CASE Restart
    BY <2>6 DEF Restart, JobsFirst, StreamsHaveJobs
  <2>7. CASE UNCHANGED vars
    BY <2>7 DEF vars, JobsFirst, StreamsHaveJobs
  <2>. QED
    BY <2>1, <2>2, <2>3, <2>4, <2>5, <2>6, <2>7 DEF Next, Handle
<1>3. JobsFirst => StreamsHaveJobs
  BY DEF JobsFirst
<1>. QED
  BY <1>1, <1>2, <1>3, RouterTypes, PTL DEF Spec

\* A job is signalled with streams that the registry does not have.
FreshStreamsOnly ==
  handler \in {"signal", "index"} => \A s \in jerb.streamIds : streamIds[s] = None

\* Between a job's signal and its index no other job takes its streams.
LEMMA FreshInv == Spec => []FreshStreamsOnly
<1>1. Init => FreshStreamsOnly
  BY DEF Init, FreshStreamsOnly
<1>2. TypeOK /\ FreshStreamsOnly /\ [Next]_vars => FreshStreamsOnly'
  <2>. SUFFICES ASSUME TypeOK, FreshStreamsOnly, [Next]_vars
                PROVE  FreshStreamsOnly'
    OBVIOUS
  <2>1. ASSUME NEW c \in Clients, Send(c) \/ Receive(c) PROVE FreshStreamsOnly'
    BY <2>1 DEF Send, Receive, registry, request, FreshStreamsOnly
  <2>2. CASE Connect \/ Shutdown
    BY <2>2 DEF Connect, Shutdown, registry, request, FreshStreamsOnly
  <2>3. CASE MakeJob \/ Index \/ Reply
    BY <2>3 DEF MakeJob, Index, Reply, FreshStreamsOnly
  <2>4. CASE MakeStreams
    <3>. DEFINE taken == {s \in jerb.streamIds : streamIds[s] # None}
    <3>1. PICK fresh \in SUBSET FreshStreams :
            jerb' = [jerb EXCEPT !.streamIds = (@ \ taken) \cup fresh]
      BY <2>4 DEF MakeStreams
    <3>2. jerb'.streamIds = (jerb.streamIds \ taken) \cup fresh
      BY <3>1 DEF TypeOK, Job
    <3>3. \A s \in fresh : streamIds[s] = None
      BY DEF FreshStreams
    <3>4. streamIds' = streamIds
      BY <2>4 DEF MakeStreams, registry
    <3>. QED
      BY <3>2, <3>3, <3>4 DEF FreshStreamsOnly
  <2>5. CASE Signal
    BY <2>5 DEF Signal, request, FreshStreamsOnly
  <2>6. CASE Restart
    BY <2>6 DEF Restart, FreshStreamsOnly
  <2>7. CASE UNCHANGED vars
    BY <2>7 DEF vars, FreshStreamsOnly
  <2>. QED
    BY <2>1, <2>2, <2>3, <2>4, <2>5, <2>6, <2>7 DEF Next, Handle
<1>. QED
  BY <1>1, <1>2, RouterTypes, PTL DEF Spec

\* As long as the router lives, no entry of the registry is replaced or goes.
LEMMA EntriesStay ==
  ASSUME TypeOK, FreshStreamsOnly, [Next]_vars, ~Restart,
         NEW s \in StreamIds, streamIds[s] # None
  PROVE  streamIds'[s] = streamIds[s]
<1>1. CASE Index
  BY <1>1 DEF Index, FreshStreamsOnly
<1>2. CASE UNCHANGED streamIds
  BY <1>2
<1>. QED
  BY <1>1, <1>2 DEF Next, Handle, Send, Receive, Connect, Shutdown, MakeJob,
                    MakeStreams, Signal, Reply, vars, registry

\* A job that is in the registry, with all its streams.
Registered(j) ==
  j.jobId \in jobs /\ \A s \in j.streamIds : streamIds[s] = j.jobId

\* Accepted by this run of the router, and signalled to the registry.
Heard(c) == c \in Accepted /\ c \notin unheard

\* The job that is about to be answered is registered, too.
AllRegistered ==
  /\ \A c \in Clients : Heard(c) => Registered(answer[c])
  /\ handler = "index" => jerb.jobId \in jobs
  /\ handler = "reply" /\ serving \notin unheard => Registered(jerb)

\* An accepted client's job stays in the registry, each of its streams with it.
LEMMA AllRegisteredInv == Spec => []AllRegistered
<1>1. Init => AllRegistered
  BY DEF Init, AllRegistered, Heard, Accepted
<1>2. TypeOK /\ FreshStreamsOnly /\ AllRegistered /\ [Next]_vars
        => AllRegistered'
  <2>. SUFFICES ASSUME TypeOK, FreshStreamsOnly, AllRegistered, [Next]_vars
                PROVE  AllRegistered'
    OBVIOUS
  <2>1. ASSUME NEW c \in Clients, Send(c) \/ Receive(c) PROVE AllRegistered'
    <3>1. /\ UNCHANGED <<answer, registry, unheard>>
          /\ \A d \in Clients : client'[d] = "accepted" => client[d] = "accepted"
          /\ \/ handler' = handler /\ UNCHANGED request
             \/ handler' = "job"
      BY <2>1 DEF Send, Receive, TypeOK
    <3>. QED
      BY <3>1 DEF AllRegistered, Heard, Accepted, Registered, registry, request
  <2>2. CASE Connect \/ Shutdown \/ UNCHANGED vars
    BY <2>2 DEF Connect, Shutdown, vars, registry, request, AllRegistered, Heard,
                Accepted, Registered
  <2>3. CASE MakeJob \/ MakeStreams
    BY <2>3 DEF MakeJob, MakeStreams, registry, AllRegistered, Heard, Accepted,
                Registered
  <2>4. CASE Signal
    <3>1. /\ UNCHANGED <<answer, client, streamIds, request>>
          /\ jobs \subseteq jobs' /\ unheard \subseteq unheard'
          /\ \/ handler' = "index" /\ jerb.jobId \in jobs'
             \/ handler' = "reply" /\ serving \in unheard'
      BY <2>4 DEF Signal
    <3>2. ASSUME NEW c \in Clients, Heard(c)' PROVE Registered(answer[c])'
      <4>1. Heard(c) /\ answer' = answer /\ streamIds' = streamIds
        BY <3>1, <3>2 DEF Heard, Accepted
      <4>. QED
        BY <3>1, <4>1 DEF AllRegistered, Registered
    <3>. QED
      BY <3>1, <3>2 DEF AllRegistered, request
  <2>5. CASE Index
    <3>1. /\ UNCHANGED <<answer, client, jobs, unheard, request>>
          /\ handler = "index" /\ handler' = "reply"
          /\ streamIds' = [s \in StreamIds |->
               IF s \in jerb.streamIds THEN jerb.jobId ELSE streamIds[s]]
      BY <2>5 DEF Index
    <3>2. jerb.jobId # None /\ jerb.streamIds \subseteq StreamIds
      BY NoneAssumption DEF TypeOK, Job
    <3>3. \A s \in StreamIds : streamIds[s] # None => streamIds'[s] = streamIds[s]
      BY <3>1 DEF FreshStreamsOnly
    <3>4. ASSUME NEW c \in Clients, Heard(c)' PROVE Registered(answer[c])'
      <4>1. Heard(c) /\ answer' = answer /\ jobs' = jobs
        BY <3>1, <3>4 DEF Heard, Accepted
      <4>2. answer[c] \in Job /\ answer[c].jobId # None
        BY NoneAssumption DEF TypeOK, Job
      <4>. QED
        BY <3>3, <4>1, <4>2 DEF AllRegistered, Registered, Job
    <3>5. Registered(jerb)'
      BY <3>1, <3>2 DEF AllRegistered, Registered, request
    <3>. QED
      BY <3>1, <3>4, <3>5 DEF AllRegistered
  <2>6. CASE Reply
    <3>1. /\ UNCHANGED <<registry, unheard>> /\ handler = "reply"
          /\ handler' \in {"recv", "stopped"} /\ serving \in Clients
          /\ answer' = [answer EXCEPT ![serving] = jerb]
          /\ client' = [client EXCEPT ![serving] = "accepted"]
      BY <2>6 DEF Reply, Proceed, TypeOK
    <3>2. ASSUME NEW c \in Clients, Heard(c)' PROVE Registered(answer[c])'
      <4>1. CASE c = serving
        <5>1. answer'[c] = jerb /\ c \notin unheard
          BY <3>1, <3>2, <4>1 DEF TypeOK, Heard
        <5>. QED
          BY <3>1, <4>1, <5>1 DEF AllRegistered, Registered, registry
      <4>2. CASE c # serving
        <5>1. answer'[c] = answer[c] /\ Heard(c)
          BY <3>1, <3>2, <4>2 DEF TypeOK, Heard, Accepted
        <5>. QED
          BY <3>1, <5>1 DEF AllRegistered, Registered, registry
      <4>. QED
        BY <4>1, <4>2
    <3>. QED
      BY <3>1, <3>2 DEF AllRegistered
  <2>7. CASE Restart
    BY <2>7 DEF Restart, AllRegistered, Heard, Accepted, TypeOK
  <2>. QED
    BY <2>1, <2>2, <2>3, <2>4, <2>5, <2>6, <2>7 DEF Next, Handle
<1>. QED
  BY <1>1, <1>2, FreshInv, RouterTypes, PTL DEF Spec

\* From the reply on, a client's job is found by its id and by all its streams,
\* for every offer: unless the registry was not subscribed when it was
\* signalled, or lost it in a restart.
THEOREM HeardCorrect == Spec => []HeardRegistered
<1>1. TypeOK /\ AllRegistered => HeardRegistered
  BY NoneAssumption
  DEF TypeOK, Job, AllRegistered, HeardRegistered, Heard, Accepted, Registered
<1>. QED
  BY <1>1, AllRegisteredInv, RouterTypes, PTL

-----------------------------------------------------------------------------
(* Unique ids. *)

\* Accepted by this run of the router, as far as UniqueIds can tell.
Current(c) == c \in Accepted /\ (restarts = 0 \/ c \notin unheard)

\* The ids of this run's jobs have directories, in the directory exists() looks
\* in, and the job being made is none of them.
JobsApart ==
  /\ \A c \in Clients : Current(c) => atTemp /\ answer[c].jobId \in dirs
  /\ \A c, d \in Clients : Current(c) /\ Current(d) /\ c # d
                             => answer[c].jobId # answer[d].jobId
  /\ handler \in {"streams", "signal", "index", "reply"} =>
       /\ atTemp /\ jerb.jobId \in dirs
       /\ \A c \in Clients : Current(c) => answer[c].jobId # jerb.jobId

\* The streams of the job being made are nobody's of those the registry has.
StreamsApart ==
  /\ \A c, d \in Clients : Heard(c) /\ Heard(d) /\ c # d
                             => answer[c].streamIds \cap answer[d].streamIds = {}
  /\ handler \in {"signal", "index", "reply"} =>
       \A c \in Clients : Heard(c) => answer[c].streamIds \cap jerb.streamIds = {}

\* A step that accepts no client, tells the registry of none that was not told
\* of before, and leaves the answers and the restarts alone.
LEMMA NoneAccepted ==
  ASSUME \A c \in Clients : client'[c] = "accepted" => client[c] = "accepted",
         unheard \subseteq unheard', answer' = answer, restarts' = restarts,
         NEW c \in Clients
  PROVE  /\ Current(c)' => Current(c)
         /\ Heard(c)' => Heard(c)
BY DEF Current, Heard, Accepted

\* A client whose answer is sent joins those that were accepted.
LEMMA OneAccepted ==
  ASSUME TypeOK, Reply
  PROVE  /\ serving \in Clients /\ answer'[serving] = jerb /\ handler = "reply"
         /\ \A c \in Clients \ {serving} : answer'[c] = answer[c]
         /\ \A c \in Clients \ {serving} : Current(c)' => Current(c)
         /\ \A c \in Clients \ {serving} : Heard(c)' => Heard(c)
         /\ UNCHANGED <<atTemp, dirs, jerb, unheard, restarts>>
         /\ handler' \in {"recv", "stopped"}
<1>1. /\ UNCHANGED <<unheard, restarts>> /\ handler = "reply"
      /\ serving \in Clients
      /\ answer' = [answer EXCEPT ![serving] = jerb]
      /\ client' = [client EXCEPT ![serving] = "accepted"]
      /\ UNCHANGED <<atTemp, dirs, jerb>> /\ handler' \in {"recv", "stopped"}
  BY DEF Reply, Proceed, TypeOK, control
<1>2. /\ answer'[serving] = jerb
      /\ \A c \in Clients \ {serving} : answer'[c] = answer[c]
      /\ \A c \in Clients \ {serving} : client'[c] = client[c]
  BY <1>1 DEF TypeOK
<1>. QED
  BY <1>1, <1>2 DEF Current, Heard, Accepted

\* A restart forgets them all.
LEMMA RestartForgets ==
  ASSUME TypeOK, Restart, NEW c \in Clients
  PROVE  ~Current(c)' /\ ~Heard(c)'
<1>1. restarts' # 0
  BY DEF Restart, TypeOK
<1>2. c \in Accepted' => c \in unheard'
  BY DEF Restart, Accepted, TypeOK
<1>. QED
  BY <1>1, <1>2 DEF Current, Heard

\* The jobs a run of the router accepts have different ids, whatever ids the
\* clients propose and however their requests follow each other.
LEMMA JobsApartInv == Spec => []JobsApart
<1>1. Init => JobsApart
  BY DEF Init, JobsApart, Current, Accepted
<1>2. TypeOK /\ JobsApart /\ [Next]_vars => JobsApart'
  <2>. SUFFICES ASSUME TypeOK, JobsApart, [Next]_vars PROVE JobsApart'
    OBVIOUS
  <2>1. CASE MakeJob
    <3>1. /\ UNCHANGED <<answer, client, unheard, restarts>> /\ atTemp' = TRUE
          /\ handler' = "streams"
      BY <2>1 DEF MakeJob, control
    <3>2. \A c \in Clients : Current(c)' => Current(c)
      BY <3>1, NoneAccepted
    <3>3. PICK id \in IF atTemp /\ jerb.jobId \in dirs
                      THEN FreshJobs ELSE {jerb.jobId} :
            jerb' = [jerb EXCEPT !.jobId = id] /\ dirs' = dirs \cup {id}
      BY <2>1 DEF MakeJob
    <3>4. jerb'.jobId = id
      BY <3>3 DEF TypeOK, Job
    <3>5. atTemp => id \notin dirs
      BY <3>3 DEF FreshJobs
    <3>6. \A c \in Clients : Current(c) => answer[c].jobId # id
      BY <3>5 DEF JobsApart
    <3>. QED
      BY <3>1, <3>2, <3>3, <3>4, <3>6 DEF JobsApart
  <2>2. CASE MakeStreams
    <3>1. /\ UNCHANGED <<answer, client, unheard, restarts, atTemp, dirs>>
          /\ jerb'.jobId = jerb.jobId /\ handler = "streams"
      BY <2>2 DEF MakeStreams, control, TypeOK, Job
    <3>2. \A c \in Clients : Current(c)' => Current(c)
      BY <3>1, NoneAccepted
    <3>. QED
      BY <3>1, <3>2 DEF JobsApart
  <2>3. CASE Signal \/ Index
    <3>1. /\ UNCHANGED <<answer, client, restarts, atTemp, dirs, jerb>>
          /\ unheard \subseteq unheard' /\ handler \in {"signal", "index"}
      BY <2>3 DEF Signal, Index, control, request
    <3>2. \A c \in Clients : Current(c)' => Current(c)
      BY <3>1, NoneAccepted
    <3>. QED
      BY <3>1, <3>2 DEF JobsApart
  <2>4. CASE Reply
    <3>1. \A c \in Clients \ {serving} : Current(c) => answer[c].jobId # jerb.jobId
      BY <2>4, OneAccepted DEF JobsApart
    <3>2. ASSUME NEW c \in Clients, Current(c)'
          PROVE  atTemp' /\ answer'[c].jobId \in dirs'
      BY <2>4, <3>2, OneAccepted DEF JobsApart
    <3>3. ASSUME NEW c \in Clients, NEW d \in Clients,
                 Current(c)', Current(d)', c # d
          PROVE  answer'[c].jobId # answer'[d].jobId
      BY <2>4, <3>1, <3>3, OneAccepted DEF JobsApart
    <3>4. handler' \in {"recv", "stopped"}
      BY <2>4, OneAccepted
    <3>. QED
      BY <3>2, <3>3, <3>4 DEF JobsApart
  <2>5. ASSUME NEW d \in Clients, Send(d) \/ Receive(d) PROVE JobsApart'
    <3>1. /\ UNCHANGED <<answer, unheard, restarts, atTemp, dirs>>
          /\ \A c \in Clients : client'[c] = "accepted" => client[c] = "accepted"
          /\ (handler' = handler /\ jerb' = jerb) \/ handler' = "job"
      BY <2>5 DEF Send, Receive, TypeOK, control, request
    <3>2. \A c \in Clients : Current(c)' => Current(c)
      BY <3>1, NoneAccepted
    <3>. QED
      BY <3>1, <3>2 DEF JobsApart
  <2>6. CASE Connect \/ Shutdown \/ UNCHANGED vars
    <3>1. UNCHANGED <<answer, client, unheard, restarts, atTemp, dirs, handler, jerb>>
      BY <2>6 DEF Connect, Shutdown, vars, request
    <3>2. \A c \in Clients : Current(c)' => Current(c)
      BY <3>1, NoneAccepted
    <3>. QED
      BY <3>1, <3>2 DEF JobsApart
  <2>7. CASE Restart
    <3>1. handler' = "recv" /\ \A c \in Clients : ~Current(c)'
      BY <2>7, RestartForgets DEF Restart
    <3>. QED
      BY <3>1 DEF JobsApart
  <2>. QED
    BY <2>1, <2>2, <2>3, <2>4, <2>5, <2>6, <2>7 DEF Next, Handle
<1>. QED
  BY <1>1, <1>2, RouterTypes, PTL DEF Spec

\* So have their streams, as far as the registry was told of them: a stream id
\* in the registry is replaced by one that no client has.
LEMMA StreamsApartInv == Spec => []StreamsApart
<1>1. Init => StreamsApart
  BY DEF Init, StreamsApart, Heard, Accepted
<1>2. TypeOK /\ HeardRegistered /\ StreamsApart /\ [Next]_vars => StreamsApart'
  <2>. SUFFICES ASSUME TypeOK, HeardRegistered, StreamsApart, [Next]_vars
                PROVE  StreamsApart'
    OBVIOUS
  <2>1. CASE MakeJob
    <3>1. UNCHANGED <<answer, client, unheard, restarts>> /\ handler' = "streams"
      BY <2>1 DEF MakeJob, control
    <3>2. \A c \in Clients : Heard(c)' => Heard(c)
      BY <3>1, NoneAccepted
    <3>. QED
      BY <3>1, <3>2 DEF StreamsApart
  <2>2. CASE MakeStreams
    <3>1. UNCHANGED <<answer, client, unheard, restarts>>
      BY <2>2 DEF MakeStreams, control
    <3>2. \A c \in Clients : Heard(c)' => Heard(c)
      BY <3>1, NoneAccepted
    <3>. DEFINE taken == {s \in jerb.streamIds : streamIds[s] # None}
    <3>3. PICK fresh \in SUBSET FreshStreams :
            jerb' = [jerb EXCEPT !.streamIds = (@ \ taken) \cup fresh]
      BY <2>2 DEF MakeStreams
    <3>4. jerb'.streamIds = (jerb.streamIds \ taken) \cup fresh
      BY <3>3 DEF TypeOK, Job
    <3>5. ASSUME NEW c \in Clients, Heard(c)
          PROVE  answer[c].streamIds \cap jerb'.streamIds = {}
      <4>1. \A s \in answer[c].streamIds : streamIds[s] # None
        BY <3>5 DEF HeardRegistered, Heard
      <4>2. answer[c].streamIds \cap fresh = {}
        BY DEF FreshStreams
      <4>. QED
        BY <3>4, <4>1, <4>2
    <3>. QED
      BY <3>1, <3>2, <3>5 DEF StreamsApart
  <2>3. CASE Signal \/ Index
    <3>1. /\ UNCHANGED <<answer, client, restarts, jerb>>
          /\ unheard \subseteq unheard' /\ handler \in {"signal", "index"}
      BY <2>3 DEF Signal, Index, control, request
    <3>2. \A c \in Clients : Heard(c)' => Heard(c)
      BY <3>1, NoneAccepted
    <3>. QED
      BY <3>1, <3>2 DEF StreamsApart
  <2>4. CASE Reply
    <3>1. \A c \in Clients \ {serving} :
            Heard(c) => answer[c].streamIds \cap jerb.streamIds = {}
      BY <2>4, OneAccepted DEF StreamsApart
    <3>2. ASSUME NEW c \in Clients, NEW d \in Clients, Heard(c)', Heard(d)', c # d
          PROVE  answer'[c].streamIds \cap answer'[d].streamIds = {}
      BY <2>4, <3>1, <3>2, OneAccepted DEF StreamsApart
    <3>3. handler' \in {"recv", "stopped"}
      BY <2>4, OneAccepted
    <3>. QED
      BY <3>2, <3>3 DEF StreamsApart
  <2>5. ASSUME NEW d \in Clients, Send(d) \/ Receive(d) PROVE StreamsApart'
    <3>1. /\ UNCHANGED <<answer, unheard, restarts>>
          /\ \A c \in Clients : client'[c] = "accepted" => client[c] = "accepted"
          /\ (handler' = handler /\ jerb' = jerb) \/ handler' = "job"
      BY <2>5 DEF Send, Receive, TypeOK, control, request
    <3>2. \A c \in Clients : Heard(c)' => Heard(c)
      BY <3>1, NoneAccepted
    <3>. QED
      BY <3>1, <3>2 DEF StreamsApart
  <2>6. CASE Connect \/ Shutdown \/ UNCHANGED vars
    <3>1. UNCHANGED <<answer, client, unheard, restarts, handler, jerb>>
      BY <2>6 DEF Connect, Shutdown, vars, request
    <3>2. \A c \in Clients : Heard(c)' => Heard(c)
      BY <3>1, NoneAccepted
    <3>. QED
      BY <3>1, <3>2 DEF StreamsApart
  <2>7. CASE Restart
    <3>1. handler' = "recv" /\ \A c \in Clients : ~Heard(c)'
      BY <2>7, RestartForgets DEF Restart
    <3>. QED
      BY <3>1 DEF StreamsApart
  <2>. QED
    BY <2>1, <2>2, <2>3, <2>4, <2>5, <2>6, <2>7 DEF Next, Handle
<1>. QED
  BY <1>1, <1>2, RouterTypes, HeardCorrect, PTL DEF Spec

\* No two jobs that a run of the router accepts share their id, and no two jobs
\* in its registry a stream, for every set of clients and all they may propose.
THEOREM UniqueCorrect == Spec => []UniqueIds
<1>1. JobsApart /\ StreamsApart => UniqueIds
  BY DEF JobsApart, StreamsApart, UniqueIds, Current, Heard, Accepted
<1>. QED
  BY <1>1, JobsApartInv, StreamsApartInv, PTL

-----------------------------------------------------------------------------
(* The router of the cluster is the Router. *)

\* The steps of the router that leave the segments alone.
RouterStep == /\ \/ \E c \in Clients : Send(c) \/ Receive(c)
                 \/ Connect \/ Handle \/ Shutdown
              /\ UNCHANGED <<hops, store>>

\* The cluster's steps: the router's, the clients', the storage service's and
\* the router's death.
LEMMA ClusterSteps ==
  ASSUME [ClusterNext]_clusterVars
  PROVE  \/ RouterStep
         \/ \E c \in Clients : Link(c) \/ Forward(c) \/ \E s \in Followed : Stream(c, s)
         \/ Attach \/ Take \/ Lookup \/ Remember \/ File \/ RouterDies
         \/ UNCHANGED clusterVars
BY DEF ClusterNext, RouterStep, Storing

\* A step of the cluster is a step of the router, or leaves it alone.
LEMMA ClusterStepsRouter ==
  ASSUME [ClusterNext]_clusterVars
  PROVE  [Next]_vars
<1>1. CASE RouterStep
  BY <1>1 DEF RouterStep, Next
<1>2. ASSUME NEW c \in Clients,
             Link(c) \/ Forward(c) \/ \E s \in Followed : Stream(c, s)
      PROVE  UNCHANGED vars
  BY <1>2 DEF Link, Forward, Stream
<1>3. CASE Attach \/ Take \/ Lookup \/ Remember \/ File
  BY <1>3 DEF Attach, Take, Lookup, Remember, File
<1>4. CASE RouterDies
  BY <1>4 DEF RouterDies, Next
<1>5. CASE UNCHANGED clusterVars
  BY <1>5 DEF clusterVars
<1>. QED
  BY <1>1, <1>2, <1>3, <1>4, <1>5, ClusterSteps

\* What clients, segments and the storage service do around it, the router keeps
\* to its own specification: what is proved of Router holds in the cluster.
THEOREM ClusterRefinesRouter == ClusterSpec => Spec
<1>1. ClusterInit => Init
  BY DEF ClusterInit
<1>2. [ClusterNext]_clusterVars => [Next]_vars
  BY ClusterStepsRouter
<1>. QED
  BY <1>1, <1>2, PTL DEF ClusterSpec, Spec

-----------------------------------------------------------------------------
(* The cluster: types. *)

\* A segment is on the storage service's hands for its file only when the
\* service has an answer for its stream.
FileAsked == storage = "file" => jobCache[task.stream] # Unasked

\* A message is its client, its stream and its number.
LEMMA MessageParts ==
  ASSUME NEW m \in Message
  PROVE  /\ m.client \in Clients /\ m.stream \in Followed /\ m.stream \in StreamIds
         /\ m.n \in 1..MaxSegments /\ m.n \in Nat
         /\ m = [client |-> m.client, stream |-> m.stream, n |-> m.n]
BY ClusterAssumption DEF Message

\* What a client's publisher takes of it: one or two copies.
Copies(m, k) == [i \in 1..k |-> m]

\* Copies of a message are a sequence of messages.
LEMMA CopiesType ==
  ASSUME NEW m \in Message, NEW k \in {1, 2}
  PROVE  /\ Copies(m, k) \in Seq(Message) /\ Len(Copies(m, k)) = k
         /\ k \in Nat /\ k > 0
         /\ \A i \in 1..k : Copies(m, k)[i] = m
BY DEF Copies

\* A client's stream sends its next segment to its own way to the router, which
\* takes it, or drops it: because it is not open, or because it is full.
LEMMA StreamStep ==
  ASSUME ClusterTypeOK, NEW c \in Clients, NEW s \in Followed, Stream(c, s)
  PROVE  /\ next[c][s] \in 1..MaxSegments /\ client[c] = "accepted"
         /\ next' \in [Clients -> [Followed -> 1..MaxSegments + 1]]
         /\ next'[c][s] = next[c][s] + 1
         /\ \A d \in Clients, t \in Followed :
              d # c \/ t # s => next'[d][t] = next[d][t]
         /\ \E m \in Message :
              /\ m = [client |-> c, stream |-> s, n |-> next[c][s]]
              /\ lost' \in {lost, lost \cup {m}}
              /\ \/ /\ uplink' = uplink
                    /\ c \in linked /\ restarts = 0 => lost' = lost \cup {m}
                 \/ /\ c \in linked
                    /\ \E k \in {1, 2} :
                         uplink' = [uplink EXCEPT ![c] = uplink[c] \o Copies(m, k)]
         /\ UNCHANGED <<vars, linked, attached, store>>
<1>1. next[c][s] <= MaxSegments /\ next[c][s] \in 1..MaxSegments + 1
  BY DEF Stream, ClusterTypeOK
<1>2. next[c][s] \in 1..MaxSegments /\ next[c][s] + 1 \in 1..MaxSegments + 1
  BY <1>1, ClusterAssumption
<1>3. next' = [next EXCEPT ![c][s] = next[c][s] + 1]
  BY DEF Stream
<1>4. next \in [Clients -> [Followed -> 1..MaxSegments + 1]]
  BY DEF ClusterTypeOK
<1>5. PICK m \in Message : m = [client |-> c, stream |-> s, n |-> next[c][s]]
  BY <1>2 DEF Message
<1>6. /\ lost' \in {lost, lost \cup {m}}
      /\ \/ /\ uplink' = uplink
            /\ c \in linked /\ restarts = 0 => lost' = lost \cup {m}
         \/ /\ c \in linked
            /\ \E k \in {1, 2} :
                 uplink' = [uplink EXCEPT ![c] = uplink[c] \o Copies(m, k)]
  <2>1. CASE c \notin linked /\ UNCHANGED <<uplink, lost>>
    BY <2>1
  <2>2. CASE c \in linked /\ Lose({m}) /\ UNCHANGED uplink
    BY <2>2 DEF Lose
  <2>3. CASE /\ c \in linked /\ UNCHANGED lost
             /\ \E k \in {1, 2} :
                  uplink' = [uplink EXCEPT ![c] = uplink[c] \o Copies(m, k)]
    BY <2>3
  <2>4. \A k \in IF m.n = MaxSegments THEN {1, 2} ELSE {1} : k \in {1, 2}
    OBVIOUS
  <2>. QED
    BY <1>5, <2>1, <2>2, <2>3, <2>4 DEF Stream, Copies
<1>7. next' \in [Clients -> [Followed -> 1..MaxSegments + 1]]
  BY <1>2, <1>3, <1>4
<1>8. next'[c][s] = next[c][s] + 1
  BY <1>3, <1>4
<1>9. \A d \in Clients, t \in Followed : d # c \/ t # s => next'[d][t] = next[d][t]
  BY <1>3, <1>4
<1>. QED
  BY <1>2, <1>5, <1>6, <1>7, <1>8, <1>9 DEF Stream

\* Every reachable state of the cluster is of the right type: no file is ever
\* made for the answer that was not asked for.
THEOREM ClusterTypes == ClusterSpec => [](ClusterTypeOK /\ FileAsked)
<1>1. ClusterInit /\ TypeOK => ClusterTypeOK /\ FileAsked
  <2>. SUFFICES ASSUME ClusterInit, TypeOK PROVE ClusterTypeOK /\ FileAsked
    OBVIOUS
  <2>1. 1 \in 1..MaxSegments /\ 1 \in 1..MaxSegments + 1
    BY ClusterAssumption
  <2>2. /\ (CHOOSE c \in Clients : TRUE) \in Clients
        /\ (CHOOSE s \in Followed : TRUE) \in Followed
    BY RouterAssumption, ClusterAssumption
  <2>3. task \in Message
    BY <2>1, <2>2 DEF ClusterInit, Message
  <2>4. next \in [Clients -> [Followed -> 1..MaxSegments + 1]]
    BY <2>1 DEF ClusterInit
  <2>5. <<>> \in Seq(Message)
    OBVIOUS
  <2>6. uplink \in [Clients -> Seq(Message)] /\ tasks \in Seq(Message)
    BY <2>5 DEF ClusterInit
  <2>. QED
    BY <2>3, <2>4, <2>6 DEF ClusterInit, ClusterTypeOK, FileAsked
<1>2. ClusterTypeOK /\ FileAsked /\ TypeOK' /\ [ClusterNext]_clusterVars
        => ClusterTypeOK' /\ FileAsked'
  <2>. SUFFICES ASSUME ClusterTypeOK, FileAsked, TypeOK', [ClusterNext]_clusterVars
                PROVE  ClusterTypeOK' /\ FileAsked'
    OBVIOUS
  <2>1. CASE RouterStep \/ UNCHANGED clusterVars
    BY <2>1 DEF RouterStep, clusterVars, ClusterTypeOK, FileAsked, hops, store
  <2>2. ASSUME NEW c \in Clients, Link(c) PROVE ClusterTypeOK' /\ FileAsked'
    BY <2>2 DEF Link, ClusterTypeOK, FileAsked, store
  <2>3. ASSUME NEW c \in Clients, Forward(c) PROVE ClusterTypeOK' /\ FileAsked'
    <3>1. /\ uplink[c] \in Seq(Message) /\ uplink[c] # <<>>
          /\ uplink' = [uplink EXCEPT ![c] = Tail(uplink[c])]
          /\ tasks' = tasks \/ tasks' = Append(tasks, Head(uplink[c]))
          /\ lost' \in {lost, lost \cup {Head(uplink[c])}}
      BY <2>3 DEF Forward, Lose, ClusterTypeOK
    <3>2. Tail(uplink[c]) \in Seq(Message) /\ Head(uplink[c]) \in Message
      BY <3>1, HeadTailProperties
    <3>3. tasks' \in Seq(Message)
      <4>1. tasks \in Seq(Message)
        BY DEF ClusterTypeOK
      <4>2. \A m \in Message : Append(tasks, m) \in Seq(Message)
        BY <4>1, AppendProperties
      <4>. QED
        BY <3>1, <3>2, <4>1, <4>2
    <3>4. uplink' \in [Clients -> Seq(Message)]
      BY <3>1, <3>2 DEF ClusterTypeOK
    <3>5. lost' \subseteq Message
      BY <3>1, <3>2 DEF ClusterTypeOK
    <3>. QED
      BY <2>3, <3>3, <3>4, <3>5 DEF Forward, ClusterTypeOK, FileAsked
  <2>4. ASSUME NEW c \in Clients, NEW s \in Followed, Stream(c, s)
        PROVE  ClusterTypeOK' /\ FileAsked'
    <3>1. PICK m \in Message :
            /\ lost' \in {lost, lost \cup {m}}
            /\ \/ uplink' = uplink
               \/ \E k \in {1, 2} :
                    uplink' = [uplink EXCEPT ![c] = uplink[c] \o Copies(m, k)]
      BY <2>4, StreamStep
    <3>2. \A k \in {1, 2} : uplink[c] \o Copies(m, k) \in Seq(Message)
      BY CopiesType, ConcatProperties DEF ClusterTypeOK
    <3>3. /\ next' \in [Clients -> [Followed -> 1..MaxSegments + 1]]
          /\ UNCHANGED <<linked, attached, store>>
      BY <2>4, StreamStep
    <3>4. uplink' \in [Clients -> Seq(Message)]
      BY <3>1, <3>2 DEF ClusterTypeOK
    <3>5. lost' \subseteq Message
      BY <3>1 DEF ClusterTypeOK
    <3>. QED
      BY <3>3, <3>4, <3>5 DEF ClusterTypeOK, FileAsked, store
  <2>5. CASE Attach
    BY <2>5 DEF Attach, ClusterTypeOK, FileAsked, store
  <2>6. CASE Take
    <3>1. Head(tasks) \in Message /\ Tail(tasks) \in Seq(Message)
      BY <2>6, HeadTailProperties DEF Take, ClusterTypeOK
    <3>. QED
      BY <2>6, <3>1 DEF Take, ClusterTypeOK, FileAsked, hops
  <2>7. CASE Lookup
    <3>1. streamIds[task.stream] \in JobIds \cup {None}
      BY MessageParts DEF ClusterTypeOK, TypeOK
    <3>. QED
      BY <2>7, <3>1 DEF Lookup, ClusterTypeOK, FileAsked, hops
  <2>8. CASE Remember
    <3>1. jobCache' = [jobCache EXCEPT ![task.stream] = told]
      BY <2>8 DEF Remember
    <3>2. task.stream \in Followed /\ told # Unasked
      BY MessageParts, ClusterAssumption DEF ClusterTypeOK
    <3>3. jobCache'[task.stream] # Unasked
      BY <3>1, <3>2 DEF ClusterTypeOK
    <3>4. jobCache' \in [Followed -> JobIds \cup {None, Unasked}]
      BY <3>1 DEF ClusterTypeOK
    <3>. QED
      BY <2>8, <3>3, <3>4 DEF Remember, ClusterTypeOK, FileAsked, hops
  <2>9. CASE File
    <3>. DEFINE f == [job |-> jobCache[task.stream], client |-> task.client,
                      stream |-> task.stream, n |-> task.n]
    <3>1. jobCache[task.stream] \in JobIds \cup {None}
      BY <2>9, MessageParts DEF File, ClusterTypeOK, FileAsked
    <3>2. f.job # None => f \in [job : JobIds, client : Clients, stream : Followed,
                                 n : 1..MaxSegments]
      BY <3>1, MessageParts DEF ClusterTypeOK
    <3>3. files' \subseteq files \cup (IF f.job = None THEN {} ELSE {f})
      BY <2>9 DEF File
    <3>4. files' \subseteq [job : JobIds, client : Clients, stream : Followed,
                            n : 1..MaxSegments]
      BY <3>2, <3>3 DEF ClusterTypeOK
    <3>5. lost' \subseteq Message
      BY <2>9 DEF File, Lose, Namesakes, ClusterTypeOK
    <3>. QED
      BY <2>9, <3>4, <3>5 DEF File, ClusterTypeOK, FileAsked
  <2>10. CASE RouterDies
    <3>1. PICK k \in 0..Len(tasks) : tasks' = SubSeq(tasks, 1, k)
      BY <2>10 DEF RouterDies
    <3>2. \A i \in 1..k : tasks[i] \in Message
      BY <3>1, ElementOfSeq DEF ClusterTypeOK
    <3>3. tasks' \in Seq(Message)
      BY <3>1, <3>2, SubSeqProperties
    <3>4. uplink' \in [Clients -> Seq(Message)] /\ linked' \subseteq Clients
      BY <2>10 DEF RouterDies
    <3>5. storage' \in {storage, "stuck"}
      BY <2>10 DEF RouterDies
    <3>. QED
      BY <2>10, <3>3, <3>4, <3>5 DEF RouterDies, ClusterTypeOK, FileAsked
  <2>. QED
    BY <2>1, <2>2, <2>3, <2>4, <2>5, <2>6, <2>7, <2>8, <2>9, <2>10, ClusterSteps
<1>. QED
  BY <1>1, <1>2, ClusterRefinesRouter, RouterTypes, PTL DEF ClusterSpec

-----------------------------------------------------------------------------
(* Where segments are. *)

Elements(q) == {q[i] : i \in 1..Len(q)}

\* What is queued is one more element.
LEMMA AppendElements ==
  ASSUME NEW S, NEW q \in Seq(S), NEW e \in S
  PROVE  Elements(Append(q, e)) = Elements(q) \cup {e}
<1>1. /\ Len(Append(q, e)) = Len(q) + 1 /\ Len(q) \in Nat
      /\ \A i \in 1..Len(q) : Append(q, e)[i] = q[i]
      /\ Append(q, e)[Len(q) + 1] = e
  BY AppendProperties
<1>2. 1..Len(q) + 1 = 1..Len(q) \cup {Len(q) + 1}
  BY <1>1
<1>. QED
  BY <1>1, <1>2 DEF Elements

\* What is taken is the first element, and the others stay.
LEMMA TakeElements ==
  ASSUME NEW S, NEW q \in Seq(S), q # <<>>
  PROVE  /\ Head(q) = q[1] /\ 1 \in 1..Len(q) /\ Len(q) \in Nat
         /\ Tail(q) \in Seq(S) /\ Len(Tail(q)) = Len(q) - 1
         /\ \A i \in 1..Len(Tail(q)) : Tail(q)[i] = q[i + 1] /\ i + 1 \in 1..Len(q)
         /\ Elements(q) = {Head(q)} \cup Elements(Tail(q))
<1>1. /\ Head(q) = q[1] /\ Len(q) \in Nat /\ Len(q) > 0
      /\ Tail(q) \in Seq(S) /\ Len(Tail(q)) = Len(q) - 1
      /\ \A i \in 1..Len(Tail(q)) : Tail(q)[i] = q[i + 1]
  BY HeadTailProperties, EmptySeq
<1>2. \A i \in 1..Len(Tail(q)) : i + 1 \in 1..Len(q)
  BY <1>1
<1>3. 1 \in 1..Len(q)
  BY <1>1
<1>4. ASSUME NEW i \in 1..Len(q), i # 1
      PROVE  i - 1 \in 1..Len(Tail(q)) /\ Tail(q)[i - 1] = q[i]
  BY <1>1, <1>4
<1>5. Elements(q) \subseteq {Head(q)} \cup Elements(Tail(q))
  BY <1>1, <1>4 DEF Elements
<1>6. {Head(q)} \cup Elements(Tail(q)) \subseteq Elements(q)
  BY <1>1, <1>2, <1>3 DEF Elements
<1>. QED
  BY <1>1, <1>2, <1>3, <1>5, <1>6

\* Under way from a client to the router, and from there to its file.
Up(c) == Elements(uplink[c])
Down == Elements(tasks) \cup (IF storage = "idle" THEN {} ELSE {task})

\* Only messages are under way.
LEMMA UpDownTypes ==
  ASSUME ClusterTypeOK
  PROVE  /\ \A c \in Clients : Up(c) \subseteq Message
         /\ Down \subseteq Message
BY ElementOfSeq DEF ClusterTypeOK, Up, Down, Elements

\* The router's lambda moves a segment on, if the storage service is attached,
\* the stream is registered and the pipe takes it, and else drops it.
LEMMA ForwardMoves ==
  ASSUME ClusterTypeOK, NEW c \in Clients, Forward(c)
  PROVE  \E h \in Message :
           /\ h = uplink[c][1] /\ uplink[c] # <<>> /\ uplink'[c] = Tail(uplink[c])
           /\ Up(c) = {h} \cup Up(c)'
           /\ \A d \in Clients \ {c} : uplink'[d] = uplink[d]
           /\ \/ Down' = Down
              \/ /\ attached /\ streamIds[h.stream] # None
                 /\ Down' = Down \cup {h}
           /\ attached /\ streamIds[h.stream] # None /\ restarts = 0
                => h \in Down' \cup lost'
           /\ lost' \in {lost, lost \cup {h}}
           /\ UNCHANGED <<vars, next, linked, attached, storage, task, told,
                          jobCache, files>>
<1>1. uplink[c] \in Seq(Message) /\ uplink[c] # <<>> /\ tasks \in Seq(Message)
  BY DEF Forward, ClusterTypeOK
<1>2. PICK h \in Message : h = Head(uplink[c])
  BY <1>1, HeadTailProperties
<1>3. h = uplink[c][1] /\ Elements(uplink[c]) = {h} \cup Elements(Tail(uplink[c]))
  BY <1>1, <1>2, TakeElements
<1>4. uplink' = [uplink EXCEPT ![c] = Tail(uplink[c])]
  BY DEF Forward
<1>5. uplink'[c] = Tail(uplink[c]) /\ \A d \in Clients \ {c} : uplink'[d] = uplink[d]
  BY <1>4 DEF ClusterTypeOK
<1>6. Elements(Append(tasks, h)) = Elements(tasks) \cup {h}
  BY <1>1, AppendElements
<1>. DEFINE published == attached /\ streamIds[h.stream] # None
<1>7. /\ \/ ~published /\ UNCHANGED <<tasks, lost>>
         \/ published /\ tasks' = Append(tasks, h) /\ UNCHANGED lost
         \/ published /\ UNCHANGED tasks /\ Lose({h})
      /\ UNCHANGED <<vars, next, linked, attached, storage, task, told,
                     jobCache, files>>
  BY <1>2 DEF Forward
<1>8. /\ \/ Down' = Down
         \/ published /\ Down' = Down \cup {h}
      /\ published /\ restarts = 0 => h \in Down' \cup lost'
      /\ lost' \in {lost, lost \cup {h}}
  <2>1. CASE ~published /\ UNCHANGED <<tasks, lost>>
    BY <1>7, <2>1 DEF Down
  <2>2. CASE published /\ tasks' = Append(tasks, h) /\ UNCHANGED lost
    <3>1. Down' = Down \cup {h}
      BY <1>6, <1>7, <2>2 DEF Down
    <3>. QED
      BY <2>2, <3>1
  <2>3. CASE published /\ UNCHANGED tasks /\ Lose({h})
    <3>1. Down' = Down
      BY <1>7, <2>3 DEF Down
    <3>. QED
      BY <2>3, <3>1 DEF Lose
  <2>. QED
    BY <1>7, <2>1, <2>2, <2>3
<1>. QED
  BY <1>1, <1>3, <1>5, <1>7, <1>8 DEF Up

\* Copies of m join c's way to the router, which is open.
Joins(c, m) ==
  /\ c \in linked /\ Up(c)' = Up(c) \cup {m}
  /\ Len(uplink[c]) \in Nat /\ Len(uplink'[c]) \in Nat
  /\ Len(uplink[c]) < Len(uplink'[c])
  /\ \A i \in 1..Len(uplink'[c]) :
       uplink'[c][i] = IF i <= Len(uplink[c]) THEN uplink[c][i] ELSE m

\* A client's segment joins the end of its way to the router, or is dropped.
LEMMA StreamMoves ==
  ASSUME ClusterTypeOK, NEW c \in Clients, NEW s \in Followed, Stream(c, s)
  PROVE  \E m \in Message :
           /\ m = [client |-> c, stream |-> s, n |-> next[c][s]]
           /\ \A d \in Clients \ {c} : uplink'[d] = uplink[d]
           /\ lost' \in {lost, lost \cup {m}}
           /\ \/ /\ uplink'[c] = uplink[c] /\ Up(c)' = Up(c)
                 /\ c \in linked /\ restarts = 0 => m \in lost'
              \/ Joins(c, m)
<1>1. PICK m \in Message :
        /\ m = [client |-> c, stream |-> s, n |-> next[c][s]]
        /\ lost' \in {lost, lost \cup {m}}
        /\ \/ /\ uplink' = uplink
              /\ c \in linked /\ restarts = 0 => lost' = lost \cup {m}
           \/ /\ c \in linked
              /\ \E k \in {1, 2} :
                   uplink' = [uplink EXCEPT ![c] = uplink[c] \o Copies(m, k)]
  BY StreamStep
<1>2. CASE /\ uplink' = uplink
           /\ c \in linked /\ restarts = 0 => lost' = lost \cup {m}
  <2>1. Up(c)' = Up(c) /\ \A d \in Clients : uplink'[d] = uplink[d]
    BY <1>2 DEF Up
  <2>. QED
    BY <1>1, <1>2, <2>1
<1>3. ASSUME NEW k \in {1, 2}, c \in linked,
             uplink' = [uplink EXCEPT ![c] = uplink[c] \o Copies(m, k)]
      PROVE  Joins(c, m) /\ \A d \in Clients \ {c} : uplink'[d] = uplink[d]
  <2>. DEFINE q == uplink[c]
              r == Copies(m, k)
  <2>1. /\ \A d \in Clients \ {c} : uplink'[d] = uplink[d]
        /\ uplink'[c] = q \o r
    BY <1>3 DEF ClusterTypeOK
  <2>2. /\ q \in Seq(Message) /\ r \in Seq(Message) /\ Len(r) \in Nat /\ Len(r) > 0
        /\ \A i \in 1..Len(r) : r[i] = m
    BY CopiesType DEF ClusterTypeOK
  <2>. HIDE DEF q, r
  <2>3. /\ Len(q \o r) = Len(q) + Len(r)
        /\ \A i \in 1..Len(q) + Len(r) :
             (q \o r)[i] = IF i <= Len(q) THEN q[i] ELSE r[i - Len(q)]
        /\ Len(q) \in Nat /\ Len(r) \in Nat /\ Len(r) > 0
    BY <2>2, ConcatProperties, LenProperties
  <2>4. ASSUME NEW i \in 1..Len(q \o r)
        PROVE  (q \o r)[i] = IF i <= Len(q) THEN q[i] ELSE m
    <3>1. CASE i <= Len(q)
      BY <2>3, <3>1
    <3>2. CASE ~(i <= Len(q))
      <4>1. i - Len(q) \in 1..Len(r)
        BY <2>3, <3>2
      <4>. QED
        BY <2>2, <2>3, <3>2, <4>1
    <3>. QED
      BY <3>1, <3>2
  <2>5. Elements(q \o r) = Elements(q) \cup {m}
    <3>1. Len(q) + 1 \in 1..Len(q \o r) /\ ~(Len(q) + 1 <= Len(q))
      BY <2>3
    <3>2. \A i \in 1..Len(q) : i \in 1..Len(q \o r) /\ i <= Len(q)
      BY <2>3
    <3>3. \A i \in 1..Len(q \o r) : i <= Len(q) => i \in 1..Len(q)
      BY <2>3
    <3>4. m \in Elements(q \o r)
      BY <2>4, <3>1 DEF Elements
    <3>5. Elements(q) \subseteq Elements(q \o r)
      BY <2>4, <3>2 DEF Elements
    <3>6. Elements(q \o r) \subseteq Elements(q) \cup {m}
      BY <2>4, <3>3 DEF Elements
    <3>. QED
      BY <3>4, <3>5, <3>6
  <2>6. Up(c)' = Up(c) \cup {m}
    BY <2>1, <2>5 DEF Up, q
  <2>7. Len(q \o r) \in Nat /\ Len(q) < Len(q \o r)
    BY <2>3
  <2>. QED
    BY <1>3, <2>1, <2>3, <2>4, <2>6, <2>7 DEF q, Joins
<1>. QED
  BY <1>1, <1>2, <1>3

\* The storage service takes a segment on its hands.
LEMMA TakeKeeps ==
  ASSUME ClusterTypeOK, Take
  PROVE  /\ Down' = Down /\ task' \in Down /\ storage = "idle"
         /\ storage' = IF jobCache[task'.stream] = Unasked THEN "ask" ELSE "file"
         /\ UNCHANGED <<vars, hops, told, jobCache, files>>
<1>1. /\ tasks \in Seq(Message) /\ tasks # <<>> /\ storage = "idle"
      /\ task' = Head(tasks) /\ tasks' = Tail(tasks) /\ storage' # "idle"
  BY DEF Take, ClusterTypeOK
<1>2. Elements(tasks) = {Head(tasks)} \cup Elements(Tail(tasks))
  BY <1>1, TakeElements
<1>. QED
  BY <1>1, <1>2 DEF Take, Down

-----------------------------------------------------------------------------
(* The answers of the registry. *)

\* As long as the router lives its registry only grows.
LEMMA RouterLives ==
  ASSUME TypeOK, FreshStreamsOnly, [ClusterNext]_clusterVars, restarts' = 0
  PROVE  /\ restarts = 0 /\ ~RouterDies
         /\ \A s \in StreamIds : streamIds[s] # None => streamIds'[s] = streamIds[s]
<1>1. ~Restart
  BY DEF Restart, TypeOK
<1>2. [Next]_vars
  BY ClusterStepsRouter
<1>3. restarts' = restarts
  BY <1>1, <1>2 DEF Next, Handle, Send, Receive, Connect, Shutdown, MakeJob,
                    MakeStreams, Signal, Index, Reply, vars, control
<1>. QED
  BY <1>1, <1>2, <1>3, EntriesStay DEF RouterDies

\* The answers the storage service has are the registry's, which only a restart
\* of the router can change: of a stream that is under way to it, on its hands or
\* in a file, the registry has the job.
AnswersTrue ==
  /\ \A m \in Down : streamIds[m.stream] # None
  /\ storage = "told" => told = streamIds[task.stream]
  /\ \A s \in Followed : jobCache[s] # Unasked
                           => streamIds[s] # None /\ jobCache[s] = streamIds[s]
  /\ \A f \in files : streamIds[f.stream] # None /\ f.job = streamIds[f.stream]

\* As long as the router has not died, the service's answers are true.
LEMMA AnswersInv == ClusterSpec => [](restarts = 0 => AnswersTrue)
<1>1. ClusterInit => AnswersTrue
  <2>. SUFFICES ASSUME ClusterInit PROVE AnswersTrue
    OBVIOUS
  <2>1. Down = {}
    BY DEF ClusterInit, Down, Elements
  <2>. QED
    BY <2>1 DEF ClusterInit, AnswersTrue
<1>2. TypeOK /\ FreshStreamsOnly /\ ClusterTypeOK /\ FileAsked
        /\ (restarts = 0 => AnswersTrue) /\ [ClusterNext]_clusterVars
        => (restarts = 0 => AnswersTrue)'
  <2>. SUFFICES ASSUME TypeOK, FreshStreamsOnly, ClusterTypeOK, FileAsked,
                       restarts = 0 => AnswersTrue, [ClusterNext]_clusterVars,
                       restarts' = 0
                PROVE  AnswersTrue'
    OBVIOUS
  <2>1. /\ AnswersTrue /\ ~RouterDies
        /\ \A s \in StreamIds : streamIds[s] # None => streamIds'[s] = streamIds[s]
    BY RouterLives
  <2>2. /\ \A m \in Down : m.stream \in StreamIds
        /\ \A f \in files : f.stream \in StreamIds
        /\ Followed \subseteq StreamIds
    BY UpDownTypes, MessageParts, ClusterAssumption DEF ClusterTypeOK
  <2>3. CASE RouterStep \/ UNCHANGED clusterVars
    <3>1. UNCHANGED <<tasks, storage, task, told, jobCache, files>>
      BY <2>3 DEF RouterStep, clusterVars, hops, store
    <3>2. Down' = Down
      BY <3>1 DEF Down
    <3>3. storage = "told" => task \in Down
      BY DEF Down
    <3>. QED
      BY <2>1, <2>2, <3>1, <3>2, <3>3 DEF AnswersTrue
  <2>4. ASSUME NEW c \in Clients, Link(c) \/ \E s \in Followed : Stream(c, s)
        PROVE  AnswersTrue'
    <3>1. UNCHANGED <<streamIds, tasks, storage, task, told, jobCache, files>>
      BY <2>4 DEF Link, Stream, vars, store
    <3>2. Down' = Down
      BY <3>1 DEF Down
    <3>. QED
      BY <2>1, <3>1, <3>2 DEF AnswersTrue
  <2>5. ASSUME NEW c \in Clients, Forward(c) PROVE AnswersTrue'
    <3>1. PICK h \in Message :
            /\ Down' = Down \/ (streamIds[h.stream] # None /\ Down' = Down \cup {h})
            /\ UNCHANGED <<vars, storage, task, told, jobCache, files>>
      BY <2>5, ForwardMoves
    <3>2. streamIds' = streamIds
      BY <3>1 DEF vars
    <3>. QED
      BY <2>1, <3>1, <3>2 DEF AnswersTrue
  <2>6. CASE Attach
    BY <2>1, <2>6 DEF Attach, vars, store, AnswersTrue, Down
  <2>7. CASE Take
    <3>1. /\ Down' = Down /\ storage' # "told"
          /\ UNCHANGED <<vars, told, jobCache, files>>
      BY <2>7, TakeKeeps
    <3>. QED
      BY <2>1, <3>1 DEF AnswersTrue, vars
  <2>8. CASE Lookup
    BY <2>1, <2>8 DEF Lookup, vars, AnswersTrue, Down
  <2>9. CASE Remember
    <3>1. /\ task \in Down /\ told = streamIds[task.stream] /\ task.stream \in Followed
      BY <2>1, <2>9, MessageParts DEF Remember, Down, AnswersTrue, ClusterTypeOK
    <3>2. \A s \in Followed : jobCache'[s] = IF s = task.stream THEN told ELSE jobCache[s]
      BY <2>9 DEF Remember, ClusterTypeOK
    <3>3. Down' = Down /\ UNCHANGED <<streamIds, files>> /\ storage' # "told"
      BY <2>9 DEF Remember, vars, Down
    <3>4. streamIds[task.stream] # None
      BY <2>1, <3>1 DEF AnswersTrue
    <3>. QED
      BY <2>1, <3>1, <3>2, <3>3, <3>4 DEF AnswersTrue
  <2>10. CASE File
    <3>. DEFINE f == [job |-> jobCache[task.stream], client |-> task.client,
                      stream |-> task.stream, n |-> task.n]
    <3>1. /\ files' \subseteq files \cup {f} /\ UNCHANGED <<streamIds, jobCache, told>>
          /\ storage' = "idle" /\ tasks' = tasks
          /\ jobCache[task.stream] # Unasked /\ task.stream \in Followed
      BY <2>10, MessageParts DEF File, vars, FileAsked, ClusterTypeOK
    <3>2. Down' \subseteq Down
      BY <3>1 DEF Down
    <3>3. streamIds[f.stream] # None /\ f.job = streamIds[f.stream]
      BY <2>1, <3>1 DEF AnswersTrue
    <3>. QED
      BY <2>1, <3>1, <3>2, <3>3 DEF AnswersTrue
  <2>. QED
    BY <2>1, <2>3, <2>4, <2>5, <2>6, <2>7, <2>8, <2>9, <2>10, ClusterSteps
<1>. QED
  BY <1>1, <1>2, ClusterRefinesRouter, RouterTypes, FreshInv, ClusterTypes, PTL
  DEF ClusterSpec

\* As long as the router lives, the storage service never caches that a stream
\* is unknown: for every number of clients, streams and segments, whatever the
\* registration, the segments and the queries overtake.
THEOREM KnownCorrect == ClusterSpec => []NeverWrittenOff
<1>1. ClusterTypeOK /\ (restarts = 0 => AnswersTrue) => NeverWrittenOff
  <2>1. None # Unasked
    BY ClusterAssumption
  <2>. QED
    BY <2>1 DEF NeverWrittenOff, AnswersTrue
<1>. QED
  BY <1>1, AnswersInv, ClusterTypes, PTL

-----------------------------------------------------------------------------
(* The job a segment is filed under. *)

\* Only accepted clients have segments anywhere.
SendersAccepted ==
  /\ \A c \in Clients : \A m \in Up(c) : m.client = c /\ c \in Accepted
  /\ \A m \in Down : m.client \in Accepted
  /\ \A f \in files : f.client \in Accepted

\* A client that was accepted stays so.
LEMMA AcceptedStay ==
  ASSUME TypeOK, Served, [Next]_vars
  PROVE  Accepted \subseteq Accepted'
<1>. SUFFICES ASSUME NEW c \in Clients, client[c] = "accepted"
              PROVE  client'[c] = "accepted"
  BY DEF Accepted
<1>1. ASSUME NEW d \in Clients, Send(d) \/ Receive(d) PROVE client'[c] = "accepted"
  BY <1>1 DEF Send, Receive, TypeOK
<1>2. CASE Handle
  BY <1>2 DEF Handle, MakeJob, MakeStreams, Signal, Index, Reply, Proceed, TypeOK
<1>3. CASE Connect \/ Shutdown \/ UNCHANGED vars
  BY <1>3 DEF Connect, Shutdown, vars
<1>4. CASE Restart
  BY <1>4, NoneAssumption DEF Restart, Served, TypeOK
<1>. QED
  BY <1>1, <1>2, <1>3, <1>4 DEF Next

\* Only clients whose job the router accepted send segments.
LEMMA SendersInv == ClusterSpec => []SendersAccepted
<1>1. ClusterInit => SendersAccepted
  <2>. SUFFICES ASSUME ClusterInit PROVE SendersAccepted
    OBVIOUS
  <2>1. Down = {} /\ \A c \in Clients : Up(c) = {}
    BY DEF ClusterInit, Down, Up, Elements
  <2>. QED
    BY <2>1 DEF ClusterInit, SendersAccepted
<1>2. TypeOK /\ Served /\ ClusterTypeOK /\ SendersAccepted
        /\ [ClusterNext]_clusterVars => SendersAccepted'
  <2>. SUFFICES ASSUME TypeOK, Served, ClusterTypeOK, SendersAccepted,
                       [ClusterNext]_clusterVars
                PROVE  SendersAccepted'
    OBVIOUS
  <2>1. Accepted \subseteq Accepted'
    BY AcceptedStay, ClusterStepsRouter
  <2>2. CASE RouterStep \/ Attach \/ UNCHANGED clusterVars
    <3>1. UNCHANGED <<uplink, tasks, storage, task, files>>
      BY <2>2 DEF RouterStep, Attach, clusterVars, hops, store
    <3>2. Down' = Down /\ \A c \in Clients : Up(c)' = Up(c)
      BY <3>1 DEF Down, Up
    <3>. QED
      BY <2>1, <3>1, <3>2 DEF SendersAccepted
  <2>3. ASSUME NEW c \in Clients, Link(c) PROVE SendersAccepted'
    BY <2>1, <2>3 DEF Link, store, SendersAccepted, Down, Up
  <2>4. ASSUME NEW c \in Clients, NEW s \in Followed, Stream(c, s)
        PROVE  SendersAccepted'
    <3>1. PICK m \in Message :
            /\ m = [client |-> c, stream |-> s, n |-> next[c][s]]
            /\ \A d \in Clients \ {c} : uplink'[d] = uplink[d]
            /\ Up(c)' = Up(c) \/ Up(c)' = Up(c) \cup {m}
      BY <2>4, StreamMoves DEF Joins
    <3>2. m.client = c /\ c \in Accepted /\ Down' = Down /\ files' = files
      BY <2>4, <3>1 DEF Stream, Accepted, store, Down
    <3>3. \A d \in Clients \ {c} : Up(d)' = Up(d)
      BY <3>1 DEF Up
    <3>. QED
      BY <2>1, <3>1, <3>2, <3>3 DEF SendersAccepted
  <2>5. ASSUME NEW c \in Clients, Forward(c) PROVE SendersAccepted'
    <3>1. PICK h \in Message :
            /\ Up(c) = {h} \cup Up(c)' /\ \A d \in Clients \ {c} : uplink'[d] = uplink[d]
            /\ Down' = Down \/ Down' = Down \cup {h}
            /\ files' = files
      BY <2>5, ForwardMoves
    <3>2. \A d \in Clients \ {c} : Up(d)' = Up(d)
      BY <3>1 DEF Up
    <3>. QED
      BY <2>1, <3>1, <3>2 DEF SendersAccepted
  <2>6. CASE Take
    <3>1. Down' = Down /\ UNCHANGED <<uplink, files>>
      BY <2>6, TakeKeeps DEF hops
    <3>2. \A c \in Clients : Up(c)' = Up(c)
      BY <3>1 DEF Up
    <3>. QED
      BY <2>1, <3>1, <3>2 DEF SendersAccepted
  <2>7. CASE Lookup \/ Remember
    <3>1. Down' = Down /\ UNCHANGED <<uplink, files>>
      BY <2>7 DEF Lookup, Remember, hops, Down
    <3>2. \A c \in Clients : Up(c)' = Up(c)
      BY <3>1 DEF Up
    <3>. QED
      BY <2>1, <3>1, <3>2 DEF SendersAccepted
  <2>8. CASE File
    <3>. DEFINE f == [job |-> jobCache[task.stream], client |-> task.client,
                      stream |-> task.stream, n |-> task.n]
    <3>1. /\ files' \subseteq files \cup {f} /\ UNCHANGED <<uplink, tasks, task>>
          /\ storage = "file" /\ storage' = "idle"
      BY <2>8 DEF File
    <3>2. Down' \subseteq Down /\ task \in Down /\ \A c \in Clients : Up(c)' = Up(c)
      BY <3>1 DEF Down, Up
    <3>. QED
      BY <2>1, <3>1, <3>2 DEF SendersAccepted
  <2>9. CASE RouterDies
    <3>1. PICK k \in 0..Len(tasks) : tasks' = SubSeq(tasks, 1, k)
      BY <2>9 DEF RouterDies
    <3>2. Len(tasks') = k /\ \A i \in 1..k : tasks'[i] = tasks[i] /\ i \in 1..Len(tasks)
      BY <3>1 DEF ClusterTypeOK
    <3>3. Down' \subseteq Down
      BY <2>9, <3>2 DEF RouterDies, Down, Elements
    <3>4. \A c \in Clients : Up(c)' = {}
      BY <2>9 DEF RouterDies, Up, Elements
    <3>5. files' = files
      BY <2>9 DEF RouterDies
    <3>. QED
      BY <2>1, <3>3, <3>4, <3>5 DEF SendersAccepted
  <2>. QED
    BY <2>2, <2>3, <2>4, <2>5, <2>6, <2>7, <2>8, <2>9, ClusterSteps
<1>. QED
  BY <1>1, <1>2, ClusterRefinesRouter, RouterTypes, ClusterTypes, PTL DEF ClusterSpec

\* Segments are filed under the job their client was given, if the registry was
\* told of it and took the stream's id: for every set of clients, whatever ids
\* they propose and however their segments mix.
THEOREM FiledCorrect == ClusterSpec => []FiledRight
<1>1. ClusterTypeOK /\ AllRegistered /\ SendersAccepted
        /\ (restarts = 0 => AnswersTrue) => FiledRight
  <2>. SUFFICES ASSUME ClusterTypeOK, AllRegistered, SendersAccepted, AnswersTrue,
                       NEW f \in files, f.client \notin unheard,
                       f.stream \in answer[f.client].streamIds
                PROVE  f.job = answer[f.client].jobId
    BY DEF FiledRight
  <2>1. f.client \in Clients /\ Heard(f.client)
    BY DEF SendersAccepted, Heard, Accepted
  <2>2. streamIds[f.stream] = answer[f.client].jobId
    BY <2>1 DEF AllRegistered, Registered
  <2>. QED
    BY <2>2 DEF AnswersTrue
<1>. QED
  BY <1>1, ClusterTypes, AllRegisteredInv, SendersInv, AnswersInv,
     ClusterRefinesRouter, PTL

-----------------------------------------------------------------------------
(* No holes. *)

\* A stream's segments keep their order on the way to the router, behind a
\* subscription, and are older than the next to be sent.
InLine ==
  \A c \in Clients :
    /\ \A i, j \in 1..Len(uplink[c]) :
         i < j /\ uplink[c][i].stream = uplink[c][j].stream
           => uplink[c][i].n <= uplink[c][j].n
    /\ \A m \in Up(c) : c \in linked /\ m.n < next[c][m.stream]

\* The steps that leave the clients' ways to the router alone.
LEMMA UplinkKept ==
  ASSUME [ClusterNext]_clusterVars
  PROVE  \/ UNCHANGED <<uplink, linked, next>>
         \/ uplink' = uplink /\ next' = next /\ linked \subseteq linked'
         \/ \E c \in Clients : Forward(c) \/ \E s \in Followed : Stream(c, s)
         \/ RouterDies
<1>1. CASE RouterStep \/ Attach \/ Take \/ Lookup \/ Remember \/ File
           \/ UNCHANGED clusterVars
  BY <1>1 DEF RouterStep, Attach, Take, Lookup, Remember, File, clusterVars, hops
<1>2. ASSUME NEW c \in Clients, Link(c)
      PROVE  uplink' = uplink /\ next' = next /\ linked \subseteq linked'
  BY <1>2 DEF Link
<1>. QED
  BY <1>1, <1>2, ClusterSteps

\* On a client's way to the router a stream's segments keep their order.
LEMMA InLineInv == ClusterSpec => []InLine
<1>1. ClusterInit => InLine
  BY DEF ClusterInit, InLine, Up, Elements
<1>2. ClusterTypeOK /\ InLine /\ [ClusterNext]_clusterVars => InLine'
  <2>. SUFFICES ASSUME ClusterTypeOK, InLine, [ClusterNext]_clusterVars
                PROVE  InLine'
    OBVIOUS
  <2>0. \A c \in Clients : /\ uplink[c] \in Seq(Message) /\ Len(uplink[c]) \in Nat
                           /\ \A i \in 1..Len(uplink[c]) : uplink[c][i] \in Message
    BY ElementOfSeq, LenProperties DEF ClusterTypeOK
  <2>1. ASSUME NEW c \in Clients, Forward(c) PROVE InLine'
    <3>1. PICK h \in Message :
            /\ uplink[c] # <<>> /\ uplink'[c] = Tail(uplink[c])
            /\ Up(c) = {h} \cup Up(c)'
            /\ \A d \in Clients \ {c} : uplink'[d] = uplink[d]
            /\ UNCHANGED <<next, linked>>
      BY <2>1, ForwardMoves
    <3>2. /\ Len(uplink'[c]) = Len(uplink[c]) - 1 /\ Len(uplink[c]) \in Nat
          /\ \A i \in 1..Len(uplink'[c]) : /\ uplink'[c][i] = uplink[c][i + 1]
                                           /\ i + 1 \in 1..Len(uplink[c])
      BY <2>0, <3>1, TakeElements
    <3>3. ASSUME NEW i \in 1..Len(uplink'[c]), NEW j \in 1..Len(uplink'[c]),
                 i < j, uplink'[c][i].stream = uplink'[c][j].stream
          PROVE  uplink'[c][i].n <= uplink'[c][j].n
      <4>1. i + 1 < j + 1
        BY <3>2, <3>3
      <4>. QED
        BY <3>2, <3>3, <4>1 DEF InLine
    <3>4. \A d \in Clients \ {c} : Up(d)' = Up(d)
      BY <3>1 DEF Up
    <3>5. ASSUME NEW d \in Clients \ {c}
          PROVE  \A i, j \in 1..Len(uplink'[d]) :
                   i < j /\ uplink'[d][i].stream = uplink'[d][j].stream
                     => uplink'[d][i].n <= uplink'[d][j].n
      <4>1. uplink'[d] = uplink[d]
        BY <3>1
      <4>. QED
        BY <4>1 DEF InLine
    <3>6. \A d \in Clients : \A x \in Up(d)' : d \in linked' /\ x.n < next'[d][x.stream]
      BY <3>1, <3>4 DEF InLine
    <3>7. \A d \in Clients : \A i, j \in 1..Len(uplink'[d]) :
            i < j /\ uplink'[d][i].stream = uplink'[d][j].stream
              => uplink'[d][i].n <= uplink'[d][j].n
      BY <3>3, <3>5
    <3>. QED
      BY <3>6, <3>7 DEF InLine
  <2>2. ASSUME NEW c \in Clients, NEW s \in Followed, Stream(c, s) PROVE InLine'
    <3>1. PICK m \in Message :
            /\ m = [client |-> c, stream |-> s, n |-> next[c][s]]
            /\ \A d \in Clients \ {c} : uplink'[d] = uplink[d]
            /\ (uplink'[c] = uplink[c] /\ Up(c)' = Up(c)) \/ Joins(c, m)
      BY <2>2, StreamMoves
    <3>2. /\ linked' = linked /\ next'[c][s] = next[c][s] + 1
          /\ next[c][s] \in Nat
          /\ \A d \in Clients, t \in Followed :
               d # c \/ t # s => next'[d][t] = next[d][t]
      BY <2>2, StreamStep
    <3>3. m.stream = s /\ m.n = next[c][s]
      BY <3>1
    <3>4. \A d \in Clients, t \in Followed :
            next[d][t] \in Nat /\ next'[d][t] \in Nat /\ next[d][t] <= next'[d][t]
      <4>1. \A d \in Clients, t \in Followed : next[d][t] \in 1..MaxSegments + 1
        BY DEF ClusterTypeOK
      <4>2. \A d \in Clients, t \in Followed : next[d][t] \in Nat
        BY <4>1, ClusterAssumption
      <4>. QED
        BY <3>2, <4>2
    <3>5. \A d \in Clients : \A x \in Up(d) :
            x.stream \in Followed /\ x.n \in Nat /\ x.n < next[d][x.stream]
      BY UpDownTypes, MessageParts DEF InLine
    <3>6. \A d \in Clients : \A x \in Up(d)' : d \in linked' /\ x.n < next'[d][x.stream]
      <4>1. \A d \in Clients \ {c} : Up(d)' = Up(d)
        BY <3>1 DEF Up
      <4>2. \A d \in Clients : \A x \in Up(d) : d \in linked /\ x.n < next'[d][x.stream]
        BY <3>4, <3>5 DEF InLine
      <4>3. m.n < next'[c][m.stream]
        BY <3>2, <3>3
      <4>4. Up(c)' = Up(c) \/ (c \in linked /\ Up(c)' = Up(c) \cup {m})
        BY <3>1 DEF Joins
      <4>. QED
        BY <3>2, <4>1, <4>2, <4>3, <4>4
    <3>7. ASSUME NEW i \in 1..Len(uplink'[c]), NEW j \in 1..Len(uplink'[c]),
                 i < j, uplink'[c][i].stream = uplink'[c][j].stream, Joins(c, m)
          PROVE  uplink'[c][i].n <= uplink'[c][j].n
      <4>. USE DEF Joins
      <4>1. CASE j <= Len(uplink[c])
        <5>1. i \in 1..Len(uplink[c]) /\ j \in 1..Len(uplink[c]) /\ i <= Len(uplink[c])
          BY <3>1, <3>7, <4>1
        <5>. QED
          BY <3>1, <3>7, <4>1, <5>1 DEF InLine
      <4>2. CASE ~(j <= Len(uplink[c])) /\ i <= Len(uplink[c])
        <5>1. i \in 1..Len(uplink[c]) /\ uplink'[c][i] = uplink[c][i]
              /\ uplink'[c][j] = m
          BY <3>1, <3>7, <4>2
        <5>2. uplink[c][i] \in Up(c)
          BY <5>1 DEF Up, Elements
        <5>3. uplink[c][i].n < next[c][uplink[c][i].stream] /\ uplink[c][i].n \in Nat
          BY <3>5, <5>2
        <5>. QED
          BY <3>2, <3>3, <3>7, <5>1, <5>3
      <4>3. CASE ~(j <= Len(uplink[c])) /\ ~(i <= Len(uplink[c]))
        <5>1. uplink'[c][i] = m /\ uplink'[c][j] = m
          BY <3>1, <3>7, <4>3
        <5>. QED
          BY <3>2, <3>3, <5>1
      <4>. QED
        BY <4>1, <4>2, <4>3
    <3>8. ASSUME NEW d \in Clients, d # c \/ uplink'[c] = uplink[c]
          PROVE  \A i, j \in 1..Len(uplink'[d]) :
                   i < j /\ uplink'[d][i].stream = uplink'[d][j].stream
                     => uplink'[d][i].n <= uplink'[d][j].n
      <4>1. uplink'[d] = uplink[d]
        BY <3>1, <3>8
      <4>. QED
        BY <4>1 DEF InLine
    <3>9. ASSUME NEW d \in Clients
          PROVE  \A i, j \in 1..Len(uplink'[d]) :
                   i < j /\ uplink'[d][i].stream = uplink'[d][j].stream
                     => uplink'[d][i].n <= uplink'[d][j].n
      BY <3>1, <3>7, <3>8
    <3>. QED
      BY <3>6, <3>9 DEF InLine
  <2>3. CASE UNCHANGED <<uplink, linked, next>>
    BY <2>3 DEF InLine, Up
  <2>4. CASE uplink' = uplink /\ next' = next /\ linked \subseteq linked'
    BY <2>4 DEF InLine, Up
  <2>5. CASE RouterDies
    BY <2>5 DEF RouterDies, InLine, Up, Elements
  <2>. QED
    BY <2>1, <2>2, <2>3, <2>4, <2>5, UplinkKept
<1>. QED
  BY <1>1, <1>2, ClusterTypes, PTL DEF ClusterSpec

\* What has passed the router, is on the storage service's hands or in a file,
\* came through subscriptions that are still there.
PathOpen ==
  /\ \A m \in Down : attached /\ m.client \in linked
  /\ \A f \in files : attached /\ f.client \in linked

\* As long as the router has not died, the ways segments took stay open.
LEMMA OpenInv == ClusterSpec => [](restarts = 0 => PathOpen)
<1>1. ClusterInit => PathOpen
  BY DEF ClusterInit, PathOpen, Down, Elements
<1>2. TypeOK /\ FreshStreamsOnly /\ ClusterTypeOK /\ SendersAccepted /\ InLine
        /\ (restarts = 0 => PathOpen) /\ [ClusterNext]_clusterVars
        => (restarts = 0 => PathOpen)'
  <2>. SUFFICES ASSUME TypeOK, FreshStreamsOnly, ClusterTypeOK, SendersAccepted, InLine,
                       restarts = 0 => PathOpen, [ClusterNext]_clusterVars,
                       restarts' = 0
                PROVE  PathOpen'
    OBVIOUS
  <2>1. PathOpen /\ ~RouterDies
    BY RouterLives
  <2>2. CASE RouterStep \/ UNCHANGED clusterVars
    BY <2>1, <2>2 DEF RouterStep, clusterVars, hops, store, PathOpen, Down
  <2>3. ASSUME NEW c \in Clients, Link(c) \/ \E s \in Followed : Stream(c, s)
        PROVE  PathOpen'
    <3>1. /\ UNCHANGED <<attached, tasks, storage, task, files>>
          /\ linked \subseteq linked'
      BY <2>3 DEF Link, Stream, store
    <3>2. Down' = Down
      BY <3>1 DEF Down
    <3>. QED
      BY <2>1, <3>1, <3>2 DEF PathOpen
  <2>4. ASSUME NEW c \in Clients, Forward(c) PROVE PathOpen'
    <3>1. PICK h \in Message :
            /\ Up(c) = {h} \cup Up(c)'
            /\ Down' = Down \/ (attached /\ Down' = Down \cup {h})
            /\ UNCHANGED <<linked, attached, files>>
      BY <2>4, ForwardMoves
    <3>2. h.client = c /\ c \in linked
      BY <3>1 DEF SendersAccepted, InLine
    <3>. QED
      BY <2>1, <3>1, <3>2 DEF PathOpen
  <2>5. CASE Attach
    BY <2>1, <2>5 DEF Attach, store, PathOpen, Down
  <2>6. CASE Take
    <3>1. Down' = Down /\ UNCHANGED <<linked, attached, files>>
      BY <2>6, TakeKeeps DEF hops
    <3>. QED
      BY <2>1, <3>1 DEF PathOpen
  <2>7. CASE Lookup \/ Remember
    BY <2>1, <2>7 DEF Lookup, Remember, hops, PathOpen, Down
  <2>8. CASE File
    <3>. DEFINE f == [job |-> jobCache[task.stream], client |-> task.client,
                      stream |-> task.stream, n |-> task.n]
    <3>1. /\ files' \subseteq files \cup {f} /\ UNCHANGED <<linked, attached>>
          /\ tasks' = tasks /\ task' = task
          /\ storage = "file" /\ storage' = "idle"
      BY <2>8 DEF File
    <3>2. Down' \subseteq Down /\ task \in Down
      BY <3>1 DEF Down
    <3>3. attached /\ f.client \in linked
      BY <2>1, <3>2 DEF PathOpen
    <3>. QED
      BY <2>1, <3>1, <3>2, <3>3 DEF PathOpen
  <2>. QED
    BY <2>1, <2>2, <2>3, <2>4, <2>5, <2>6, <2>7, <2>8, ClusterSteps
<1>. QED
  BY <1>1, <1>2, ClusterRefinesRouter, RouterTypes, FreshInv, ClusterTypes,
     SendersInv, InLineInv, PTL DEF ClusterSpec

\* c's segment n of stream s, under way, or in a file of c's.
Segment(c, s, n) == [client |-> c, stream |-> s, n |-> n]
Moving(c, s, n) == Segment(c, s, n) \in Up(c) \cup Down
InFile(c, s, n) == \E f \in files : f.client = c /\ f.stream = s /\ f.n = n

\* Behind a segment that is under way, or in a file, no later one is missing,
\* but for those that a full pipe or a file failed.
Followers ==
  \A c \in Clients, s \in Followed, n, k \in 1..MaxSegments :
    (Moving(c, s, n) \/ InFile(c, s, n)) /\ n < k /\ k < next[c][s]
      => Filed(s, k) \/ Moving(c, s, k) \/ Segment(c, s, k) \in lost

\* The steps that move no segment keep that.
LEMMA FollowersKept ==
  ASSUME Followers, next' = next, files' = files, Down' = Down, uplink' = uplink,
         lost' = lost
  PROVE  Followers'
<1>1. \A c \in Clients : Up(c)' = Up(c)
  BY DEF Up
<1>2. \A c \in Clients : \A s, n : Moving(c, s, n)' <=> Moving(c, s, n)
  BY <1>1 DEF Moving
<1>. QED
  BY <1>2 DEF Followers, InFile, Filed

\* A new segment is the last of its stream, and under way if anything of the
\* stream is, or lost.
LEMMA StreamFollows ==
  ASSUME restarts = 0, ClusterTypeOK, InLine, PathOpen, Followers,
         NEW c \in Clients, NEW s \in Followed, Stream(c, s)
  PROVE  Followers'
<1>1. PICK m \in Message :
        /\ m = Segment(c, s, next[c][s])
        /\ \A d \in Clients \ {c} : uplink'[d] = uplink[d]
        /\ lost' \in {lost, lost \cup {m}}
        /\ \/ Up(c)' = Up(c) /\ (c \in linked => m \in lost')
           \/ Up(c)' = Up(c) \cup {m}
  BY StreamMoves DEF Segment, Joins
<1>2. /\ next[c][s] \in 1..MaxSegments /\ next'[c][s] = next[c][s] + 1
      /\ \A d \in Clients, t \in Followed : d # c \/ t # s => next'[d][t] = next[d][t]
      /\ UNCHANGED <<tasks, storage, task, files>>
  BY StreamStep DEF store
<1>3. Down' = Down /\ \A d \in Clients \ {c} : Up(d)' = Up(d)
  BY <1>1, <1>2 DEF Down, Up
<1>4. SUFFICES ASSUME NEW d \in Clients, NEW t \in Followed,
                      NEW n \in 1..MaxSegments, NEW k \in 1..MaxSegments,
                      Moving(d, t, n)' \/ InFile(d, t, n)', n < k, k < next'[d][t]
               PROVE  Filed(t, k)' \/ Moving(d, t, k)' \/ Segment(d, t, k) \in lost'
  BY DEF Followers
<1>5. (InFile(d, t, n)' <=> InFile(d, t, n)) /\ (Filed(t, k)' <=> Filed(t, k))
  BY <1>2 DEF InFile, Filed
<1>6. Moving(d, t, k) => Moving(d, t, k)'
  BY <1>1, <1>3 DEF Moving
<1>7. CASE d # c \/ t # s
  <2>1. Segment(d, t, n) # m
    BY <1>1, <1>7 DEF Segment
  <2>2. Moving(d, t, n)' => Moving(d, t, n)
    BY <1>1, <1>3, <2>1 DEF Moving
  <2>3. k < next[d][t]
    BY <1>2, <1>4, <1>7
  <2>. QED
    BY <1>1, <1>4, <1>5, <1>6, <2>2, <2>3 DEF Followers
<1>8. CASE d = c /\ t = s
  <2>1. n # next[c][s] /\ n \in Nat /\ k \in Nat /\ k <= next[c][s]
    BY <1>2, <1>4, <1>8, ClusterAssumption
  <2>2. Segment(c, s, n) # m
    BY <1>1, <2>1 DEF Segment
  <2>3. Moving(c, s, n) \/ InFile(c, s, n)
    BY <1>1, <1>3, <1>4, <1>5, <1>8, <2>2 DEF Moving
  <2>4. c \in linked
    <3>1. Segment(c, s, n).client = c
      BY DEF Segment
    <3>2. CASE Segment(c, s, n) \in Up(c)
      BY <3>2 DEF InLine
    <3>3. CASE Segment(c, s, n) \in Down
      BY <3>1, <3>3 DEF PathOpen
    <3>4. CASE InFile(c, s, n)
      BY <3>4 DEF InFile, PathOpen
    <3>. QED
      BY <2>3, <3>2, <3>3, <3>4 DEF Moving
  <2>5. CASE k = next[c][s]
    BY <1>1, <1>8, <2>4, <2>5 DEF Moving
  <2>6. CASE k < next[c][s]
    BY <1>1, <1>4, <1>5, <1>6, <1>8, <2>3, <2>6 DEF Followers
  <2>. QED
    BY <1>2, <2>1, <2>5, <2>6
<1>. QED
  BY <1>7, <1>8

\* A segment that the lambda drops is the first that is under way of its stream,
\* or lost.
LEMMA ForwardFollows ==
  ASSUME restarts = 0, ClusterTypeOK, SendersAccepted, InLine, PathOpen, AnswersTrue, Followers,
         NEW c \in Clients, Forward(c)
  PROVE  Followers'
<1>1. PICK h \in Message :
        /\ h = uplink[c][1] /\ uplink[c] # <<>> /\ uplink'[c] = Tail(uplink[c])
        /\ Up(c) = {h} \cup Up(c)'
        /\ \A d \in Clients \ {c} : uplink'[d] = uplink[d]
        /\ Down' = Down \/ Down' = Down \cup {h}
        /\ attached /\ streamIds[h.stream] # None => h \in Down' \cup lost'
        /\ lost' \in {lost, lost \cup {h}}
        /\ UNCHANGED <<next, files>>
  BY ForwardMoves
<1>2. /\ h.client = c /\ h.n \in Nat
      /\ \A d \in Clients \ {c} : Up(d)' = Up(d)
  BY <1>1, MessageParts DEF SendersAccepted, Up
<1>3. SUFFICES ASSUME NEW d \in Clients, NEW t \in Followed,
                      NEW n \in 1..MaxSegments, NEW k \in 1..MaxSegments,
                      Moving(d, t, n)' \/ InFile(d, t, n)', n < k, k < next[d][t]
               PROVE  Filed(t, k)' \/ Moving(d, t, k)' \/ Segment(d, t, k) \in lost'
  BY <1>1 DEF Followers
<1>4. (InFile(d, t, n)' <=> InFile(d, t, n)) /\ (Filed(t, k)' <=> Filed(t, k))
  BY <1>1 DEF InFile, Filed
<1>5. \A i \in 1..MaxSegments :
        /\ Segment(d, t, i).client = d /\ Segment(d, t, i).stream = t
        /\ Segment(d, t, i).n = i
  BY DEF Segment
<1>6. Moving(d, t, n)' => Moving(d, t, n)
  BY <1>1, <1>2, <1>5 DEF Moving
<1>7. Filed(t, k) \/ Moving(d, t, k) \/ Segment(d, t, k) \in lost
  BY <1>3, <1>4, <1>6 DEF Followers
<1>8. CASE Segment(d, t, k) # h
  BY <1>1, <1>2, <1>4, <1>7, <1>8 DEF Moving
<1>9. CASE Segment(d, t, k) = h
  <2>1. d = c /\ t = h.stream /\ k = h.n
    BY <1>2, <1>5, <1>9
  <2>2. CASE Segment(d, t, n) \in Up(c)'
    <3>1. PICK i \in 1..Len(uplink'[c]) : uplink'[c][i] = Segment(d, t, n)
      BY <2>2 DEF Up, Elements
    <3>2. /\ uplink'[c][i] = uplink[c][i + 1] /\ i + 1 \in 1..Len(uplink[c])
          /\ 1 \in 1..Len(uplink[c]) /\ i \in Nat /\ i >= 1
      <4>1. uplink[c] \in Seq(Message)
        BY DEF ClusterTypeOK
      <4>. QED
        BY <1>1, <3>1, <4>1, TakeElements
    <3>3. 1 < i + 1
      BY <3>2
    <3>4. uplink[c][1].n <= uplink[c][i + 1].n
      <4>1. uplink[c][1].stream = uplink[c][i + 1].stream
        <5>1. uplink[c][1] = h
          BY <1>1
        <5>2. uplink[c][i + 1] = Segment(d, t, n)
          BY <3>1, <3>2
        <5>. QED
          BY <1>5, <2>1, <5>1, <5>2
      <4>. QED
        BY <3>2, <3>3, <4>1 DEF InLine
    <3>5. h.n <= n
      <4>1. uplink[c][i + 1].n = n
        BY <3>1, <3>2 DEF Segment
      <4>. QED
        BY <1>1, <3>4, <4>1
    <3>. QED
      BY <1>2, <1>3, <2>1, <3>5
  <2>3. CASE Segment(d, t, n) \in Down \/ InFile(d, t, n)
    <3>1. attached /\ streamIds[h.stream] # None
      BY <1>5, <2>1, <2>3 DEF PathOpen, AnswersTrue, InFile
    <3>. QED
      BY <1>1, <1>9, <3>1 DEF Moving
  <2>4. CASE Segment(d, t, n) = h
    BY <1>2, <1>3, <1>5, <2>1, <2>4
  <2>. QED
    BY <1>1, <1>3, <1>4, <2>1, <2>2, <2>3, <2>4 DEF Moving
<1>. QED
  BY <1>8, <1>9

\* A segment that is filed is in a file from then on, and the one it replaces
\* had the same number; if the file fails, all those of its name are lost.
LEMMA FileFollows ==
  ASSUME restarts = 0, ClusterTypeOK, FileAsked, AnswersTrue, Followers, File
  PROVE  Followers'
<1>. DEFINE f == [job |-> jobCache[task.stream], client |-> task.client,
                  stream |-> task.stream, n |-> task.n]
<1>1. /\ storage = "file" /\ storage' = "idle"
      /\ UNCHANGED <<next, uplink, tasks, task>>
      /\ task \in Message
  BY DEF File, ClusterTypeOK
<1>2. jobCache[task.stream] # None
  <2>1. task.stream \in Followed /\ jobCache[task.stream] # Unasked
    BY <1>1, MessageParts DEF FileAsked
  <2>. QED
    BY <2>1 DEF AnswersTrue
<1>. DEFINE others == {g \in files : ~SameFile(f, g)}
<1>3. \/ files' = others \cup {f} /\ lost' = lost
      \/ files' \in {files, others} /\ lost' = lost \cup Namesakes
  BY <1>2 DEF File, Lose
<1>4. Down = Down' \cup {task} /\ \A c \in Clients : Up(c)' = Up(c)
  BY <1>1 DEF Down, Up
<1>5. SUFFICES ASSUME NEW c \in Clients, NEW s \in Followed,
                      NEW n \in 1..MaxSegments, NEW k \in 1..MaxSegments,
                      Moving(c, s, n)' \/ InFile(c, s, n)', n < k, k < next[c][s]
               PROVE  Filed(s, k)' \/ Moving(c, s, k)' \/ Segment(c, s, k) \in lost'
  BY <1>1 DEF Followers
<1>6. Moving(c, s, n)' => Moving(c, s, n)
  BY <1>4 DEF Moving
<1>7. InFile(c, s, n)' => InFile(c, s, n) \/ Moving(c, s, n)
  <2>. SUFFICES ASSUME NEW g \in files', g.client = c, g.stream = s, g.n = n
                PROVE  InFile(c, s, n) \/ Moving(c, s, n)
    BY DEF InFile
  <2>1. CASE g \in files
    BY <2>1 DEF InFile
  <2>2. CASE g = f
    <3>1. task = Segment(c, s, n)
      BY <1>1, <2>2, MessageParts DEF Segment
    <3>. QED
      BY <1>4, <3>1 DEF Moving
  <2>. QED
    BY <1>3, <2>1, <2>2
<1>8. Filed(s, k) \/ Moving(c, s, k) \/ Segment(c, s, k) \in lost
  BY <1>5, <1>6, <1>7 DEF Followers
<1>9. f.stream = s /\ f.n = k => Filed(s, k)' \/ Segment(c, s, k) \in lost'
  <2>1. Segment(c, s, k) \in Message /\ Segment(c, s, k).stream = s
        /\ Segment(c, s, k).n = k
    BY DEF Segment, Message
  <2>. QED
    BY <1>3, <2>1 DEF Filed, Namesakes
<1>10. Filed(s, k) => Filed(s, k)' \/ (f.stream = s /\ f.n = k)
  BY <1>3 DEF Filed, SameFile
<1>11. Moving(c, s, k) => Moving(c, s, k)' \/ (f.stream = s /\ f.n = k)
  BY <1>4 DEF Moving, Segment
<1>12. lost \subseteq lost'
  BY <1>3
<1>. QED
  BY <1>8, <1>9, <1>10, <1>11, <1>12

\* As long as the router has not died, what follows a filed segment is not lost.
LEMMA FollowersInv == ClusterSpec => [](restarts = 0 => Followers)
<1>1. ClusterInit => Followers
  BY DEF ClusterInit, Followers, Moving, InFile, Up, Down, Elements
<1>2. TypeOK /\ FreshStreamsOnly /\ ClusterTypeOK /\ FileAsked /\ SendersAccepted
        /\ InLine /\ (restarts = 0 => PathOpen) /\ (restarts = 0 => AnswersTrue)
        /\ (restarts = 0 => Followers) /\ [ClusterNext]_clusterVars
        => (restarts = 0 => Followers)'
  <2>. SUFFICES ASSUME TypeOK, FreshStreamsOnly, ClusterTypeOK, FileAsked,
                       SendersAccepted, InLine, restarts = 0 => PathOpen,
                       restarts = 0 => AnswersTrue, restarts = 0 => Followers,
                       [ClusterNext]_clusterVars, restarts' = 0
                PROVE  Followers'
    OBVIOUS
  <2>1. PathOpen /\ AnswersTrue /\ Followers /\ ~RouterDies /\ restarts = 0
    BY RouterLives
  <2>2. CASE RouterStep \/ Attach \/ UNCHANGED clusterVars
    <3>1. UNCHANGED <<next, uplink, tasks, storage, task, files, lost>>
      BY <2>2 DEF RouterStep, Attach, clusterVars, hops, store
    <3>2. Down' = Down
      BY <3>1 DEF Down
    <3>. QED
      BY <2>1, <3>1, <3>2, FollowersKept
  <2>3. ASSUME NEW c \in Clients, Link(c) PROVE Followers'
    <3>1. UNCHANGED <<next, uplink, tasks, storage, task, files, lost>>
      BY <2>3 DEF Link, store
    <3>2. Down' = Down
      BY <3>1 DEF Down
    <3>. QED
      BY <2>1, <3>1, <3>2, FollowersKept
  <2>4. CASE Take
    BY <2>1, <2>4, TakeKeeps, FollowersKept DEF hops
  <2>5. CASE Lookup \/ Remember
    <3>1. UNCHANGED <<next, uplink, files, lost>> /\ Down' = Down
      BY <2>5 DEF Lookup, Remember, hops, Down
    <3>. QED
      BY <2>1, <3>1, FollowersKept
  <2>6. CASE \E c \in Clients : Forward(c) \/ \E s \in Followed : Stream(c, s)
    BY <2>1, <2>6, ForwardFollows, StreamFollows
  <2>7. CASE File
    BY <2>1, <2>7, FileFollows
  <2>. QED
    BY <2>1, <2>2, <2>3, <2>4, <2>5, <2>6, <2>7, ClusterSteps
<1>. QED
  BY <1>1, <1>2, ClusterRefinesRouter, RouterTypes, FreshInv, ClusterTypes,
     SendersInv, InLineInv, OpenInv, AnswersInv, PTL DEF ClusterSpec

\* The holes in what is filed of a stream have two causes: a stream's first
\* segments may be lost to subscriptions and a registration that come late, but
\* after one that is filed only to a full pipe or a file that fails, for every
\* number of clients, streams and segments and every high water mark, as long as
\* the router lives.
THEOREM HolesCorrect == ClusterSpec => []NoHoles
<1>1. ClusterTypeOK /\ (restarts = 0 => Followers) => NoHoles
  <2>. SUFFICES ASSUME ClusterTypeOK, Followers, NEW f \in files,
                       NEW m \in 1..MaxSegments,
                       f.n < m, m < next[f.client][f.stream]
                PROVE  \/ Filed(f.stream, m) \/ UnderWay(f.client, f.stream, m)
                       \/ Segment(f.client, f.stream, m) \in lost
    BY DEF NoHoles, Segment
  <2>1. f.client \in Clients /\ f.stream \in Followed /\ f.n \in 1..MaxSegments
    BY DEF ClusterTypeOK
  <2>2. \/ Filed(f.stream, m) \/ Moving(f.client, f.stream, m)
        \/ Segment(f.client, f.stream, m) \in lost
    BY <2>1 DEF Followers, InFile
  <2>. QED
    BY <2>2 DEF Moving, Segment, UnderWay, Travelling, Up, Down, Elements
<1>. QED
  BY <1>1, FollowersInv, ClusterTypes, PTL
=============================================================================
