------------------------------- MODULE Router -------------------------------
(***************************************************************************)
(* The router of the demos, as clients see it when they register a job:    *)
(* RouterJobHandler's thread serves one request at a time, makes the job's *)
(* directories, signals the job to the JobRegistry and replies.  The       *)
(* registry's two maps are written one after the other, each under its own *)
(* mutex; they live in memory, the directories on disk.                    *)
(***************************************************************************)
EXTENDS Integers, FiniteSets

CONSTANTS
  Clients,
  JobIds, StreamIds,      \* the uuids there are
  OfferedJobs,            \* the job ids clients propose
  OfferedStreams,         \* the sets of stream ids they propose
  MaxRestarts,            \* bound on the crashes of the router
  None                    \* no job

ASSUME RouterAssumption ==
  /\ Clients # {} /\ OfferedJobs \subseteq JobIds
  /\ OfferedStreams \subseteq SUBSET StreamIds
  /\ MaxRestarts \in Nat
ASSUME NoneAssumption == None \notin JobIds /\ None \notin Clients

Job == [jobId : JobIds, streamIds : SUBSET StreamIds]

VARIABLES
  offer,      \* each client's jerb, with the ids it generated
  client,     \* "new", "sent", "accepted", or "hung" (the router crashed
              \* while it handled the request)
  answer,     \* the job in the reply to each client
  atTemp,     \* the router's current_path() is the temporary directory
  dirs,       \* the jobs with a directory there
  connected,  \* the registry is subscribed to receivedJob
  shutdownRequest,
  handler,    \* the handler's thread: "recv", "job", "streams", "signal",
              \* "index", "reply", "stopped"
  serving,    \* the client whose request it handles
  jerb,       \* the job it makes of it
  jobs,       \* the registry: the job ids in the map jobs, and for each key of
  streamIds,  \* streamIds its job's id, else None
  unheard,    \* ghost: clients whose job was signalled to nobody, or
              \* registered before the last restart
  restarts

vars == <<offer, client, answer, atTemp, dirs, connected, shutdownRequest,
          handler, serving, jerb, jobs, streamIds, unheard, restarts>>
registry == <<jobs, streamIds>>
request == <<serving, jerb>>
control == <<connected, shutdownRequest, restarts>>

TypeOK ==
  /\ offer \in [Clients -> Job] /\ answer \in [Clients -> Job]
  /\ client \in [Clients -> {"new", "sent", "accepted", "hung"}]
  /\ atTemp \in BOOLEAN /\ dirs \subseteq JobIds
  /\ connected \in BOOLEAN /\ shutdownRequest \in BOOLEAN
  /\ handler \in {"recv", "job", "streams", "signal", "index", "reply",
                  "stopped"}
  /\ serving \in Clients \cup {None} /\ jerb \in Job
  /\ serving = None <=> handler \in {"recv", "stopped"}
  /\ jobs \subseteq JobIds /\ streamIds \in [StreamIds -> JobIds \cup {None}]
  /\ unheard \subseteq Clients /\ restarts \in 0..MaxRestarts

\* The temporary directory may hold no job yet; the launch directory never does.
Init ==
  /\ offer \in [Clients -> {j \in Job : j.jobId \in OfferedJobs
                                     /\ j.streamIds \in OfferedStreams}]
  /\ answer = offer /\ client = [c \in Clients |-> "new"]
  /\ atTemp = FALSE /\ dirs = {} /\ connected = FALSE
  /\ shutdownRequest = FALSE /\ handler = "recv" /\ serving = None
  /\ jerb = offer[CHOOSE c \in Clients : TRUE]
  /\ jobs = {} /\ streamIds = [s \in StreamIds |-> None]
  /\ unheard = {} /\ restarts = 0

\* uuid_generate() returns an id that is nowhere in use.
FreshJobs == JobIds \ (dirs \cup {offer[c].jobId : c \in Clients})
FreshStreams ==
  StreamIds \ ({s \in StreamIds : streamIds[s] # None}
               \cup UNION {offer[c].streamIds \cup answer[c].streamIds :
                             c \in Clients})

-----------------------------------------------------------------------------
(* The client, main() of the client demo. *)

Send(c) ==
  /\ client[c] = "new" /\ client' = [client EXCEPT ![c] = "sent"]
  /\ UNCHANGED <<offer, answer, atTemp, dirs, control, handler, request,
                 registry, unheard>>

\* After the reply the client parses its own request once more: its jerb stays
\* as it was.
Proceed(c) == client' = [client EXCEPT ![c] = "accepted"] /\ UNCHANGED offer

-----------------------------------------------------------------------------
(* The handler's thread: process(). *)

\* main() connects the registry once the handler's thread is running.
Connect ==
  /\ ~connected /\ connected' = TRUE
  /\ UNCHANGED <<offer, client, answer, atTemp, dirs, shutdownRequest, restarts,
                 handler, request, registry, unheard>>

Receive(c) ==
  /\ handler = "recv" /\ client[c] = "sent"
  /\ handler' = "job" /\ serving' = c /\ jerb' = offer[c]
  /\ UNCHANGED <<offer, client, answer, atTemp, dirs, control, registry,
                 unheard>>

\* Mutant: the job id is taken as it comes.
MakeAnyJob ==
  /\ handler = "job" /\ handler' = "streams"
  /\ atTemp' = TRUE /\ dirs' = dirs \cup {jerb.jobId}
  /\ UNCHANGED <<offer, client, answer, control, request, registry, unheard>>

\* exists() looks in the current directory, which becomes the temporary one
\* only after the check.
MakeJob ==
  /\ handler = "job" /\ handler' = "streams"
  /\ \E id \in IF atTemp /\ jerb.jobId \in dirs
               THEN FreshJobs ELSE {jerb.jobId} :
       jerb' = [jerb EXCEPT !.jobId = id] /\ dirs' = dirs \cup {id}
  /\ atTemp' = TRUE
  /\ UNCHANGED <<offer, client, answer, control, serving, registry, unheard>>

\* Mutant: registered stream ids are not replaced.
MakeAnyStreams ==
  /\ handler = "streams" /\ handler' = "signal"
  /\ UNCHANGED <<offer, client, answer, atTemp, dirs, control, request,
                 registry, unheard>>

\* Every stream id the registry has is replaced, each by one of its own.
MakeStreams ==
  /\ handler = "streams" /\ handler' = "signal"
  /\ LET taken == {s \in jerb.streamIds : streamIds[s] # None} IN
       \E fresh \in SUBSET FreshStreams :
         /\ Cardinality(fresh) = Cardinality(taken)
         /\ jerb' = [jerb EXCEPT !.streamIds = (@ \ taken) \cup fresh]
  /\ UNCHANGED <<offer, client, answer, atTemp, dirs, control, serving,
                 registry, unheard>>

\* Mutant: add() fills the map of the streams first.
SignalStreams ==
  /\ handler = "signal" /\ connected /\ handler' = "index"
  /\ streamIds' = [s \in StreamIds |->
                     IF s \in jerb.streamIds THEN jerb.jobId ELSE streamIds[s]]
  /\ UNCHANGED <<offer, client, answer, atTemp, dirs, control, request, jobs,
                 unheard>>

\* Mutant: the job is signalled only to be replied to.
SignalNothing ==
  /\ handler = "signal" /\ handler' = "reply"
  /\ UNCHANGED <<offer, client, answer, atTemp, dirs, control, request,
                 registry, unheard>>

\* receivedJob: the first half of JobRegistry::add(), if it is subscribed.
Signal ==
  /\ handler = "signal"
  /\ IF connected
     THEN /\ handler' = "index" /\ jobs' = jobs \cup {jerb.jobId}
          /\ UNCHANGED unheard
     ELSE /\ handler' = "reply" /\ unheard' = unheard \cup {serving}
          /\ UNCHANGED jobs
  /\ UNCHANGED <<offer, client, answer, atTemp, dirs, control, request,
                 streamIds>>

Index ==
  /\ handler = "index" /\ handler' = "reply"
  /\ streamIds' = [s \in StreamIds |->
                     IF s \in jerb.streamIds THEN jerb.jobId ELSE streamIds[s]]
  /\ UNCHANGED <<offer, client, answer, atTemp, dirs, control, request, jobs,
                 unheard>>

\* The reply, and the loop's condition.
Reply ==
  /\ handler = "reply" /\ Proceed(serving)
  /\ answer' = [answer EXCEPT ![serving] = jerb]
  /\ handler' = IF shutdownRequest THEN "stopped" ELSE "recv"
  /\ serving' = None
  /\ UNCHANGED <<atTemp, dirs, control, jerb, registry, unheard>>

\* shutdown() sets the flag; the thread stays in recv().
Shutdown ==
  /\ ~shutdownRequest /\ shutdownRequest' = TRUE
  /\ UNCHANGED <<offer, client, answer, atTemp, dirs, connected, restarts,
                 handler, request, registry, unheard>>

\* A crash and a new router process: memory is gone, directories are not, and
\* the client that was being served waits for ever.
Restart ==
  /\ restarts < MaxRestarts /\ restarts' = restarts + 1
  /\ atTemp' = FALSE /\ connected' = FALSE /\ shutdownRequest' = FALSE
  /\ handler' = "recv" /\ serving' = None
  /\ jobs' = {} /\ streamIds' = [s \in StreamIds |-> None]
  /\ unheard' = {c \in Clients : client[c] = "accepted"}
  /\ client' = [c \in Clients |-> IF c = serving THEN "hung" ELSE client[c]]
  /\ UNCHANGED <<offer, answer, dirs, jerb>>

Handle == MakeJob \/ MakeStreams \/ Signal \/ Index \/ Reply

Next == \/ \E c \in Clients : Send(c) \/ Receive(c)
        \/ Connect \/ Handle \/ Shutdown \/ Restart

Spec == Init /\ [][Next]_vars

\* The handler's thread runs; clients may stay away.
FairSpec ==
  Spec /\ WF_vars(Connect) /\ WF_vars(Handle)
       /\ \A c \in Clients : WF_vars(Receive(c))

-----------------------------------------------------------------------------
(* Properties. *)

Accepted == {c \in Clients : client[c] = "accepted"}

\* "Server checks to insure that the job ID is not already used and sends the
\* job back as a reply with the Job ID replaced if it is"
\* (RouterJobHandler.h:46-48), and "check stream IDs for uniqueness too"
\* (RouterJobHandler.cpp:71): no two jobs one run of the router accepts share
\* their id (jobs from before a restart are unheard), and no two jobs in the
\* registry a stream.
UniqueIds ==
  \A c, d \in Accepted : c # d =>
    /\ restarts = 0 \/ {c, d} \cap unheard = {}
         => answer[c].jobId # answer[d].jobId
    /\ {c, d} \cap unheard = {}
         => answer[c].streamIds \cap answer[d].streamIds = {}

\* Whoever finds a job by a stream id finds it by its job id, too, though no
\* lock covers both maps (JobRegistry::add fills jobs first).
StreamsHaveJobs ==
  \A s \in StreamIds : streamIds[s] # None => streamIds[s] \in jobs

\* "The job object can be retrieved by JobID or by a stream ID"
\* (JobRegistry.h:20) as soon as its client has the reply, so that no segment
\* the client then sends is turned away: so it is for the jobs the registry was
\* told of since the router started.
HeardRegistered == \A c \in Accepted \ unheard :
  answer[c].jobId \in jobs /\ \A s \in answer[c].streamIds : streamIds[s] # None

-----------------------------------------------------------------------------
(* What comments promise and the code does not keep: no run checks these, see
   the README. *)

\* It is not for those main() had not yet connected the registry for.
AcceptedRegistered ==
  restarts = 0 => \A c \in Accepted : answer[c].jobId \in jobs

\* "This is proposed job ID only, server can override it" (client.cpp:99): the
\* client goes on with the ids of the reply.
HonoursReply == \A c \in Accepted : offer[c] = answer[c]

\* shutdown() stops the handler: the destructor joins it (RouterJobHandler.cpp:
\* 32-37), as JobRegistry's destructor joins its threads.
ShutdownStops == [](shutdownRequest => <>(handler = "stopped"))
=============================================================================
