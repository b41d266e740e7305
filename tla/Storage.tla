------------------------------ MODULE Storage ------------------------------
(***************************************************************************)
(* The storage service of the demos: the subscriber's thread queues each   *)
(* segment it receives, a pool of workers looks its job up in the router's *)
(* registry and writes it to a file, and a main thread destroys the        *)
(* service.  The queue is under taskMutex, the job cache under cacheMutex; *)
(* moreWork is under neither (each worker waits with a mutex of its own).  *)
(***************************************************************************)
EXTENDS Integers, Sequences, FiniteSets

CONSTANTS
  Workers,      \* the threads of storagePool
  Streams,
  Known,        \* the streams of which the router's registry has a job
  MaxSegments,  \* bound on the segments received
  NoTask        \* an empty unique_ptr

ASSUME StorageAssumption ==
  /\ Workers # {} /\ IsFiniteSet(Workers)
  /\ Known \subseteq Streams /\ MaxSegments \in Nat

Task == [n : 1..MaxSegments, stream : Streams]
ASSUME NoTaskAssumption == NoTask \notin Task

VARIABLES
  receiver,   \* "starting": subscriber is null; "idle", or in add(): "pushed",
              \* "flagged"; "closed"
  received,   \* segments received; the n-th is the task with that n
  tasks,
  moreWork,
  shutdownRequest,
  pc,         \* where each worker is in process()
  held,       \* the task of each worker
  cacheOwner, \* the workers holding cacheMutex
  jobCache,   \* the streams with a cached answer
  queries,    \* ghost: how often the registry was asked about each stream
  stored,     \* the segments written
  dropped,    \* the segments dropped for lack of a job or of their file
  main,       \* the destroying thread: "running", "shutdown", "closed",
              \* "joining", "joined" (the members go next)
  early,      \* ghost: segments received before shutdown(), or 0
  skipped,    \* ghost: shutdown() found no subscriber to close
  lateNotify  \* add() notified a condition_variable already destroyed

vars == <<receiver, received, tasks, moreWork, shutdownRequest, pc, held,
          cacheOwner, jobCache, queries, stored, dropped, main, early, skipped,
          lateNotify>>
queue == <<receiver, received, lateNotify>>
cache == <<cacheOwner, jobCache, queries>>
files == <<stored, dropped>>
ending == <<shutdownRequest, main, early, skipped>>

TypeOK ==
  /\ receiver \in {"starting", "idle", "pushed", "flagged", "closed"}
  /\ received \in 0..MaxSegments /\ tasks \in Seq(Task)
  /\ moreWork \in BOOLEAN /\ shutdownRequest \in BOOLEAN
  /\ pc \in [Workers -> {"loop", "take", "query", "remote", "write", "reset",
                         "check", "blocked", "done"}]
  /\ held \in [Workers -> Task \cup {NoTask}]
  /\ \A w \in Workers :
       held[w] # NoTask <=> pc[w] \in {"query", "remote", "write"}
  /\ cacheOwner \subseteq Workers /\ jobCache \subseteq Streams
  /\ queries \in [Streams -> Nat]
  /\ stored \subseteq Task /\ dropped \subseteq Task
  /\ main \in {"running", "shutdown", "closed", "joining", "joined"}
  /\ early \in 0..MaxSegments /\ skipped \in BOOLEAN /\ lateNotify \in BOOLEAN

\* No constructor sets moreWork.
Init ==
  /\ receiver = "starting" /\ received = 0 /\ tasks = <<>>
  /\ moreWork \in BOOLEAN /\ shutdownRequest = FALSE
  /\ pc = [w \in Workers |-> "loop"] /\ held = [w \in Workers |-> NoTask]
  /\ cacheOwner = {} /\ jobCache = {} /\ queries = [s \in Streams |-> 0]
  /\ stored = {} /\ dropped = {}
  /\ main = "running" /\ early = 0 /\ skipped = FALSE /\ lateNotify = FALSE

Goto(w, label) == pc' = [pc EXCEPT ![w] = label]

NotifyAll ==
  [w \in Workers |-> IF pc[w] = "blocked" THEN "check" ELSE pc[w]]

-----------------------------------------------------------------------------
(* Receiving. *)

\* receive(): the receiver thread creates the subscriber and starts it.
Receive ==
  /\ receiver = "starting" /\ receiver' = "idle"
  /\ UNCHANGED <<received, tasks, moreWork, pc, held, cache, files, ending,
                 lateNotify>>

\* add(), under taskMutex from the first step to the last.
TaskMutexFree == receiver \notin {"pushed", "flagged"}

AddPush(s) ==
  /\ receiver = "idle" /\ received < MaxSegments
  /\ receiver' = "pushed" /\ received' = received + 1
  /\ tasks' = Append(tasks, [n |-> received + 1, stream |-> s])
  /\ UNCHANGED <<moreWork, pc, held, cache, files, ending, lateNotify>>

AddFlag ==
  /\ receiver = "pushed" /\ receiver' = "flagged" /\ moreWork' = TRUE
  /\ UNCHANGED <<received, tasks, pc, held, cache, files, ending, lateNotify>>

AddNotify ==
  /\ receiver = "flagged" /\ receiver' = "idle" /\ pc' = NotifyAll
  /\ lateNotify' = (lateNotify \/ main = "joined")
  /\ UNCHANGED <<received, tasks, moreWork, held, cache, files, ending>>

-----------------------------------------------------------------------------
(* A worker's thread: process(). *)

\* Mutant: the tasks that remain are left when shutdown was requested.
TestImpatient(w) ==
  /\ pc[w] = "loop" /\ Goto(w, IF shutdownRequest THEN "done" ELSE "take")
  /\ UNCHANGED <<queue, tasks, moreWork, held, cache, files, ending>>

\* The loop's condition, which reads tasks without the lock.
Test(w) ==
  /\ pc[w] = "loop"
  /\ Goto(w, IF shutdownRequest /\ tasks = <<>> THEN "done" ELSE "take")
  /\ UNCHANGED <<queue, tasks, moreWork, held, cache, files, ending>>

\* Mutant: the task stays in the queue until it is done.
TakeCopy(w) ==
  /\ pc[w] = "take" /\ TaskMutexFree /\ tasks # <<>>
  /\ held' = [held EXCEPT ![w] = Head(tasks)] /\ Goto(w, "query")
  /\ UNCHANGED <<queue, tasks, moreWork, cache, files, ending>>

Take(w) ==
  /\ pc[w] = "take" /\ TaskMutexFree /\ tasks # <<>>
  /\ held' = [held EXCEPT ![w] = Head(tasks)] /\ tasks' = Tail(tasks)
  /\ Goto(w, "query")
  /\ UNCHANGED <<queue, moreWork, cache, files, ending>>

TakeNothing(w) ==
  /\ pc[w] = "take" /\ TaskMutexFree /\ tasks = <<>> /\ Goto(w, "reset")
  /\ UNCHANGED <<queue, tasks, moreWork, held, cache, files, ending>>

\* Mutant: the lookup runs outside cacheMutex.
QueryUnlocked(w) ==
  /\ pc[w] = "query" /\ cacheOwner = {}
  /\ IF held[w].stream \in jobCache
     THEN Goto(w, "write") /\ UNCHANGED cache
     ELSE /\ Goto(w, "remote")
          /\ queries' = [queries EXCEPT ![held[w].stream] = @ + 1]
          /\ UNCHANGED <<cacheOwner, jobCache>>
  /\ UNCHANGED <<queue, tasks, moreWork, held, files, ending>>

\* queryJob(): cacheMutex is held from here to the registry's answer.
Query(w) ==
  /\ pc[w] = "query" /\ cacheOwner = {}
  /\ IF held[w].stream \in jobCache
     THEN Goto(w, "write") /\ UNCHANGED cache
     ELSE /\ Goto(w, "remote") /\ cacheOwner' = {w}
          /\ queries' = [queries EXCEPT ![held[w].stream] = @ + 1]
          /\ UNCHANGED jobCache
  /\ UNCHANGED <<queue, tasks, moreWork, held, files, ending>>

\* The registry's reply, a job or the default one, is cached either way.
Reply(w) ==
  /\ pc[w] = "remote" /\ Goto(w, "write")
  /\ cacheOwner' = {} /\ jobCache' = jobCache \cup {held[w].stream}
  /\ UNCHANGED <<queue, tasks, moreWork, held, queries, files, ending>>

\* Mutant: a worker rests after each task.
WriteThenRest(w) ==
  /\ pc[w] = "write" /\ Goto(w, "reset")
  /\ held' = [held EXCEPT ![w] = NoTask] /\ stored' = stored \cup {held[w]}
  /\ UNCHANGED <<queue, tasks, moreWork, cache, dropped, ending>>

\* The segment is written if its job is known and its file can be opened and
\* written, which nobody asks the ofstream; else it is dropped.
Write(w) ==
  /\ pc[w] = "write" /\ Goto(w, "loop")
  /\ held' = [held EXCEPT ![w] = NoTask]
  /\ \/ /\ held[w].stream \in Known
        /\ stored' = stored \cup {held[w]} /\ UNCHANGED dropped
     \/ dropped' = dropped \cup {held[w]} /\ UNCHANGED stored
  /\ UNCHANGED <<queue, tasks, moreWork, cache, ending>>

Reset(w) ==
  /\ pc[w] = "reset" /\ Goto(w, "check") /\ moreWork' = FALSE
  /\ UNCHANGED <<queue, tasks, held, cache, files, ending>>

\* wait(lock, pred): the predicate, then the wait.
Check(w) ==
  /\ pc[w] = "check" /\ Goto(w, IF moreWork THEN "loop" ELSE "blocked")
  /\ UNCHANGED <<queue, tasks, moreWork, held, cache, files, ending>>

\* A wakeup nobody asked for: allowed, never to be counted on.
Spurious(w) ==
  /\ pc[w] = "blocked" /\ Goto(w, "check")
  /\ UNCHANGED <<queue, tasks, moreWork, held, cache, files, ending>>

-----------------------------------------------------------------------------
(* ~Storage. *)

Shutdown ==
  /\ main = "running" /\ main' = "shutdown" /\ shutdownRequest' = TRUE
  /\ early' = received
  /\ UNCHANGED <<queue, tasks, moreWork, pc, held, cache, files, skipped>>

\* Mutant: the subscriber is told to close and not joined.
CloseOnly ==
  /\ main = "shutdown" /\ main' = "closed"
  /\ UNCHANGED <<queue, tasks, moreWork, pc, held, cache, files,
                 shutdownRequest, early, skipped>>

\* The rest of shutdown(): close and join the subscriber, if there is one.
CloseSubscriber ==
  /\ main = "shutdown" /\ main' = "closed"
  /\ receiver \in {"starting", "idle"}
  /\ IF receiver = "idle"
     THEN receiver' = "closed" /\ UNCHANGED skipped
     ELSE skipped' = TRUE /\ UNCHANGED receiver
  /\ UNCHANGED <<received, tasks, moreWork, pc, held, cache, files,
                 shutdownRequest, early, lateNotify>>

Wake ==
  /\ main = "closed" /\ main' = "joining" /\ pc' = NotifyAll
  /\ UNCHANGED <<queue, tasks, moreWork, held, cache, files, shutdownRequest,
                 early, skipped>>

\* join(): the receiver thread, then the workers.
Join ==
  /\ main = "joining" /\ main' = "joined" /\ receiver # "starting"
  /\ \A w \in Workers : pc[w] = "done"
  /\ UNCHANGED <<queue, tasks, moreWork, pc, held, cache, files,
                 shutdownRequest, early, skipped>>

Work(w) ==
  \/ Test(w) \/ Take(w) \/ TakeNothing(w) \/ Query(w) \/ Reply(w) \/ Write(w)
  \/ Reset(w) \/ Check(w)
AddEnds == AddFlag \/ AddNotify
Destroy == CloseSubscriber \/ Wake \/ Join

Next == \/ Receive \/ (\E s \in Streams : AddPush(s)) \/ AddEnds
        \/ \E w \in Workers : Work(w) \/ Spurious(w)
        \/ Shutdown \/ Destroy

Spec == Init /\ [][Next]_vars

\* Threads run and the registry answers; segments may stop coming.
FairSpec ==
  /\ Spec /\ WF_vars(Receive) /\ WF_vars(AddEnds) /\ WF_vars(Destroy)
  /\ \A w \in Workers : WF_vars(Work(w))

-----------------------------------------------------------------------------
(* Properties. *)

\* Every segment received is in exactly one place, the queue, one worker's
\* hands, the store or the bin, whatever the threads do (add(), the pop under
\* taskMutex, process()).
OnePlace ==
  received = Len(tasks)
             + Cardinality({w \in Workers : held[w] # NoTask})
             + Cardinality(stored) + Cardinality(dropped)

\* The registry is asked once about a stream: "Store jobs in cache so I don't
\* have to look them up for every segment" (Storage.h:74-75), however many
\* workers hold its segments (cacheMutex covers the lookup).
OneQuery == \A s \in Streams : queries[s] <= 1

\* "If we shut down, we want to process remaining tasks before exiting"
\* (Storage.cpp:124-125): a ~Storage that returns leaves no segment that was
\* received before shutdown(), in the queue or in a worker's hands.
EarlyDrained ==
  main = "joined" => /\ \A i \in 1..Len(tasks) : tasks[i].n > early
                     /\ \A w \in Workers : held[w] = NoTask

\* add() never meets the destroyed condition_variable, except if shutdown()
\* overtook the receiver thread and found no subscriber to close.
LateOnlyIfSkipped == lateNotify => skipped

\* The queue is drained while one worker is at work, though the others reset
\* moreWork under its feet: only workers that all rest leave tasks.
AtWork(w) == pc[w] \in {"loop", "take", "query", "remote", "write"}
BusyDrains ==
  [](tasks # <<>> /\ (\E w \in Workers : AtWork(w)) => <>(tasks = <<>>))

\* "Wake workers if they're restin'" (Storage.cpp:38): ~Storage returns.
DestroyReturns == [](main = "shutdown" => <>(main = "joined"))

-----------------------------------------------------------------------------
(* What comments promise and the code does not keep: no run checks these, see
   the README. *)

\* Nor does it leave any that came in between shutdown() and the close of the
\* subscriber.
Drained == main = "joined" => tasks = <<>>

\* "A threadpool takes each segment [...] and then stores the segment buffer"
\* (Storage.h:19-22): no segment stays in the queue of a service nobody stops.
EventuallyTaken ==
  [](tasks # <<>> => <>(tasks = <<>> \/ shutdownRequest))
=============================================================================
