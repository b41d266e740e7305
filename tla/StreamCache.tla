----------------------------- MODULE StreamCache -----------------------------
(***************************************************************************)
(* fr::media2::StreamCache over time: lookups refresh an entry's expiry, a *)
(* thread sweeps expired entries every cleanupFreq seconds, the destructor *)
(* waits for that thread.  Time is in ticks of std::chrono::system_clock;  *)
(* every access is one critical section of cacheMutex, hence one action.   *)
(***************************************************************************)
EXTENDS Integers

CONSTANTS
  Ids,                      \* of jobs
  ExpSeconds, CleanupFreq,  \* the constructor's arguments
  TicksPerSecond,           \* 10^9 with libstdc++; small here
  MaxTime                   \* bound on the clock

ASSUME CacheAssumption ==
  /\ ExpSeconds \in Nat /\ CleanupFreq \in Nat \ {0}
  /\ TicksPerSecond \in Nat \ {0} /\ MaxTime \in Nat

VARIABLES
  now,
  cached,       \* the ids with an entry
  expires,      \* when each entry expires
  used,         \* ghost: when each entry was last returned by get()
  wake,         \* when the sweeper wakes up next
  ending,       \* ~StreamCache: "no", "joining" (shutdownFlag is set), "done"
  sweepCrashed  \* the sweeper walked off an erased entry

cacheVars == <<now, cached, expires, used, wake, ending, sweepCrashed>>

CacheTypeOK ==
  /\ now \in 0..MaxTime /\ cached \subseteq Ids /\ sweepCrashed \in BOOLEAN
  /\ expires \in [Ids -> Nat] /\ used \in [Ids -> Nat] /\ wake \in Nat
  /\ ending \in {"no", "joining", "done"}

CacheInit ==
  /\ now = 0 /\ cached = {} /\ wake = 0
  /\ ending = "no" /\ sweepCrashed = FALSE
  /\ expires = [j \in Ids |-> 0] /\ used = [j \in Ids |-> 0]

Alive == ~sweepCrashed /\ ending # "done"

\* The sweeper is punctual: the clock waits for it.
Tick ==
  /\ Alive /\ now < MaxTime /\ now < wake /\ now' = now + 1
  /\ UNCHANGED <<cached, expires, used, wake, ending, sweepCrashed>>

\* system_clock::duration(expSeconds) is a number of ticks.
Refresh(j) ==
  /\ expires' = [expires EXCEPT ![j] = now + ExpSeconds]
  /\ used' = [used EXCEPT ![j] = now]

\* Nobody calls an object that is being destroyed: its users share it.
InUse == ~sweepCrashed /\ ending = "no"

\* get(Segment*): the entry, or a new one.
GetSegment(j) ==
  /\ InUse /\ Refresh(j) /\ cached' = cached \cup {j}
  /\ UNCHANGED <<now, wake, ending, sweepCrashed>>

\* Mutant: a hit does not refresh the expiry.
GetIdStale(j) ==
  /\ InUse /\ j \in cached /\ used' = [used EXCEPT ![j] = now]
  /\ UNCHANGED <<now, cached, expires, wake, ending, sweepCrashed>>

\* get(uuid_t): the entry if there is one, else nullptr and no change.
GetId(j) ==
  /\ InUse /\ j \in cached /\ Refresh(j)
  /\ UNCHANGED <<now, cached, wake, ending, sweepCrashed>>

Expired(j) == now > expires[j]

\* Mutant: the sweeper goes to sleep before it looks.
SweepNothing ==
  /\ InUse /\ now >= wake /\ wake' = now + CleanupFreq * TicksPerSecond
  /\ UNCHANGED <<now, cached, expires, used, ending, sweepCrashed>>

\* The range-for erases the entry it stands on and then advances from it:
\* undefined behaviour, which may crash the process.
Sweep ==
  /\ InUse /\ now >= wake
  /\ cached' = {j \in cached : ~Expired(j)}
  /\ sweepCrashed' \in {FALSE, cached' # cached}
  /\ wake' = now + CleanupFreq * TicksPerSecond
  /\ UNCHANGED <<now, expires, used, ending>>

\* ~StreamCache sets the flag and joins the sweeper.
Destroy ==
  /\ InUse /\ ending' = "joining"
  /\ UNCHANGED <<now, cached, expires, used, wake, sweepCrashed>>

\* The sweeper leaves at the flag, before a sweep or in the middle of one, so
\* not before it wakes up; the map goes with the object.
Rejoin ==
  /\ ~sweepCrashed /\ ending = "joining" /\ now >= wake
  /\ \/ ending' = "done" /\ cached' = {} /\ UNCHANGED sweepCrashed
     \/ /\ \E j \in cached : Expired(j)
        /\ sweepCrashed' = TRUE /\ UNCHANGED <<ending, cached>>
  /\ UNCHANGED <<now, expires, used, wake>>

CacheNext == Tick \/ Sweep \/ Destroy \/ Rejoin
               \/ \E j \in Ids : GetSegment(j) \/ GetId(j)

CacheSpec == CacheInit /\ [][CacheNext]_cacheVars

-----------------------------------------------------------------------------
(* Properties. *)

\* While the cache lives, no entry goes before its lifetime since its last use
\* is over (the refresh in both get()s), however short the code makes it.
Fresh ==
  [][\A j \in cached :
       j \notin cached' =>
         now > used[j] + ExpSeconds \/ ending' = "done"]_cacheVars

\* Nor is one found, even while the destructor waits, a sweep period after the
\* time it lasts: "Number of seconds" and "seconds the cleanup thread runs"
\* (StreamCache.h:64-66). The code is within it by far: it takes the seconds for
\* ticks, which LastsSeconds below says is too few.
StaleBound ==
  \A j \in cached :
    now <= used[j] + (ExpSeconds + CleanupFreq) * TicksPerSecond

\* What it does keep to: the lifetime in ticks, and a sweep period.
TightBound ==
  \A j \in cached :
    now <= used[j] + ExpSeconds + CleanupFreq * TicksPerSecond

-----------------------------------------------------------------------------
(* What comments promise and the code does not keep: no run checks these, see
   the README. *)

\* "Number of seconds cache entries last" (StreamCache.h:64): an entry is in
\* the cache for ExpSeconds seconds after its last use.
LastsSeconds ==
  [][\A j \in cached :
       j \notin cached' /\ ending = "no" =>
         now > used[j] + ExpSeconds * TicksPerSecond]_cacheVars

\* "Cache entries expire after a set amount of time" (StreamCache.h:21), and
\* the cache lives on.
SweepSurvives == ~sweepCrashed
=============================================================================
