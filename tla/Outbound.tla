------------------------------ MODULE Outbound ------------------------------
(***************************************************************************)
(* Outbound delivery: OutboundService._send and TransportRegistry of       *)
(* core/transport/outbound.py, and the OutboundSendScheduler of            *)
(* core/transport/scheduler.py: a lane (an asyncio.Lock with a count of    *)
(* waiters) per exact target, and rolling-window quotas.                   *)
(*                                                                         *)
(* One event loop runs every coroutine, so an action is the code between   *)
(* two suspension points.  A send with a deadline takes its lane's lock in *)
(* a task of its own (lock_with_deadline), which runs one loop iteration   *)
(* later.  Its wait_for is that of Python 3.12 and later, the version the  *)
(* project ships.  A caller may be cancelled while it awaits a send.       *)
(* Capability and codec refusals return before any state changes and are   *)
(* left out; every segment is text that has been split already.            *)
(***************************************************************************)
EXTENDS Integers, Sequences, FiniteSets, FiniteSetsExt

CONSTANTS
  Send,        \* calls of OutboundService.send
  Target,      \* exact targets of one bot connection
  Handle,      \* bot handles that may be bound to the connection
  Bucket,      \* rate-limit buckets
  Calls,       \* the functions TargetOf the callers may choose
  Parts,       \* Parts[s]: number of physical messages of s
  Deadline,    \* Deadline[s]: the effective deadline of s, or None
  Explicit,    \* Explicit[s]: the bot_handle argument of s, or None
  BucketsFor,  \* BucketsFor[t]: the buckets that apply to target t
  LimitOf,     \* bucket.limit
  WindowOf,    \* bucket.window_seconds
  QueueLimit,  \* max_queue_per_target
  MaxLanes,    \* max_target_lanes
  MaxBuckets,  \* max_quota_buckets
  MaxRetries,  \* max_rate_limit_retries
  RetryAfters, \* retry_after_seconds a platform answers with
  MaxRetryAfter, \* max_retry_after_seconds
  Burst,       \* may a send arrive in the loop iteration of another one?
  Impatient,   \* sends whose caller may be cancelled or time out
  MaxTime,     \* bound: the last instant
  MaxRebinds,  \* bound: bind_bot and unbind_bot calls
  None

ASSUME NumbersAssumption ==
  /\ QueueLimit \in Nat \ {0} /\ MaxLanes \in Nat \ {0}
  /\ MaxBuckets \in Nat \ {0} /\ MaxRetries \in 0..5
  /\ RetryAfters \subseteq Nat /\ MaxRetryAfter \in Nat \ {0}
  /\ MaxTime \in Nat /\ MaxRebinds \in Nat /\ Burst \in BOOLEAN
ASSUME SendsAssumption ==
  /\ Calls \subseteq [Send -> Target]
  /\ Parts \in [Send -> Nat \ {0}]
  /\ Deadline \in [Send -> Nat \cup {None}]
  /\ Explicit \in [Send -> Handle \cup {None}]
  /\ Impatient \subseteq Send
ASSUME BucketsAssumption ==
  /\ BucketsFor \in [Target -> SUBSET Bucket]
  /\ LimitOf \in [Bucket -> Nat \ {0}]
  /\ WindowOf \in [Bucket -> Nat \ {0}]
PartStatus == {"accepted", "failed", "unknown"}
Status == PartStatus \cup {"partial", "expired"}

ASSUME NoneAssumption == None \notin Send \cup Handle \cup Nat \cup Status

VARIABLES
  now,         \* the loop's clock
  bound,       \* _bots: the handle of the connection, or None
  generation,  \* _bot_generations of the connection
  pc,          \* where a send is
  TargetOf,    \* TargetOf[s]: the target s is called with
  seen,        \* the binding a send resolved when it was called
  lanes,       \* _lanes: the lane of a target; a lane is named by its creator
  holder,      \* holder[l]: who has locked lane l, or None
  fifo,        \* fifo[l]: the acquire() calls waiting inside the lock of l
  waiters,     \* lane.waiters
  lane,        \* the lane object a send works with, or None
  counted,     \* is the send counted in waiters?  (the local `waiting`)
  events,      \* _quota_events: the reservations a bucket remembers
  wake,        \* when the wait before a reservation is over
  attempts,    \* physical attempts of the part in hand
  parts,       \* results of the parts so far
  result,      \* DeliveryResult.status, or None
  log,         \* history: physical sends
  reached      \* history: parts the platform took, in order

laneVars == <<lanes, holder, fifo, waiters, lane, counted>>
bindVars == <<bound, generation>>
call == <<TargetOf, seen>>
progress == <<wake, attempts, parts>>
vars == <<now, bindVars, pc, call, laneVars, events, progress, result, log,
          reached>>

Init ==
  /\ now = 0 /\ generation = 1 /\ bound \in Handle
  /\ pc = [s \in Send |-> "new"]
  /\ TargetOf \in Calls
  /\ seen = [s \in Send |-> [handle |-> None, generation |-> 0]]
  /\ lanes = [t \in Target |-> None]
  /\ holder = [s \in Send |-> None]
  /\ fifo = [s \in Send |-> <<>>]
  /\ waiters = [s \in Send |-> 0]
  /\ lane = [s \in Send |-> None]
  /\ counted = [s \in Send |-> FALSE]
  /\ events = [b \in Bucket |-> {}]
  /\ wake = [s \in Send |-> 0]
  /\ attempts = [s \in Send |-> 0]
  /\ parts = [s \in Send |-> <<>>]
  /\ result = [s \in Send |-> None]
  /\ log = {}
  /\ reached = [s \in Send |-> <<>>]

-----------------------------------------------------------------------------
(* Helpers.                                                                  *)

Late(s) == Deadline[s] # None /\ now >= Deadline[s]

(* The test of the finally clause and of _get_lane: unlocked and nobody is   *)
(* counted.  IdleSlip forgets those who wait.                                *)
IdleSlip(h, w) == h = None
Idle(h, w) == h = None /\ w = 0
Free(l) == Idle(holder[l], waiters[l])

(* _get_lane: the lane of the target, a new one, or a new one in the place   *)
(* of an idle one.  Yields the lane and the dictionary after it.             *)
LaneChoices(s) ==
  LET t == TargetOf[s]
      full == Cardinality({u \in Target : lanes[u] # None}) >= MaxLanes
      idle == {u \in Target : lanes[u] # None /\ Free(lanes[u])}
  IN IF lanes[t] # None THEN {<<lanes[t], lanes>>}
     ELSE IF ~full THEN {<<s, [lanes EXCEPT ![t] = s]>>}
     ELSE {<<s, [lanes EXCEPT ![u] = None, ![t] = s]>> : u \in idle}

(* asyncio.Lock.acquire on lane l: at once if it is unlocked and nobody      *)
(* waits inside it, else at the end of its queue.                            *)
Lock(s, l) ==
  IF holder[l] = None /\ fifo[l] = <<>>
  THEN /\ holder' = [holder EXCEPT ![l] = s]
       /\ pc' = [pc EXCEPT ![s] = "granted"]
       /\ UNCHANGED fifo
  ELSE /\ fifo' = [fifo EXCEPT ![l] = Append(@, s)]
       /\ pc' = [pc EXCEPT ![s] = "waiting"]
       /\ UNCHANGED holder

(* What the send adds to lane.waiters.  CountSlip never takes it back.       *)
CountSlip(s) == 0
Count(s) == IF counted[s] THEN 1 ELSE 0

(* deque.remove, when an acquire() is cancelled: the queue without the entry *)
(* x, if it has one.                                                         *)
Without(q, x) ==
  IF \E i \in 1..Len(q) : q[i] = x
  THEN LET k == CHOOSE i \in 1..Len(q) : q[i] = x
       IN [i \in 1..(Len(q) - 1) |-> IF i < k THEN q[i] ELSE q[i + 1]]
  ELSE q

(* The finally clauses: release the lock, uncount the send, and drop the     *)
(* lane when it looks idle.                                                  *)
LeaveLane(s) ==
  LET l == lane[s]
      h == IF holder[l] = s THEN None ELSE holder[l]
      w == waiters[l] - Count(s)
  IN /\ holder' = [holder EXCEPT ![l] = h]
     /\ fifo' = [fifo EXCEPT ![l] = Without(@, s)]
     /\ waiters' = [waiters EXCEPT ![l] = w]
     /\ counted' = [counted EXCEPT ![s] = FALSE]
     /\ lane' = [lane EXCEPT ![s] = None]
     /\ lanes' = [t \in Target |-> IF Idle(h, w) /\ lanes[t] = l
                                   THEN None ELSE lanes[t]]

(* current_bot: the handle to use, or None when the binding has changed      *)
(* since the send was called.  CurrentBotSlip takes whatever is bound now.   *)
CurrentBotSlip(s) ==
  IF seen[s].handle = None \/ Explicit[s] # None THEN Explicit[s] ELSE bound
CurrentBot(s) ==
  IF seen[s].handle = None THEN Explicit[s]
  ELSE IF bound = None \/ generation # seen[s].generation
          \/ Explicit[s] \notin {None, bound}
       THEN None ELSE bound

(* The status of a delivery from the results of its parts.  SummarySlip does *)
(* not ask whether there is a result for every part.                         *)
SummarySlip(s, rs) ==
  IF rs # <<>> /\ \A i \in 1..Len(rs) : rs[i] = "accepted"
  THEN "accepted"
  ELSE IF \E i \in 1..Len(rs) : rs[i] = "accepted" THEN "partial"
  ELSE IF rs # <<>> THEN rs[Len(rs)] ELSE "failed"
Summary(s, rs) ==
  IF Len(rs) = Parts[s] /\ \A i \in 1..Len(rs) : rs[i] = "accepted"
  THEN "accepted"
  ELSE IF \E i \in 1..Len(rs) : rs[i] = "accepted" THEN "partial"
  ELSE IF rs # <<>> THEN rs[Len(rs)] ELSE "failed"

End(s, status) ==
  /\ pc' = [pc EXCEPT ![s] = "done"]
  /\ result' = [result EXCEPT ![s] = status]
  /\ LeaveLane(s)

-----------------------------------------------------------------------------
(* The way to the lane.                                                      *)

Binding == [handle |-> bound,
            generation |-> IF bound = None THEN 0 ELSE generation]

(* _send and run return before the lane is entered.                          *)
Refuse(s) ==
  /\ pc[s] = "new"
  /\ \/ Late(s) /\ result' = [result EXCEPT ![s] = "expired"]
     \/ /\ ~Late(s)
        /\ \/ Explicit[s] = None /\ bound = None
           \/ LaneChoices(s) = {}
           \/ \E c \in LaneChoices(s) :
                /\ ~Free(c[1])
                /\ waiters[c[1]] >= QueueLimit
        /\ result' = [result EXCEPT ![s] = "failed"]
  /\ pc' = [pc EXCEPT ![s] = "done"]
  /\ UNCHANGED <<now, bindVars, call, laneVars, events, progress, log, reached>>

Arrive(s) ==
  /\ pc[s] = "new" /\ ~Late(s)
  /\ Burst \/ \A r \in Send : pc[r] # "acquiring"
  /\ Explicit[s] # None \/ bound # None
  /\ seen' = [seen EXCEPT ![s] = Binding]
  /\ \E c \in LaneChoices(s) :
       LET l == c[1] IN
         /\ Free(l) \/ waiters[l] < QueueLimit
         /\ lanes' = c[2]
         /\ lane' = [lane EXCEPT ![s] = l]
         /\ counted' = [counted EXCEPT ![s] = ~Free(l)]
         /\ waiters' = [waiters EXCEPT ![l] = @ + (IF Free(l) THEN 0 ELSE 1)]
         /\ IF Deadline[s] = None THEN Lock(s, l)
            ELSE /\ pc' = [pc EXCEPT ![s] = "acquiring"]
                 /\ UNCHANGED <<holder, fifo>>
  /\ UNCHANGED <<now, bindVars, TargetOf, events, progress, result, log, reached>>

(* The task of lock_with_deadline runs.                                      *)
Acquire(s) ==
  /\ pc[s] = "acquiring"
  /\ Lock(s, lane[s])
  /\ UNCHANGED <<now, bindVars, call, lanes, waiters, lane, counted, events,
                 progress, result, log, reached>>

(* The first in the queue of a released lock takes it.                       *)
WakeUp(s) ==
  /\ pc[s] = "waiting"
  /\ holder[lane[s]] = None /\ Head(fifo[lane[s]]) = s
  /\ holder' = [holder EXCEPT ![lane[s]] = s]
  /\ fifo' = [fifo EXCEPT ![lane[s]] = Tail(@)]
  /\ pc' = [pc EXCEPT ![s] = "granted"]
  /\ UNCHANGED <<now, bindVars, call, lanes, waiters, lane, counted, events,
                 progress, result, log, reached>>

(* wait_for times out before the lock is held.  GiveUpSlip watches the time  *)
(* only until the acquire has started.                                       *)
GiveUpSlip(s) ==
  /\ pc[s] = "acquiring" /\ Late(s)
  /\ End(s, "expired")
  /\ UNCHANGED <<now, bindVars, call, events, progress, log, reached>>
GiveUp(s) ==
  /\ pc[s] \in {"acquiring", "waiting"} /\ Late(s)
  /\ End(s, "expired")
  /\ UNCHANGED <<now, bindVars, call, events, progress, log, reached>>

(* The task of lock_with_deadline has the lock, but wait_for raises instead  *)
(* of returning: `acquired` stays False and nobody releases the lock.        *)
LoseLock(s, status) ==
  /\ pc[s] = "granted" /\ Deadline[s] # None
  /\ pc' = [pc EXCEPT ![s] = "done"]
  /\ result' = [result EXCEPT ![s] = status]
  /\ waiters' = [waiters EXCEPT ![lane[s]] = @ - Count(s)]
  /\ counted' = [counted EXCEPT ![s] = FALSE]
  /\ lane' = [lane EXCEPT ![s] = None]
  /\ UNCHANGED <<now, bindVars, call, lanes, holder, fifo, events, progress,
                 log>>

(* The timer of wait_for fires in the iteration in which acquire() ends.     *)
TimeoutAtGrant(s) == Late(s) /\ LoseLock(s, "expired") /\ UNCHANGED reached

(* The coroutine resumes with the lock: budget check, first current_bot.     *)
Resume(s) ==
  /\ pc[s] = "granted"
  /\ \/ Late(s) /\ End(s, "expired")
     \/ ~Late(s) /\ CurrentBot(s) = None /\ End(s, "failed")
     \/ /\ ~Late(s) /\ CurrentBot(s) # None
        /\ pc' = [pc EXCEPT ![s] = "reserving"]
        /\ waiters' = [waiters EXCEPT ![lane[s]] = @ - Count(s)]
        /\ counted' = [counted EXCEPT ![s] = FALSE]
        /\ UNCHANGED <<lanes, holder, fifo, lane, result>>
  /\ UNCHANGED <<now, bindVars, call, events, progress, log, reached>>

-----------------------------------------------------------------------------
(* The parts.                                                                *)

(* What a bucket remembers of a reservation is its instant; no two           *)
(* reservations are of the same attempt at the same part of a send, so the   *)
(* deque of instants is a set of reservations, and its length the size.      *)
Reservation(s) ==
  [send |-> s, part |-> Len(parts[s]) + 1, attempt |-> attempts[s] + 1,
   handle |-> CurrentBot(s), at |-> now]

(* _prune_quota_events                                                       *)
Pruned(b) == {e \in events[b] : e.at > now - WindowOf[b]}

(* The buckets that are full, and how long each stays so: until the oldest   *)
(* reservation leaves the window.                                            *)
Blocking(s) ==
  {b \in BucketsFor[TargetOf[s]] : Cardinality(Pruned(b)) >= LimitOf[b]}
QuotaWait(s) ==
  Max({Min({e.at : e \in Pruned(b)}) + WindowOf[b] - now : b \in Blocking(s)})

KeysAfter(s) == {b \in Bucket : Pruned(b) # {}} \cup BucketsFor[TargetOf[s]]

(* A SchedulerAdmissionError in the loop over the parts.  After a refused    *)
(* retry the part has failed; before any part the code of the error decides. *)
NotAdmitted(s, status) ==
  LET rs == IF attempts[s] > 0 THEN Append(parts[s], "failed") ELSE parts[s]
  IN /\ parts' = [parts EXCEPT ![s] = rs]
     /\ End(s, IF rs = <<>> THEN status ELSE Summary(s, rs))
     /\ UNCHANGED <<wake, attempts>>

StopAt(s, status) ==
  LET rs == Append(parts[s], status)
  IN /\ parts' = [parts EXCEPT ![s] = rs]
     /\ End(s, Summary(s, rs))
     /\ UNCHANGED <<wake, attempts>>

(* A reservation that cannot be had: the budget is over, or the table of     *)
(* buckets is full.                                                          *)
ReserveRefused(s) ==
  /\ pc[s] = "reserving"
  /\ \/ Late(s) /\ NotAdmitted(s, "expired") /\ UNCHANGED events
     \/ /\ ~Late(s) /\ wake[s] <= now /\ Blocking(s) = {}
        /\ Cardinality(KeysAfter(s)) > MaxBuckets
        /\ NotAdmitted(s, "failed")
        /\ events' = [b \in Bucket |-> Pruned(b)]
  /\ UNCHANGED <<now, bindVars, call, log, reached>>

ReserveLater(s) ==
  /\ pc[s] = "reserving" /\ ~Late(s) /\ wake[s] <= now
  /\ Blocking(s) # {}
  /\ events' = [b \in Bucket |-> Pruned(b)]
  /\ wake' = [wake EXCEPT ![s] = now + QuotaWait(s)]
  /\ UNCHANGED <<now, bindVars, pc, call, laneVars, attempts, parts, result,
                 log, reached>>

(* All buckets are charged at once, the bot is resolved again, and the       *)
(* physical send starts.  ChargedSlip charges a part once, not its retries.  *)
ChargedSlip(s) == [b \in Bucket |-> IF b \in BucketsFor[TargetOf[s]] /\ attempts[s] = 0
                                    THEN Pruned(b) \cup {Reservation(s)} ELSE Pruned(b)]
Charged(s) == [b \in Bucket |-> IF b \in BucketsFor[TargetOf[s]]
                                THEN Pruned(b) \cup {Reservation(s)} ELSE Pruned(b)]
Reserve(s) ==
  /\ pc[s] = "reserving" /\ ~Late(s) /\ wake[s] <= now
  /\ Blocking(s) = {} /\ Cardinality(KeysAfter(s)) <= MaxBuckets
  /\ events' = Charged(s)
  /\ IF CurrentBot(s) = None
     THEN StopAt(s, "failed") /\ UNCHANGED log
     ELSE /\ pc' = [pc EXCEPT ![s] = "wire"]
          /\ attempts' = [attempts EXCEPT ![s] = @ + 1]
          /\ log' = log \cup {Reservation(s)}
          /\ UNCHANGED <<laneVars, wake, parts, result>>
  /\ UNCHANGED <<now, bindVars, call, reached>>

Part(s) == Len(parts[s]) + 1
Taken(s) == reached' = [reached EXCEPT ![s] = Append(@, Part(s))]

Accepted(s) ==
  /\ pc[s] = "wire"
  /\ Taken(s)
  /\ IF Part(s) = Parts[s] THEN StopAt(s, "accepted")
     ELSE /\ parts' = [parts EXCEPT ![s] = Append(@, "accepted")]
          /\ attempts' = [attempts EXCEPT ![s] = 0]
          /\ wake' = [wake EXCEPT ![s] = now]
          /\ pc' = [pc EXCEPT ![s] = "reserving"]
          /\ UNCHANGED <<laneVars, result>>
  /\ UNCHANGED <<now, bindVars, call, events, log>>

(* A definite failure, or a rate limit beyond the last retry.                *)
Failed(s) ==
  /\ pc[s] = "wire"
  /\ StopAt(s, "failed")
  /\ UNCHANGED <<now, bindVars, call, events, log, reached>>

(* A rate limit with a retry-after: the part is tried again after the wait,  *)
(* unless the wait is longer than the scheduler allows.                      *)
RateLimited(s) ==
  /\ pc[s] = "wire" /\ attempts[s] <= MaxRetries
  /\ \E after \in RetryAfters :
       IF after > MaxRetryAfter THEN NotAdmitted(s, "failed")
       ELSE /\ pc' = [pc EXCEPT ![s] = "reserving"]
            /\ wake' = [wake EXCEPT ![s] = now + after]
            /\ UNCHANGED <<attempts, parts, laneVars, result>>
  /\ UNCHANGED <<now, bindVars, call, events, log, reached>>

(* No definite answer: the exporter raised, timed out, or was cancelled by   *)
(* the deadline.  The platform may have taken the part or not.               *)
NoAnswer(s) ==
  /\ Taken(s) \/ UNCHANGED reached
  /\ StopAt(s, "unknown")
  /\ UNCHANGED <<now, bindVars, call, events, log>>
Unanswered(s) == pc[s] = "wire" /\ NoAnswer(s)
WireDeadline(s) == pc[s] = "wire" /\ Late(s) /\ NoAnswer(s)

-----------------------------------------------------------------------------
(* The callers.                                                              *)

(* CancelledError goes through every finally clause and gives no result; the *)
(* part in hand may have been taken.  A send sleeps where wake is ahead.     *)
CancelAwait(s) ==
  /\ \/ pc[s] \in {"acquiring", "waiting"} /\ UNCHANGED reached
     \/ pc[s] = "reserving" /\ wake[s] > now /\ UNCHANGED reached
     \/ pc[s] = "wire" /\ (Taken(s) \/ UNCHANGED reached)
  /\ End(s, None)
  /\ UNCHANGED <<now, bindVars, call, events, progress, log>>

Cancel(s) ==
  /\ s \in Impatient
  /\ \/ CancelAwait(s)
     \/ LoseLock(s, None) /\ UNCHANGED reached

-----------------------------------------------------------------------------
(* The environment.                                                          *)

(* bind_bot with another handle.                                             *)
Bind(h) ==
  /\ h # bound /\ generation <= MaxRebinds
  /\ bound' = h /\ generation' = generation + 1
  /\ UNCHANGED <<now, pc, call, laneVars, events, progress, result, log, reached>>

Unbind ==
  /\ bound # None /\ generation <= MaxRebinds
  /\ bound' = None /\ generation' = generation + 1
  /\ UNCHANGED <<now, pc, call, laneVars, events, progress, result, log, reached>>

Tick ==
  /\ now < MaxTime
  /\ now' = now + 1
  /\ UNCHANGED <<bindVars, pc, call, laneVars, events, progress, result, log,
                 reached>>

Scheduler(s) ==
  \/ Acquire(s) \/ WakeUp(s) \/ GiveUp(s) \/ TimeoutAtGrant(s) \/ Resume(s)
  \/ ReserveRefused(s) \/ ReserveLater(s) \/ Reserve(s) \/ WireDeadline(s)
Exporter(s) == Accepted(s) \/ Failed(s) \/ RateLimited(s) \/ Unanswered(s)

Next ==
  \/ \E s \in Send : Refuse(s) \/ Arrive(s) \/ Scheduler(s) \/ Exporter(s)
                     \/ Cancel(s)
  \/ \E h \in Handle : Bind(h)
  \/ Unbind \/ Tick

Spec == Init /\ [][Next]_vars

(* The loop runs what is ready and time passes.  A platform need not answer, *)
(* a caller need not be cancelled.                                           *)
FairSpec ==
  /\ Spec /\ WF_vars(Tick)
  /\ \A s \in Send : WF_vars(Scheduler(s))

-----------------------------------------------------------------------------
(* Properties.                                                               *)

Steps == {"new", "acquiring", "waiting", "granted", "reserving", "wire",
          "done"}
Holding == {"granted", "reserving", "wire"}

(* Every variable has its type (the history variables included).             *)
TypeOK ==
  /\ now \in Nat /\ generation \in Nat /\ bound \in Handle \cup {None}
  /\ pc \in [Send -> Steps]
  /\ TargetOf \in Calls
  /\ seen \in [Send -> [handle : Handle \cup {None}, generation : Nat]]
  /\ lanes \in [Target -> Send \cup {None}]
  /\ holder \in [Send -> Send \cup {None}]
  /\ fifo \in [Send -> Seq(Send)]
  /\ waiters \in [Send -> Nat]
  /\ lane \in [Send -> Send \cup {None}]
  /\ counted \in [Send -> BOOLEAN]
  /\ \A b \in Bucket : \A e \in events[b] : e.at \in Nat
  /\ wake \in [Send -> Nat]
  /\ attempts \in [Send -> Nat]
  /\ parts \in [Send -> Seq(PartStatus)]
  /\ result \in [Send -> Status \cup {None}]
  /\ reached \in [Send -> Seq(Nat)]

(* Between its first and its last physical message a send has its target for *)
(* itself: "Serialize each exact target" (class OutboundSendScheduler).      *)
TargetSerial ==
  \A r, s \in Send :
    r # s /\ TargetOf[r] = TargetOf[s]
      => ~(pc[r] \in {"reserving", "wire"} /\ pc[s] \in {"reserving", "wire"})

(* The result of _send tells the truth: the platform took the parts in       *)
(* order, none twice; "accepted" says all of them, "failed" and "expired"    *)
(* none, "partial" some, and only "unknown" parts are in doubt, and the part *)
(* in hand of a send that was cancelled.                                     *)
Cancelled(s) == pc[s] = "done" /\ result[s] = None
ResultIsTrue ==
  \A s \in Send :
    LET n == Len(reached[s])
        sure == Cardinality({i \in 1..Len(parts[s]) : parts[s][i] = "accepted"})
        doubt == Cardinality({i \in 1..Len(parts[s]) : parts[s][i] = "unknown"})
    IN /\ reached[s] = [i \in 1..n |-> i]
       /\ result[s] = "accepted" => n = Parts[s]
       /\ result[s] \in {"failed", "expired"} => n = 0
       /\ result[s] = "partial" => n > 0
       /\ n >= sure
       /\ n <= sure + doubt + (IF Cancelled(s) THEN 1 ELSE 0)

(* No window of a bucket ever holds more physical sends than its limit,      *)
(* retries included, whichever targets share it (_reserve_part).             *)
QuotaRespected ==
  \A b \in Bucket, t \in 0..MaxTime :
    Cardinality({e \in log : /\ b \in BucketsFor[TargetOf[e.send]]
                             /\ e.at <= t /\ e.at > t - WindowOf[b]})
      <= LimitOf[b]

(* A message only ever leaves through the bot it was addressed through when  *)
(* send was called, however long it waited and whatever was bound since.     *)
ExactBot ==
  \A e \in log :
    e.handle = IF Explicit[e.send] # None THEN Explicit[e.send]
               ELSE seen[e.send].handle

(* When nobody is inside any more, no count and no place in a queue is left, *)
(* and a lane is left only because its lock is held by a send with a         *)
(* deadline that was cancelled or timed out in the iteration of its grant:   *)
(* every other way out of _lane returns what it took.                        *)
Quiet == \A s \in Send : pc[s] \in {"new", "done"}
LanesAreReturned ==
  Quiet =>
    /\ \A l \in Send : waiters[l] = 0 /\ fifo[l] = <<>>
    /\ \A t \in Target : lanes[t] # None => holder[lanes[t]] # None
    /\ \A l \in Send : holder[l] # None =>
         Deadline[holder[l]] # None /\ result[holder[l]] \in {"expired", None}

(* lock_with_deadline releases what it acquired "exactly once": when nobody  *)
(* is inside, no lock is held.  The code does not keep this.                 *)
NoLockLeak == Quiet => \A l \in Send : holder[l] = None

(* A send with a deadline returns, although the platform never answers the   *)
(* one before it in the lane.                                                *)
DeadlineSendsEnd ==
  \A s \in Send :
    Deadline[s] # None /\ pc[s] # "new" ~> pc[s] = "done"

-----------------------------------------------------------------------------
(* The contract of DeliveryContract: a delivery is sending from the moment   *)
(* its coroutine has the lane until its result is known.                     *)

Stage(p) ==
  CASE p \in {"reserving", "wire"} -> "sending"
    [] p = "done" -> "over"
    [] OTHER -> "waiting"

Contract == INSTANCE DeliveryContract WITH
  Delivery <- Send,
  Size <- Parts,
  Unsaid <- None,
  to <- TargetOf,
  stage <- [s \in Send |-> Stage(pc[s])],
  taken <- reached,
  answer <- result

(* Lanes, quotas, retries and deadlines implement the contract: deliveries   *)
(* to a target do not interleave, and each is answered once and truly.       *)
ImplementsDelivery == Contract!Spec

=============================================================================
