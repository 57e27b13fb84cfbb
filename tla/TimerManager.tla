---------------------------- MODULE TimerManager ----------------------------
(***************************************************************************)
(* Timer and TimerManager (timer.h, timer.cpp) with the threads that serve *)
(* them: every thread of an IOManager that has no task runs idle(), sleeps *)
(* until the time getNextTimer() announced or until it is notified through *)
(* the pipe, and then calls listExpiredCb().                               *)
(*                                                                         *)
(* m_timers is a std::set ordered by Timer::Comparator, which compares     *)
(* m_next only.  Two timers with the same m_next are one element to it:    *)
(* insert() does nothing when an equal key is present, and find() returns  *)
(* whichever timer has the key.                                            *)
(*                                                                         *)
(* Clients call addTimer and cancel from any thread, at any time.  refresh *)
(* and reset of one timer are not called by two threads at once: reset     *)
(* writes m_next and m_ms without the lock.  A step is a critical section  *)
(* of m_mutex, a read of the clock, or the call of onTimerInsertedAtFront. *)
(*                                                                         *)
(* A definition X_Y just before X is X with a plausible bug Y; it is used  *)
(* only to confirm that the properties notice the bug.                     *)
(***************************************************************************)
EXTENDS Naturals, FiniteSets

CONSTANTS
  Timers,      \* timer objects that can come into being
  Servers,     \* the threads of the IOManager
  Periods,     \* values of ms
  Never,       \* no timer is set: getNextTimer() returns ~0ull
  Hour,        \* how far back the clock must jump to count as a rollover
  MaxTime,     \* bound: the clock stays below this
  MaxOps       \* bound: calls of refresh and reset and settings of the clock, together

ASSUME TimerAssumption ==
  /\ IsFiniteSet(Timers) /\ Servers # {}
  /\ Periods \subseteq Nat
  /\ Never \in Nat /\ \A ms \in Periods : MaxTime + ms < Never
  /\ Hour \in Nat /\ MaxTime \in Nat /\ MaxOps \in Nat

Time == Nat

VARIABLES
  now,          \* system_clock::now()
  m_timers,     \* the set
  m_next, m_ms, m_recurring,
  m_cb,         \* m_cb[t]: is t->m_cb set?
  phase,        \* phase[t]: "none", "made" (constructed, about to be inserted), "live", or
                \*   inside reset(): "erased" (after its critical section), "moved" (about to be inserted)
  m_tickled, m_previouseTime,
  notifying,    \* onTimerInsertedAtFront() calls under way
  notified,     \* the pipe holds a byte that epoll has not reported yet
  loop,         \* loop[w]: thread w is "busy" (with tasks) or, in idle(), "asleep", "read" (has
                \*   read now), "collect" (holds m_mutex) or "post" (posts, serves descriptors)
  deadline,     \* deadline[w]: when its sleep ends
  batchNow,     \* batchNow[w]: its listExpiredCb's now
  rollover,     \* rollover of the listExpiredCb that holds m_mutex
  batch,        \* the timers that one has put into cbs
  fired,        \* fired[t]: callbacks of t collected, if t is one-shot (counted up to 2)
  backs,        \* how often the clock was set back
  ops           \* calls of refresh and reset

timerVars == <<m_next, m_ms, m_recurring>>
loopVars == <<loop, deadline, batchNow, rollover, batch>>
bounds == <<backs, ops>>
vars == <<now, m_timers, timerVars, m_cb, phase, m_tickled, m_previouseTime,
          notifying, notified, loopVars, fired, bounds>>

TypeOK ==
  /\ now \in Time /\ m_timers \in SUBSET {t \in Timers : phase[t] = "live"}
  /\ m_next \in [Timers -> Time] /\ m_ms \in [Timers -> Nat] /\ m_recurring \in [Timers -> BOOLEAN]
  /\ m_cb \in [Timers -> BOOLEAN]
  /\ phase \in [Timers -> {"none", "made", "live", "erased", "moved"}]
  /\ m_tickled \in BOOLEAN /\ m_previouseTime \in Time
  /\ notifying \in Nat /\ notified \in BOOLEAN
  /\ loop \in [Servers -> {"busy", "asleep", "read", "collect", "post"}]
  /\ deadline \in [Servers -> Time] /\ batchNow \in [Servers -> Time]
  /\ rollover \in BOOLEAN /\ batch \in SUBSET Timers
  /\ fired \in [Timers -> 0..2]
  /\ backs \in Nat /\ ops \in Nat

Init ==
  /\ now = Hour /\ m_timers = {}
  /\ m_next = [t \in Timers |-> 0] /\ m_ms = [t \in Timers |-> 0] /\ m_recurring = [t \in Timers |-> FALSE]
  /\ m_cb = [t \in Timers |-> FALSE] /\ phase = [t \in Timers |-> "none"]
  /\ m_tickled = FALSE /\ m_previouseTime = Hour
  /\ notifying = 0 /\ notified = FALSE
  /\ loop = [w \in Servers |-> "busy"]
  /\ deadline = [w \in Servers |-> 0] /\ batchNow = [w \in Servers |-> 0]
  /\ rollover = FALSE /\ batch = {}
  /\ fired = [t \in Timers |-> 0] /\ backs = 0 /\ ops = 0

-----------------------------------------------------------------------------
(* The set, as its comparator makes it.                                     *)

insert(S, t) == IF \E u \in S : m_next'[u] = m_next'[t] THEN S ELSE S \cup {t}
find(t) == {u \in m_timers : m_next[u] = m_next[t]}
IsFirst(t) == \A u \in m_timers : m_next[t] <= m_next[u]

\* A client has the shared_ptr that addTimer returned.
Known(t) == phase[t] \in {"live", "erased", "moved"}

\* listExpiredCb holds m_mutex from its lock to its end.
Unlocked == \A w \in Servers : loop[w] # "collect"

AllBusy == \A w \in Servers : loop[w] = "busy"
AllAsleep == \A w \in Servers : loop[w] = "asleep"

-----------------------------------------------------------------------------
(* Clients.                                                                 *)

\* addTimer(ms, cb, recurring): the constructor reads the clock ...
NewTimer(t, ms, recurring) ==
  /\ phase[t] = "none"
  /\ m_next' = [m_next EXCEPT ![t] = now + ms]
  /\ m_ms' = [m_ms EXCEPT ![t] = ms]
  /\ m_recurring' = [m_recurring EXCEPT ![t] = recurring]
  /\ m_cb' = [m_cb EXCEPT ![t] = TRUE]
  /\ phase' = [phase EXCEPT ![t] = "made"]
  /\ UNCHANGED <<now, m_timers, m_tickled, m_previouseTime, notifying, notified, loopVars, fired, bounds>>

addTimer_NoNotice(t) ==
  /\ phase[t] \in {"made", "moved"} /\ Unlocked
  /\ m_timers' = (IF find(t) = {} THEN m_timers \cup {t} ELSE m_timers)
  /\ phase' = [phase EXCEPT ![t] = "live"]
  /\ m_tickled' = (m_tickled \/ IsFirst(t))
  /\ notifying' = notifying + (IF IsFirst(t) /\ m_timers = {} /\ ~m_tickled THEN 1 ELSE 0)
  /\ UNCHANGED <<now, timerVars, m_cb, m_previouseTime, notified, loopVars, fired, bounds>>

\* ... and addTimer(timer) inserts, also on behalf of reset().
addTimer(t) ==
  /\ phase[t] \in {"made", "moved"} /\ Unlocked
  /\ m_timers' = (IF find(t) = {} THEN m_timers \cup {t} ELSE m_timers)
  /\ phase' = [phase EXCEPT ![t] = "live"]
  /\ m_tickled' = (m_tickled \/ IsFirst(t))
  /\ notifying' = notifying + (IF IsFirst(t) /\ ~m_tickled THEN 1 ELSE 0)
  /\ UNCHANGED <<now, timerVars, m_cb, m_previouseTime, notified, loopVars, fired, bounds>>

\* tickle(): nothing when no thread is in idle(); but one may be about to sleep, or may
\* have left between the test and the write.
onTimerInsertedAtFront ==
  /\ notifying > 0
  /\ notifying' = notifying - 1
  /\ notified' = TRUE \/ (AllBusy /\ UNCHANGED notified)
  /\ UNCHANGED <<now, m_timers, timerVars, m_cb, phase, m_tickled, m_previouseTime, loopVars, fired, bounds>>

cancel(t) ==
  /\ Known(t) /\ Unlocked
  /\ m_cb[t]
  /\ m_cb' = [m_cb EXCEPT ![t] = FALSE]
  /\ m_timers' = m_timers \ find(t)
  /\ UNCHANGED <<now, timerVars, phase, m_tickled, m_previouseTime, notifying, notified, loopVars, fired, bounds>>

refresh_InPlace(t) ==
  /\ phase[t] = "live" /\ Unlocked /\ backs + ops < MaxOps
  /\ m_cb[t] /\ find(t) # {}
  /\ m_next' = [m_next EXCEPT ![t] = now + m_ms[t]]
  /\ ops' = ops + 1
  /\ UNCHANGED <<now, m_timers, m_ms, m_recurring, m_cb, phase, m_tickled, m_previouseTime,
                 notifying, notified, loopVars, fired, backs>>

refresh(t) ==
  /\ phase[t] = "live" /\ Unlocked /\ backs + ops < MaxOps
  /\ m_cb[t] /\ find(t) # {}
  /\ m_next' = [m_next EXCEPT ![t] = now + m_ms[t]]
  /\ m_timers' = insert(m_timers \ find(t), t)
  /\ ops' = ops + 1
  /\ UNCHANGED <<now, m_ms, m_recurring, m_cb, phase, m_tickled, m_previouseTime,
                 notifying, notified, loopVars, fired, backs>>

\* reset(ms, from_now): erase under the lock, then compute without it, then addTimer(timer).
\* The arguments are chosen where they are used first, apart from the test that
\* returns early when they change nothing.
ResetErases(t) ==
  /\ phase[t] = "live" /\ Unlocked /\ backs + ops < MaxOps
  /\ m_cb[t] /\ find(t) # {}
  /\ m_timers' = m_timers \ find(t)
  /\ phase' = [phase EXCEPT ![t] = "erased"]
  /\ ops' = ops + 1
  /\ UNCHANGED <<now, timerVars, m_cb, m_tickled, m_previouseTime, notifying, notified, loopVars, fired, backs>>

ResetComputes(t, ms, from_now) ==
  LET start == IF from_now THEN now ELSE m_next[t] - m_ms[t] IN
  /\ phase[t] = "erased"
  /\ ms # m_ms[t] \/ from_now
  /\ m_ms' = [m_ms EXCEPT ![t] = ms]
  /\ m_next' = [m_next EXCEPT ![t] = start + ms]
  /\ phase' = [phase EXCEPT ![t] = "moved"]
  /\ UNCHANGED <<now, m_timers, m_recurring, m_cb, m_tickled, m_previouseTime,
                 notifying, notified, loopVars, fired, bounds>>

-----------------------------------------------------------------------------
(* The serving threads.                                                     *)

\* stopping() is called by stop() and by idle() each time round.  It asks for the
\* next timer too, and so clears m_tickled, without going to sleep.
stopping ==
  /\ Unlocked
  /\ m_tickled' = FALSE
  /\ UNCHANGED <<now, m_timers, timerVars, m_cb, phase, m_previouseTime, notifying, notified,
                 loopVars, fired, bounds>>

\* A thread without a task enters idle(): getNextTimer(), then epoll_wait with that timeout,
\* both again when epoll_wait is interrupted by a signal.
getNextTimer(w) ==
  /\ loop[w] \in {"busy", "asleep"} /\ Unlocked
  /\ m_tickled' = FALSE
  /\ deadline' = [deadline EXCEPT ![w] = IF m_timers = {} THEN Never ELSE m_next[CHOOSE t \in m_timers : IsFirst(t)]]
  /\ loop' = [loop EXCEPT ![w] = "asleep"]
  /\ UNCHANGED <<now, m_timers, timerVars, m_cb, phase, m_previouseTime, notifying, notified,
                 batchNow, rollover, batch, fired, bounds>>

\* The sleep ends at its deadline or earlier: one of the sleeping threads gets the
\* report that the pipe is readable, any may get one of another descriptor, and no
\* sleep is longer than 5 seconds.  Then listExpiredCb reads the clock.
WakesUp(w) ==
  /\ loop[w] = "asleep"
  /\ notified' \in {notified, FALSE}
  /\ loop' = [loop EXCEPT ![w] = "read"]
  /\ batchNow' = [batchNow EXCEPT ![w] = now] /\ deadline' = [deadline EXCEPT ![w] = 0]
  /\ UNCHANGED <<now, m_timers, timerVars, m_cb, phase, m_tickled, m_previouseTime, notifying,
                 rollover, batch, fired, bounds>>

\* It takes m_mutex and calls detectClockRollover, which reads the clock again.
detectClockRollover(w) ==
  /\ loop[w] = "read" /\ Unlocked
  /\ rollover' = (now + Hour < m_previouseTime)
  /\ m_previouseTime' = now
  /\ loop' = [loop EXCEPT ![w] = "collect"]
  /\ UNCHANGED <<now, m_timers, timerVars, m_cb, phase, m_tickled, notifying, notified,
                 deadline, batchNow, batch, fired, bounds>>

Expired(w, t) == t \in m_timers /\ IsFirst(t) /\ (rollover \/ m_next[t] <= batchNow[w])
Bump(n) == IF n = 2 THEN 2 ELSE n + 1

Collect_KeepsCb(w, t) ==
  /\ loop[w] = "collect" /\ Expired(w, t)
  /\ fired' = [fired EXCEPT ![t] = IF m_cb[t] /\ ~m_recurring[t] THEN Bump(@) ELSE @]
  /\ batch' = batch \cup {t}
  /\ m_next' = [m_next EXCEPT ![t] = batchNow[w] + m_ms[t]]
  /\ m_timers' = insert(m_timers \ {t}, t)
  /\ UNCHANGED <<now, m_ms, m_recurring, m_cb, phase, m_tickled, m_previouseTime,
                 notifying, notified, loop, deadline, batchNow, rollover, bounds>>

Collect_SameTime(w, t) ==
  /\ loop[w] = "collect" /\ Expired(w, t)
  /\ fired' = [fired EXCEPT ![t] = IF m_cb[t] /\ ~m_recurring[t] THEN Bump(@) ELSE @]
  /\ batch' = batch \cup {t}
  /\ m_timers' = (IF m_recurring[t] THEN m_timers ELSE m_timers \ {t})
  /\ m_cb' = [m_cb EXCEPT ![t] = m_recurring[t]]
  /\ UNCHANGED <<now, timerVars, phase, m_tickled, m_previouseTime,
                 notifying, notified, loop, deadline, batchNow, rollover, bounds>>

Collect_NotBack(w, t) ==
  /\ loop[w] = "collect" /\ Expired(w, t)
  /\ fired' = [fired EXCEPT ![t] = IF m_cb[t] /\ ~m_recurring[t] THEN Bump(@) ELSE @]
  /\ batch' = batch \cup {t}
  /\ m_timers' = m_timers \ {t}
  /\ m_cb' = [m_cb EXCEPT ![t] = m_recurring[t]]
  /\ UNCHANGED <<now, timerVars, phase, m_tickled, m_previouseTime,
                 notifying, notified, loop, deadline, batchNow, rollover, bounds>>

\* One round of listExpiredCb's loop: the first timer, if it has expired.
Collect(w, t) ==
  /\ loop[w] = "collect" /\ Expired(w, t)
  /\ fired' = [fired EXCEPT ![t] = IF m_cb[t] /\ ~m_recurring[t] THEN Bump(@) ELSE @]
  /\ batch' = batch \cup {t}
  /\ \/ /\ m_recurring[t]
        /\ m_next' = [m_next EXCEPT ![t] = batchNow[w] + m_ms[t]]
        /\ m_timers' = insert(m_timers \ {t}, t)
        /\ UNCHANGED m_cb
     \/ /\ ~m_recurring[t]
        /\ m_timers' = m_timers \ {t}
        /\ m_cb' = [m_cb EXCEPT ![t] = FALSE]
        /\ UNCHANGED m_next
  /\ UNCHANGED <<now, m_ms, m_recurring, phase, m_tickled, m_previouseTime,
                 notifying, notified, loop, deadline, batchNow, rollover, bounds>>

CollectEnds(w) ==
  /\ loop[w] = "collect"
  /\ \A t \in m_timers : ~Expired(w, t)
  /\ loop' = [loop EXCEPT ![w] = "post"] /\ batchNow' = [batchNow EXCEPT ![w] = 0]
  /\ rollover' = FALSE /\ batch' = {}
  /\ UNCHANGED <<now, m_timers, timerVars, m_cb, phase, m_tickled, m_previouseTime,
                 notifying, notified, deadline, fired, bounds>>

\* It posts the callbacks, serves the descriptors that were reported (one that had
\* the pipe empties it, a byte written since included) and yields to the scheduler.
Yields(w) ==
  /\ loop[w] = "post"
  /\ notified' \in {notified, FALSE}
  /\ loop' = [loop EXCEPT ![w] = "busy"]
  /\ UNCHANGED <<now, m_timers, timerVars, m_cb, phase, m_tickled, m_previouseTime, notifying,
                 deadline, batchNow, rollover, batch, fired, bounds>>

-----------------------------------------------------------------------------
(* The clock.                                                               *)

Tick ==
  /\ now < MaxTime
  /\ now' = now + 1
  /\ UNCHANGED <<m_timers, timerVars, m_cb, phase, m_tickled, m_previouseTime,
                 notifying, notified, loopVars, fired, bounds>>

\* Somebody sets the system clock back; epoll_wait's timeout runs on unaffected,
\* so it ends earlier by that clock.
ClockSetBack ==
  /\ backs + ops < MaxOps
  /\ backs' = backs + 1
  /\ \E back \in 1..now :
       /\ now' = now - back
       /\ deadline' = [w \in Servers |->
             IF deadline[w] = Never THEN Never ELSE IF deadline[w] > back THEN deadline[w] - back ELSE 0]
  /\ UNCHANGED <<m_timers, timerVars, m_cb, phase, m_tickled, m_previouseTime,
                 notifying, notified, loop, batchNow, rollover, batch, fired, ops>>

-----------------------------------------------------------------------------
Clients ==
  \E t \in Timers :
    \/ \E ms \in Periods, recurring \in BOOLEAN : NewTimer(t, ms, recurring)
    \/ cancel(t) \/ refresh(t) \/ ResetErases(t)

\* Calls that have begun.
ClientsProceed ==
  \/ onTimerInsertedAtFront
  \/ \E t \in Timers :
       addTimer(t) \/ \E ms \in Periods, from_now \in BOOLEAN : ResetComputes(t, ms, from_now)

Serve(w) ==
  \/ getNextTimer(w) \/ WakesUp(w) \/ detectClockRollover(w)
  \/ CollectEnds(w) \/ Yields(w) \/ \E t \in Timers : Collect(w, t)

ServeTimers == stopping \/ \E w \in Servers : Serve(w)

Next == Clients \/ ClientsProceed \/ ServeTimers \/ Tick \/ ClockSetBack

Spec == Init /\ [][Next]_vars

-----------------------------------------------------------------------------
(* Properties.                                                              *)

\* The set stays a set of live timers: no operation changes the key of a timer inside it so
\* that two elements compare equal, which would make std::set undefined.
KeysDistinct == TypeOK /\ \A t, u \in m_timers : m_next[t] = m_next[u] => t = u

\* The callback of a one-shot timer is collected at most once, however cancel,
\* refresh and reset interleave with its expiry.
OneShotAtMostOnce == \A t \in Timers : ~m_recurring[t] => fired[t] <= 1

\* The threads never all sleep past a timer: when all of them sleep and no notification is on
\* its way, one of them has a deadline no later than any timer's, whatever was inserted since
\* it called getNextTimer().  m_tickled suppresses notifications, and a thread that was notified
\* and went on to run tasks leaves it set, so that meanwhile the others may sleep too long (5
\* seconds at most); but it cannot sleep itself without looking at the set again.  This needs
\* a clock that was not set back: refresh() may then move a timer to an earlier time, and
\* notifies nobody.
NeverOversleeps ==
  AllAsleep /\ ~notified /\ notifying = 0 /\ backs = 0
    => \E w \in Servers : \A t \in m_timers : deadline[w] <= m_next[t]

\* When listExpiredCb's loop comes to a timer it has put into this batch before, that is a
\* recurring timer with a period of 0, or the clock was set back by an hour.  In these two cases
\* the timer is first in the set and expired again as soon as it is inserted, and the loop goes
\* on for ever with m_mutex held; in all others it takes each timer at most once and ends.
OncePerBatch ==
  \A w \in Servers, t \in Timers :
    loop[w] = "collect" /\ t \in batch /\ Expired(w, t) => m_recurring[t] /\ (rollover \/ m_ms[t] = 0)

\* A timer that is neither cancelled nor finished is lost from the set, or not taken
\* into it, only to another timer with the same m_next, on which insert, refresh,
\* reset and cancel act in its stead; it never gets lost otherwise, a recurring
\* one in particular not when it expires.
LostOnlyToTie ==
  [][\A t \in Timers :
       phase'[t] = "live" /\ m_cb'[t] /\ t \notin m_timers' /\ (t \in m_timers \/ phase[t] # "live")
         => \E u \in Timers \ {t} : phase[u] # "none" /\ (m_next[u] = m_next[t] \/ m_next'[u] = m_next'[t])]_vars
=============================================================================
