------------------------- MODULE TimerManagerProofs -------------------------
(***************************************************************************)
(* Proofs about TimerManager.tla for any timers, serving threads, periods, *)
(* size of a rollover and bounds.                                          *)
(***************************************************************************)
EXTENDS TimerManager, WellFoundedInduction, TLAPS

-----------------------------------------------------------------------------
(* The inductive invariant, besides the properties it is made of.           *)

\* What the times are made of.  A timer's next time is at least one period after time 0
\* and, unless the clock was set back, at most one period from now.
TimesBounded ==
  /\ \A t \in Timers :
       /\ phase[t] # "none" => m_ms[t] <= m_next[t]
       /\ phase[t] # "none" /\ backs = 0 => m_next[t] <= now + m_ms[t]
  /\ backs = 0 => \A w \in Servers : batchNow[w] <= now

\* A one-shot timer has its callback until it fires.
CallbackOnce ==
  \A t \in Timers :
    /\ phase[t] = "none" => fired[t] = 0
    /\ ~m_recurring[t] => fired[t] <= 1 /\ (m_cb[t] => fired[t] = 0)

\* When all threads sleep, m_tickled is set only with a notification on its way, and without
\* one the deadline of some thread is early enough.
SleepCovered ==
  AllAsleep /\ ~notified /\ notifying = 0 =>
    /\ ~m_tickled
    /\ backs = 0 => \E w \in Servers : \A t \in m_timers : deadline[w] <= m_next[t]

\* m_mutex has one holder, and what is in its batch and in the set is recurring and has
\* moved on, if its period is not 0.
BatchBehind ==
  /\ \A w, v \in Servers : loop[w] = "collect" /\ loop[v] = "collect" => w = v
  /\ Unlocked => batch = {}
  /\ \A w \in Servers : loop[w] = "collect" =>
       \A t \in batch \cap m_timers : m_recurring[t] /\ (rollover \/ m_ms[t] = 0 \/ m_next[t] > batchNow[w])

\* The inductive invariant.
IndInv == KeysDistinct /\ TimesBounded /\ CallbackOnce /\ SleepCovered /\ BatchBehind

-----------------------------------------------------------------------------
(* Proofs.                                                                  *)

Phases == {"none", "made", "live", "erased", "moved"}
Loops == {"busy", "asleep", "read", "collect", "post"}

\* Two keys of the set are never equal.
Distinct == \A t, u \in m_timers : m_next[t] = m_next[u] => t = u

\* The types, apart from the Booleans that the provers like to see alone.
LEMMA Types ==
  ASSUME IndInv
  PROVE  /\ now \in Nat /\ m_timers \subseteq Timers /\ \A t \in m_timers : phase[t] = "live"
         /\ m_next \in [Timers -> Nat] /\ m_ms \in [Timers -> Nat]
         /\ phase \in [Timers -> Phases]
         /\ m_previouseTime \in Nat /\ notifying \in Nat
         /\ loop \in [Servers -> Loops]
         /\ deadline \in [Servers -> Nat] /\ batchNow \in [Servers -> Nat] /\ batch \subseteq Timers
         /\ fired \in [Timers -> 0..2] /\ backs \in Nat /\ ops \in Nat
         /\ m_recurring \in [Timers -> BOOLEAN] /\ m_cb \in [Timers -> BOOLEAN]
         /\ m_tickled \in BOOLEAN /\ notified \in BOOLEAN /\ rollover \in BOOLEAN
         /\ Distinct
  BY DEF IndInv, KeysDistinct, TypeOK, Time, Phases, Loops, Distinct

\* A non-empty set of timers has a first one.
LEMMA FirstExists ==
  ASSUME IndInv, m_timers # {}
  PROVE  \E t \in m_timers : IsFirst(t)
<1>1. m_timers \subseteq Timers /\ m_next \in [Timers -> Nat]  BY Types
<1> DEFINE keys == {m_next[t] : t \in m_timers}
<1>2. keys \subseteq Nat /\ keys # {}  BY <1>1
<1> DEFINE less == {ss \in Nat \X Nat : ss[1] < ss[2]}
<1>3. IsWellFoundedOn(less, Nat)  BY NatLessThanWellFounded, Zenon DEF OpToRel
<1>0. \A i, j \in Nat : i < j => <<i, j>> \in less  OBVIOUS
<1> HIDE DEF keys, less
<1>4. \E x \in keys : \A y \in keys : ~(<<y, x>> \in less)  BY <1>2, <1>3, WFMin
<1>5. PICK x \in keys : \A y \in keys : ~(<<y, x>> \in less)  BY <1>4
<1>6. \A y \in keys : x <= y
  <2> SUFFICES ASSUME NEW y \in keys PROVE x <= y
    OBVIOUS
  <2>1. x \in Nat /\ y \in Nat  BY <1>2
  <2>2. ~(<<y, x>> \in less)  BY <1>5
  <2>3. ~(y < x)  BY <1>0, <2>1, <2>2
  <2>4. QED  BY <2>1, <2>3
<1>7. PICK t \in m_timers : m_next[t] = x  BY <1>5 DEF keys
<1>8. \A u \in m_timers : m_next[u] \in keys  BY DEF keys
<1>9. QED  BY <1>6, <1>7, <1>8 DEF IsFirst

-----------------------------------------------------------------------------
\* Nothing is set.
LEMMA InitInv == Init => IndInv
<1> SUFFICES ASSUME Init PROVE IndInv
  OBVIOUS
<1> USE TimerAssumption
<1>1. TypeOK
  <2>1. /\ m_recurring \in [Timers -> BOOLEAN] /\ m_cb \in [Timers -> BOOLEAN]
        /\ m_tickled \in BOOLEAN /\ notified \in BOOLEAN /\ rollover \in BOOLEAN
    BY DEF Init
  <2>2. /\ loop \in [Servers -> Loops]
        /\ deadline \in [Servers -> Nat] /\ batchNow \in [Servers -> Nat]
    BY DEF Init, Loops
  <2>3. fired \in [Timers -> 0..2]  BY DEF Init
  <2>4. QED  BY <2>1, <2>2, <2>3 DEF Init, TypeOK, Time, Loops
<1>2. KeysDistinct /\ TimesBounded  BY <1>1 DEF Init, KeysDistinct, TimesBounded
<1>3. CallbackOnce /\ SleepCovered /\ BatchBehind  BY DEF Init, CallbackOnce, SleepCovered, BatchBehind, AllAsleep
<1>4. QED  BY <1>2, <1>3 DEF IndInv

-----------------------------------------------------------------------------
(* Clients.                                                                 *)

\* A client's critical section: no batch is being collected.
LEMMA NoBatch ==
  ASSUME IndInv, Unlocked, UNCHANGED <<loop, batch>>
  PROVE  BatchBehind'
  BY DEF IndInv, BatchBehind, Unlocked

\* A critical section that at most takes timers out of the set.
LEMMA LeavesSet ==
  ASSUME IndInv, Unlocked, m_timers' \subseteq m_timers,
         UNCHANGED <<m_next, m_tickled, notifying, notified, loop, deadline, batch, backs>>
  PROVE  SleepCovered' /\ BatchBehind'
<1>1. SleepCovered'  BY DEF IndInv, SleepCovered, AllAsleep
<1>2. QED  BY <1>1, NoBatch

LEMMA NewTimerInv ==
  ASSUME IndInv, NEW t \in Timers, NEW ms \in Periods, NEW recurring \in BOOLEAN, NewTimer(t, ms, recurring)
  PROVE  IndInv'
<1>1. ms \in Nat  BY TimerAssumption
<1>2. /\ phase[t] = "none" /\ t \notin m_timers
      /\ m_next' = [m_next EXCEPT ![t] = now + ms] /\ m_ms' = [m_ms EXCEPT ![t] = ms]
      /\ m_recurring' = [m_recurring EXCEPT ![t] = recurring] /\ m_cb' = [m_cb EXCEPT ![t] = TRUE]
      /\ phase' = [phase EXCEPT ![t] = "made"]
      /\ UNCHANGED <<now, m_timers, m_tickled, m_previouseTime, notifying, notified, loop,
                     deadline, batchNow, rollover, batch, fired, backs, ops>>
  BY Types DEF NewTimer, loopVars, bounds
<1>3. TypeOK'
  <2>1. m_recurring' \in [Timers -> BOOLEAN] /\ m_cb' \in [Timers -> BOOLEAN]  BY Types, <1>2
  <2>2. m_next' \in [Timers -> Nat] /\ m_ms' \in [Timers -> Nat] /\ phase' \in [Timers -> Phases]
    BY Types, <1>1, <1>2 DEF Phases
  <2>3. m_timers' \in SUBSET {u \in Timers : phase'[u] = "live"}  BY Types, <1>2
  <2>4. QED  BY Types, <1>2, <2>1, <2>2, <2>3 DEF TypeOK, Time, Phases, Loops
<1>4. KeysDistinct'  BY Types, <1>2, <1>3 DEF KeysDistinct, Distinct
<1>5. TimesBounded'  BY Types, <1>1, <1>2 DEF IndInv, TimesBounded
<1>6. CallbackOnce'  BY Types, <1>2 DEF IndInv, CallbackOnce
<1>7. \A u \in m_timers : m_next'[u] = m_next[u] /\ m_ms'[u] = m_ms[u] /\ m_recurring'[u] = m_recurring[u]
  BY Types, <1>2
<1>8. SleepCovered'  BY <1>2, <1>7 DEF IndInv, SleepCovered, AllAsleep
<1>9. BatchBehind'  BY <1>2, <1>7 DEF IndInv, BatchBehind, Unlocked
<1>10. QED  BY <1>4, <1>5, <1>6, <1>8, <1>9 DEF IndInv

LEMMA AddTimerInv ==
  ASSUME IndInv, NEW t \in Timers, addTimer(t)
  PROVE  IndInv'
<1>1. /\ phase[t] \in {"made", "moved"} /\ Unlocked /\ t \notin m_timers
      /\ m_timers' = (IF find(t) = {} THEN m_timers \cup {t} ELSE m_timers)
      /\ phase' = [phase EXCEPT ![t] = "live"]
      /\ m_tickled' = (m_tickled \/ IsFirst(t))
      /\ notifying' = notifying + (IF IsFirst(t) /\ ~m_tickled THEN 1 ELSE 0)
      /\ UNCHANGED <<now, m_next, m_ms, m_recurring, m_cb, m_previouseTime, notified, loop,
                     deadline, batchNow, rollover, batch, fired, backs, ops>>
  BY Types DEF addTimer, timerVars, loopVars, bounds
<1>2. m_timers' \subseteq m_timers \cup {t} /\ notifying' \in Nat  BY Types, <1>1
<1>3. TypeOK'
  <2>1. m_tickled' \in BOOLEAN  BY Types, <1>1 DEF IsFirst
  <2>2. phase' \in [Timers -> Phases] /\ m_timers' \in SUBSET {u \in Timers : phase'[u] = "live"}
    BY Types, <1>1, <1>2 DEF Phases
  <2>3. QED  BY Types, <1>1, <1>2, <2>1, <2>2 DEF TypeOK, Time, Phases, Loops
<1>4. KeysDistinct'
  <2>1. find(t) = {} => \A u \in m_timers : m_next[u] # m_next[t]  BY DEF find
  <2>2. QED  BY Types, <1>1, <1>3, <2>1 DEF KeysDistinct, Distinct
<1>5. TimesBounded'  BY Types, <1>1 DEF IndInv, TimesBounded
<1>6. CallbackOnce'  BY Types, <1>1 DEF IndInv, CallbackOnce
<1>7. BatchBehind'  BY <1>1, NoBatch
<1>8. SleepCovered'
  <2> SUFFICES ASSUME AllAsleep, ~notified, notifying' = 0
               PROVE  ~m_tickled' /\ (backs = 0 => \E w \in Servers : \A v \in m_timers' : deadline[w] <= m_next[v])
    BY <1>1 DEF SleepCovered, AllAsleep
  <2>1. notifying = 0  BY Types, <1>1
  <2>2. ~m_tickled /\ (backs = 0 => \E w \in Servers : \A v \in m_timers : deadline[w] <= m_next[v])
    BY <2>1 DEF IndInv, SleepCovered
  <2>3. ~IsFirst(t)  BY Types, <1>1, <2>2
  <2>4. PICK u \in m_timers : m_next[u] < m_next[t]  BY Types, <2>3 DEF IsFirst
  <2>5. backs = 0 => \E w \in Servers : \A v \in m_timers' : deadline[w] <= m_next[v]
    <3> SUFFICES ASSUME backs = 0
                 PROVE  \E w \in Servers : \A v \in m_timers' : deadline[w] <= m_next[v]
      OBVIOUS
    <3>1. PICK w \in Servers : \A v \in m_timers : deadline[w] <= m_next[v]  BY <2>2
    <3>2. \A v \in m_timers' : deadline[w] <= m_next[v]  BY Types, <1>2, <2>4, <3>1
    <3>3. QED  BY <3>2
  <2>6. QED  BY <1>1, <2>2, <2>3, <2>5
<1>9. QED  BY <1>4, <1>5, <1>6, <1>7, <1>8 DEF IndInv

LEMMA NotifyInv ==
  ASSUME IndInv, onTimerInsertedAtFront
  PROVE  IndInv'
<1>1. /\ notifying > 0 /\ notifying' = notifying - 1
      /\ notified' = TRUE \/ (AllBusy /\ notified' = notified)
      /\ UNCHANGED <<now, m_timers, m_next, m_ms, m_recurring, m_cb, phase, m_tickled,
                     m_previouseTime, loop, deadline, batchNow, rollover, batch, fired, backs, ops>>
  BY DEF onTimerInsertedAtFront, timerVars, loopVars, bounds
<1>2. notifying' \in Nat /\ notified' \in BOOLEAN
  <2>1. notifying' \in Nat  BY Types, <1>1
  <2>2. notified' \in BOOLEAN  BY Types, <1>1
  <2>3. QED  BY <2>1, <2>2
<1>3. TypeOK'  BY Types, <1>1, <1>2 DEF TypeOK, Time, Phases, Loops
<1>4. KeysDistinct'  BY Types, <1>1, <1>3 DEF KeysDistinct, Distinct
<1>5. TimesBounded' /\ CallbackOnce'  BY <1>1 DEF IndInv, TimesBounded, CallbackOnce
<1>6. BatchBehind'  BY <1>1 DEF IndInv, BatchBehind, Unlocked
<1>7. SleepCovered'
  <2>1. CASE notified' = TRUE  BY <2>1 DEF SleepCovered
  <2>2. CASE AllBusy
    <3>1. \E w \in Servers : loop'[w] # "asleep"  BY <1>1, <2>2, TimerAssumption DEF AllBusy
    <3>2. QED  BY <3>1 DEF SleepCovered, AllAsleep
  <2>3. QED  BY <1>1, <2>1, <2>2
<1>8. QED  BY <1>4, <1>5, <1>6, <1>7 DEF IndInv

LEMMA CancelInv ==
  ASSUME IndInv, NEW t \in Timers, cancel(t)
  PROVE  IndInv'
<1>1. /\ Unlocked /\ m_cb[t]
      /\ m_cb' = [m_cb EXCEPT ![t] = FALSE] /\ m_timers' \subseteq m_timers
      /\ UNCHANGED <<now, m_next, m_ms, m_recurring, phase, m_tickled, m_previouseTime,
                     notifying, notified, loop, deadline, batchNow, rollover, batch, fired, backs, ops>>
  BY DEF cancel, timerVars, loopVars, bounds
<1>2. m_cb' \in [Timers -> BOOLEAN]  BY Types, <1>1
<1>3. m_timers' \in SUBSET {u \in Timers : phase'[u] = "live"}  BY Types, <1>1
<1>4. TypeOK'  BY Types, <1>1, <1>2, <1>3 DEF TypeOK, Time, Phases, Loops
<1>5. KeysDistinct'  BY Types, <1>1, <1>4 DEF KeysDistinct, Distinct
<1>6. TimesBounded'  BY <1>1 DEF IndInv, TimesBounded
<1>7. CallbackOnce'  BY Types, <1>1 DEF IndInv, CallbackOnce
<1>8. SleepCovered' /\ BatchBehind'  BY <1>1, LeavesSet
<1>9. QED  BY <1>5, <1>6, <1>7, <1>8 DEF IndInv

LEMMA RefreshInv ==
  ASSUME IndInv, NEW t \in Timers, refresh(t)
  PROVE  IndInv'
<1>1. /\ phase[t] = "live" /\ Unlocked /\ find(t) # {}
      /\ m_next' = [m_next EXCEPT ![t] = now + m_ms[t]]
      /\ m_timers' = insert(m_timers \ find(t), t)
      /\ ops' = ops + 1
      /\ UNCHANGED <<now, m_ms, m_recurring, m_cb, phase, m_tickled, m_previouseTime,
                     notifying, notified, loop, deadline, batchNow, rollover, batch, fired, backs>>
  BY DEF refresh, loopVars
<1>2. m_next' \in [Timers -> Nat] /\ m_next'[t] = now + m_ms[t]
      /\ \A u \in Timers \ {t} : m_next'[u] = m_next[u]
  BY Types, <1>1
<1>3. /\ m_timers' \subseteq m_timers \cup {t}
      /\ t \in m_timers' => \A u \in m_timers' \ {t} : m_next'[u] # m_next'[t]
  BY <1>1 DEF insert, find
<1>4. TypeOK'
  <2>1. m_timers' \in SUBSET {u \in Timers : phase'[u] = "live"}  BY Types, <1>1, <1>3
  <2>2. ops' \in Nat  BY Types, <1>1
  <2>3. QED  BY Types, <1>1, <1>2, <2>1, <2>2 DEF TypeOK, Time, Phases, Loops
<1>5. KeysDistinct'  BY Types, <1>2, <1>3, <1>4 DEF KeysDistinct, Distinct
<1>6. TimesBounded'  BY Types, <1>1, <1>2 DEF IndInv, TimesBounded
<1>7. CallbackOnce'  BY <1>1 DEF IndInv, CallbackOnce
<1>8. BatchBehind'  BY <1>1, NoBatch
<1>9. SleepCovered'
  <2>1. PICK u \in m_timers : m_next[u] = m_next[t]  BY <1>1 DEF find
  <2>2. backs = 0 => m_next[t] <= m_next'[t]  BY <1>1, <1>2 DEF IndInv, TimesBounded
  <2>3. ASSUME NEW w \in Servers, backs = 0, \A v \in m_timers : deadline[w] <= m_next[v]
        PROVE  \A v \in m_timers' : deadline[w] <= m_next'[v]
    BY Types, <1>2, <1>3, <2>1, <2>2, <2>3
  <2>4. SUFFICES ASSUME AllAsleep, ~notified, notifying = 0
                 PROVE  ~m_tickled /\ (backs = 0 => \E w \in Servers : \A v \in m_timers' : deadline[w] <= m_next'[v])
    BY <1>1 DEF SleepCovered, AllAsleep
  <2>5. ~m_tickled /\ (backs = 0 => \E w \in Servers : \A v \in m_timers : deadline[w] <= m_next[v])
    BY <2>4 DEF IndInv, SleepCovered
  <2>6. QED  BY <2>3, <2>5
<1>10. QED  BY <1>5, <1>6, <1>7, <1>8, <1>9 DEF IndInv

LEMMA ResetErasesInv ==
  ASSUME IndInv, NEW t \in Timers, ResetErases(t)
  PROVE  IndInv'
<1>2. /\ phase[t] = "live" /\ Unlocked
      /\ m_timers' = m_timers \ find(t)
      /\ phase' = [phase EXCEPT ![t] = "erased"]
      /\ ops' = ops + 1
      /\ UNCHANGED <<now, m_next, m_ms, m_recurring, m_cb, m_tickled, m_previouseTime, notifying,
                     notified, loop, deadline, batchNow, rollover, batch, fired, backs>>
  BY DEF ResetErases, timerVars, loopVars
<1>3. m_timers' \subseteq m_timers /\ t \notin m_timers'  BY <1>2 DEF find
<1>4. TypeOK'
  <2>1. phase' \in [Timers -> Phases] /\ m_timers' \in SUBSET {u \in Timers : phase'[u] = "live"}
    BY Types, <1>2, <1>3 DEF Phases
  <2>3. ops' \in Nat  BY Types, <1>2
  <2>4. QED  BY Types, <1>2, <2>1, <2>3 DEF TypeOK, Time, Phases, Loops
<1>5. KeysDistinct'  BY Types, <1>2, <1>3, <1>4 DEF KeysDistinct, Distinct
<1>6. TimesBounded'  BY Types, <1>2 DEF IndInv, TimesBounded
<1>7. CallbackOnce'  BY Types, <1>2 DEF IndInv, CallbackOnce
<1>8. SleepCovered' /\ BatchBehind'  BY <1>2, <1>3, LeavesSet
<1>9. QED  BY <1>5, <1>6, <1>7, <1>8 DEF IndInv

LEMMA ResetComputesInv ==
  ASSUME IndInv, NEW t \in Timers, NEW ms \in Periods, NEW from_now \in BOOLEAN, ResetComputes(t, ms, from_now)
  PROVE  IndInv'
<1> DEFINE start == IF from_now THEN now ELSE m_next[t] - m_ms[t]
<1>1. /\ phase[t] = "erased" /\ t \notin m_timers
      /\ m_ms' = [m_ms EXCEPT ![t] = ms] /\ m_next' = [m_next EXCEPT ![t] = start + ms]
      /\ phase' = [phase EXCEPT ![t] = "moved"]
      /\ UNCHANGED <<now, m_timers, m_recurring, m_cb, m_tickled, m_previouseTime, notifying, notified,
                     loop, deadline, batchNow, rollover, batch, fired, backs, ops>>
  BY Types DEF ResetComputes, loopVars, bounds
<1>2. ms \in Nat  BY TimerAssumption
<1>3. start \in Nat /\ (backs = 0 => start <= now)  BY Types, <1>1 DEF IndInv, TimesBounded
<1> HIDE DEF start
<1>4. TypeOK'
  <2>1. m_next' \in [Timers -> Nat] /\ m_ms' \in [Timers -> Nat] /\ phase' \in [Timers -> Phases]
    BY Types, <1>1, <1>2, <1>3 DEF Phases
  <2>3. m_timers' \in SUBSET {u \in Timers : phase'[u] = "live"}  BY Types, <1>1
  <2>4. QED  BY Types, <1>1, <2>1, <2>3 DEF TypeOK, Time, Phases, Loops
<1>5. KeysDistinct'  BY Types, <1>1, <1>4 DEF KeysDistinct, Distinct
<1>6. TimesBounded'
  <2>1. m_next'[t] = start + ms /\ m_ms'[t] = ms /\ phase'[t] = "moved"  BY Types, <1>1
  <2>2. \A u \in Timers \ {t} : m_next'[u] = m_next[u] /\ m_ms'[u] = m_ms[u] /\ phase'[u] = phase[u]
    BY Types, <1>1
  <2>3. QED  BY Types, <1>1, <1>2, <1>3, <2>1, <2>2 DEF IndInv, TimesBounded
<1>7. CallbackOnce'  BY Types, <1>1 DEF IndInv, CallbackOnce
<1>8. \A u \in m_timers : m_next'[u] = m_next[u] /\ m_ms'[u] = m_ms[u]  BY Types, <1>1
<1>9. SleepCovered'  BY <1>1, <1>8 DEF IndInv, SleepCovered, AllAsleep
<1>10. BatchBehind'  BY <1>1, <1>8 DEF IndInv, BatchBehind, Unlocked
<1>11. QED  BY <1>5, <1>6, <1>7, <1>9, <1>10 DEF IndInv

-----------------------------------------------------------------------------
(* The serving threads.                                                     *)

\* The set is left alone and stays a set.
LEMMA SetAlone ==
  ASSUME IndInv, TypeOK', UNCHANGED <<m_timers, m_next>>
  PROVE  KeysDistinct'
  BY Types DEF KeysDistinct, Distinct

LEMMA StoppingInv ==
  ASSUME IndInv, stopping
  PROVE  IndInv'
<1>1. /\ m_tickled' = FALSE
      /\ UNCHANGED <<now, m_timers, m_next, m_ms, m_recurring, m_cb, phase, m_previouseTime, notifying,
                     notified, loop, deadline, batchNow, rollover, batch, fired, backs, ops>>
  BY DEF stopping, timerVars, loopVars, bounds
<1>2. m_tickled' \in BOOLEAN  BY <1>1
<1>3. TypeOK'  BY Types, <1>1, <1>2 DEF TypeOK, Time, Phases, Loops
<1>4. KeysDistinct'  BY <1>1, <1>3, SetAlone
<1>5. TimesBounded' /\ CallbackOnce'  BY <1>1 DEF IndInv, TimesBounded, CallbackOnce
<1>6. SleepCovered'  BY <1>1 DEF IndInv, SleepCovered, AllAsleep
<1>7. BatchBehind'  BY <1>1 DEF IndInv, BatchBehind, Unlocked
<1>8. QED  BY <1>4, <1>5, <1>6, <1>7 DEF IndInv

LEMMA GetNextTimerInv ==
  ASSUME IndInv, NEW w \in Servers, getNextTimer(w)
  PROVE  IndInv'
<1> DEFINE first == CHOOSE t \in m_timers : IsFirst(t)
<1> DEFINE until == IF m_timers = {} THEN Never ELSE m_next[first]
<1>1. /\ loop[w] \in {"busy", "asleep"} /\ Unlocked /\ m_tickled' = FALSE
      /\ loop' = [loop EXCEPT ![w] = "asleep"]
      /\ deadline' = [deadline EXCEPT ![w] = until]
      /\ UNCHANGED <<now, m_timers, m_next, m_ms, m_recurring, m_cb, phase, m_previouseTime,
                     notifying, notified, batchNow, rollover, batch, fired, backs, ops>>
  BY DEF getNextTimer, timerVars, bounds
<1>2. m_timers # {} => first \in m_timers /\ IsFirst(first)  BY FirstExists
<1> HIDE DEF first
<1>3. \A t \in m_timers : until <= m_next[t]  BY <1>2 DEF IsFirst
<1>4. until \in Nat  BY Types, <1>2, TimerAssumption
<1> HIDE DEF until
<1>5. /\ m_tickled' \in BOOLEAN /\ loop' \in [Servers -> Loops]
      /\ deadline' \in [Servers -> Nat] /\ deadline'[w] = until
  BY Types, <1>1, <1>4 DEF Loops
<1>6. TypeOK'  BY Types, <1>1, <1>5 DEF TypeOK, Time, Phases, Loops
<1>7. KeysDistinct'  BY <1>1, <1>6, SetAlone
<1>8. TimesBounded' /\ CallbackOnce'  BY <1>1 DEF IndInv, TimesBounded, CallbackOnce
<1>9. SleepCovered'  BY <1>1, <1>3, <1>5 DEF SleepCovered
<1>10. batch' = {} /\ \A v \in Servers : loop'[v] # "collect"
  BY Types, <1>1 DEF IndInv, BatchBehind, Unlocked
<1>11. BatchBehind'  BY <1>10 DEF BatchBehind
<1>12. QED  BY <1>7, <1>8, <1>9, <1>11 DEF IndInv

\* A thread that is awake after the step: nothing is left to show about sleep.
LEMMA SomeoneAwake ==
  ASSUME NEW w \in Servers, loop'[w] # "asleep"
  PROVE  SleepCovered'
  BY DEF SleepCovered, AllAsleep

LEMMA WakesUpInv ==
  ASSUME IndInv, NEW w \in Servers, WakesUp(w)
  PROVE  IndInv'
<1>1. /\ loop[w] = "asleep" /\ notified' \in {notified, FALSE} /\ loop' = [loop EXCEPT ![w] = "read"]
      /\ batchNow' = [batchNow EXCEPT ![w] = now] /\ deadline' = [deadline EXCEPT ![w] = 0]
      /\ UNCHANGED <<now, m_timers, m_next, m_ms, m_recurring, m_cb, phase, m_tickled,
                     m_previouseTime, notifying, rollover, batch, fired, backs, ops>>
  BY DEF WakesUp, timerVars, bounds
<1>2. notified' \in BOOLEAN  BY Types, <1>1
<1>3. /\ loop' \in [Servers -> Loops] /\ batchNow' \in [Servers -> Nat] /\ deadline' \in [Servers -> Nat]
      /\ loop'[w] = "read" /\ batchNow'[w] = now
      /\ \A v \in Servers \ {w} : loop'[v] = loop[v] /\ batchNow'[v] = batchNow[v]
  BY Types, <1>1 DEF Loops
<1>4. TypeOK'  BY Types, <1>1, <1>2, <1>3 DEF TypeOK, Time, Phases, Loops
<1>5. KeysDistinct'  BY <1>1, <1>4, SetAlone
<1>6. TimesBounded'  BY Types, <1>1, <1>3 DEF IndInv, TimesBounded
<1>7. CallbackOnce'  BY <1>1 DEF IndInv, CallbackOnce
<1>8. SleepCovered'  BY <1>3, SomeoneAwake
<1>9. \A v \in Servers : loop'[v] = "collect" <=> loop[v] = "collect"  BY <1>1, <1>3
<1>10. BatchBehind'  BY <1>1, <1>3, <1>9 DEF IndInv, BatchBehind, Unlocked
<1>11. QED  BY <1>5, <1>6, <1>7, <1>8, <1>10 DEF IndInv

LEMMA RolloverInv ==
  ASSUME IndInv, NEW w \in Servers, detectClockRollover(w)
  PROVE  IndInv'
<1>1. /\ loop[w] = "read" /\ Unlocked
      /\ rollover' = (now + Hour < m_previouseTime) /\ m_previouseTime' = now
      /\ loop' = [loop EXCEPT ![w] = "collect"]
      /\ UNCHANGED <<now, m_timers, m_next, m_ms, m_recurring, m_cb, phase, m_tickled,
                     notifying, notified, deadline, batchNow, batch, fired, backs, ops>>
  BY DEF detectClockRollover, timerVars, bounds
<1>2. rollover' \in BOOLEAN  BY <1>1
<1>3. /\ loop' \in [Servers -> Loops] /\ loop'[w] = "collect"
      /\ \A v \in Servers : loop'[v] = "collect" => v = w
  BY Types, <1>1 DEF Loops, Unlocked
<1>4. TypeOK'  BY Types, <1>1, <1>2, <1>3 DEF TypeOK, Time, Phases, Loops
<1>5. KeysDistinct'  BY <1>1, <1>4, SetAlone
<1>6. TimesBounded' /\ CallbackOnce'  BY <1>1 DEF IndInv, TimesBounded, CallbackOnce
<1>7. batch' = {}  BY <1>1 DEF IndInv, BatchBehind
<1>8. SleepCovered'  BY <1>3, SomeoneAwake
<1>9. BatchBehind'  BY <1>3, <1>7 DEF BatchBehind
<1>10. QED  BY <1>5, <1>6, <1>8, <1>9 DEF IndInv

LEMMA CollectInv ==
  ASSUME IndInv, NEW w \in Servers, NEW t \in Timers, Collect(w, t)
  PROVE  IndInv'
<1>1. /\ loop[w] = "collect" /\ t \in m_timers /\ phase[t] = "live"
      /\ fired' = [fired EXCEPT ![t] = IF m_cb[t] /\ ~m_recurring[t] THEN Bump(@) ELSE @]
      /\ batch' = batch \cup {t}
      /\ UNCHANGED <<now, m_ms, m_recurring, phase, m_tickled, m_previouseTime, notifying,
                     notified, loop, deadline, batchNow, rollover, backs, ops>>
  BY Types DEF Collect, Expired, bounds
<1>2. \/ /\ m_recurring[t] /\ m_next' = [m_next EXCEPT ![t] = batchNow[w] + m_ms[t]]
         /\ m_timers' = insert(m_timers \ {t}, t) /\ m_cb' = m_cb
      \/ /\ ~m_recurring[t] /\ m_timers' = m_timers \ {t} /\ m_cb' = [m_cb EXCEPT ![t] = FALSE]
         /\ m_next' = m_next
  BY DEF Collect
<1>3. /\ m_next' \in [Timers -> Nat] /\ \A u \in Timers \ {t} : m_next'[u] = m_next[u]
      /\ m_next'[t] = m_next[t] \/ m_next'[t] = batchNow[w] + m_ms[t]
  BY Types, <1>2
<1>4. /\ m_timers' \subseteq m_timers
      /\ t \in m_timers' => /\ m_next'[t] = batchNow[w] + m_ms[t]
                            /\ \A u \in m_timers' \ {t} : m_next'[u] # m_next'[t]
  BY Types, <1>1, <1>2 DEF insert
<1>5. m_cb' \in [Timers -> BOOLEAN] /\ fired' \in [Timers -> 0..2]
  <2>1. m_cb' \in [Timers -> BOOLEAN]  BY Types, <1>2
  <2>2. \A n \in 0..2 : Bump(n) \in 0..2  BY DEF Bump
  <2>3. QED  BY Types, <1>1, <2>1, <2>2
<1>6. TypeOK'
  <2>1. m_timers' \in SUBSET {u \in Timers : phase'[u] = "live"} /\ batch' \subseteq Timers
    BY Types, <1>1, <1>4
  <2>2. QED  BY Types, <1>1, <1>3, <1>5, <2>1 DEF TypeOK, Time, Phases, Loops
<1>7. KeysDistinct'  BY Types, <1>3, <1>4, <1>6 DEF KeysDistinct, Distinct
<1>8. TimesBounded'  BY Types, <1>1, <1>3 DEF IndInv, TimesBounded
<1>9. CallbackOnce'
  <2>1. \A u \in Timers \ {t} : fired'[u] = fired[u] /\ m_cb'[u] = m_cb[u]  BY Types, <1>1, <1>2
  <2>2. ~m_recurring[t] => ~m_cb'[t] /\ fired'[t] <= 1
    BY Types, <1>1, <1>2 DEF IndInv, CallbackOnce, Bump
  <2>3. QED  BY Types, <1>1, <2>1, <2>2 DEF IndInv, CallbackOnce
<1>10. SleepCovered'  BY <1>1, SomeoneAwake
<1>11. BatchBehind'
  <2>1. t \in m_timers' => m_recurring[t] /\ (m_ms[t] = 0 \/ m_next'[t] > batchNow[w])
    BY Types, <1>1, <1>2, <1>4
  <2>2. \A v \in Servers : loop[v] = "collect" => v = w  BY <1>1 DEF IndInv, BatchBehind
  <2>3. ~Unlocked'  BY <1>1 DEF Unlocked
  <2>4. \A u \in batch' \cap m_timers' :
          m_recurring[u] /\ (rollover \/ m_ms[u] = 0 \/ m_next'[u] > batchNow[w])
    <3> SUFFICES ASSUME NEW u \in batch' \cap m_timers'
                 PROVE  m_recurring[u] /\ (rollover \/ m_ms[u] = 0 \/ m_next'[u] > batchNow[w])
      OBVIOUS
    <3>1. CASE u = t  BY <2>1, <3>1
    <3>2. CASE u # t
      <4>1. u \in batch \cap m_timers /\ m_next'[u] = m_next[u]  BY Types, <1>1, <1>3, <1>4, <3>2
      <4>2. QED  BY <1>1, <4>1 DEF IndInv, BatchBehind
    <3>3. QED  BY <3>1, <3>2
  <2>5. QED  BY <1>1, <2>2, <2>3, <2>4 DEF BatchBehind
<1>12. QED  BY <1>7, <1>8, <1>9, <1>10, <1>11 DEF IndInv

LEMMA CollectEndsInv ==
  ASSUME IndInv, NEW w \in Servers, CollectEnds(w)
  PROVE  IndInv'
<1>1. /\ loop[w] = "collect" /\ loop' = [loop EXCEPT ![w] = "post"]
      /\ batchNow' = [batchNow EXCEPT ![w] = 0] /\ rollover' = FALSE /\ batch' = {}
      /\ UNCHANGED <<now, m_timers, m_next, m_ms, m_recurring, m_cb, phase, m_tickled,
                     m_previouseTime, notifying, notified, deadline, fired, backs, ops>>
  BY DEF CollectEnds, timerVars, bounds
<1>2. rollover' \in BOOLEAN  BY <1>1
<1>3. /\ loop' \in [Servers -> Loops] /\ batchNow' \in [Servers -> Nat]
      /\ loop'[w] = "post" /\ batchNow'[w] = 0
      /\ \A v \in Servers \ {w} : loop'[v] = loop[v] /\ batchNow'[v] = batchNow[v]
  BY Types, <1>1 DEF Loops
<1>4. TypeOK'  BY Types, <1>1, <1>2, <1>3 DEF TypeOK, Time, Phases, Loops
<1>5. KeysDistinct'  BY <1>1, <1>4, SetAlone
<1>6. TimesBounded'  BY Types, <1>1, <1>3 DEF IndInv, TimesBounded
<1>7. CallbackOnce'  BY <1>1 DEF IndInv, CallbackOnce
<1>8. SleepCovered'  BY <1>3, SomeoneAwake
<1>9. BatchBehind'  BY <1>1, <1>3 DEF IndInv, BatchBehind
<1>10. QED  BY <1>5, <1>6, <1>7, <1>8, <1>9 DEF IndInv

LEMMA YieldsInv ==
  ASSUME IndInv, NEW w \in Servers, Yields(w)
  PROVE  IndInv'
<1>1. /\ loop[w] = "post" /\ notified' \in {notified, FALSE} /\ loop' = [loop EXCEPT ![w] = "busy"]
      /\ UNCHANGED <<now, m_timers, m_next, m_ms, m_recurring, m_cb, phase, m_tickled, m_previouseTime,
                     notifying, deadline, batchNow, rollover, batch, fired, backs, ops>>
  BY DEF Yields, timerVars, bounds
<1>2. notified' \in BOOLEAN  BY Types, <1>1
<1>3. /\ loop' \in [Servers -> Loops] /\ loop'[w] = "busy"
      /\ \A v \in Servers : loop'[v] = "collect" <=> loop[v] = "collect"
  BY Types, <1>1 DEF Loops
<1>4. TypeOK'  BY Types, <1>1, <1>2, <1>3 DEF TypeOK, Time, Phases, Loops
<1>5. KeysDistinct'  BY <1>1, <1>4, SetAlone
<1>6. TimesBounded' /\ CallbackOnce'  BY <1>1 DEF IndInv, TimesBounded, CallbackOnce
<1>7. SleepCovered'  BY <1>3, SomeoneAwake
<1>8. BatchBehind'  BY <1>1, <1>3 DEF IndInv, BatchBehind, Unlocked
<1>9. QED  BY <1>5, <1>6, <1>7, <1>8 DEF IndInv

-----------------------------------------------------------------------------
(* The clock.                                                               *)

LEMMA TickInv ==
  ASSUME IndInv, Tick
  PROVE  IndInv'
<1>1. /\ now' = now + 1
      /\ UNCHANGED <<m_timers, m_next, m_ms, m_recurring, m_cb, phase, m_tickled, m_previouseTime,
                     notifying, notified, loop, deadline, batchNow, rollover, batch, fired, backs, ops>>
  BY DEF Tick, timerVars, loopVars, bounds
<1>2. now' \in Nat  BY Types, <1>1
<1>3. TypeOK'  BY Types, <1>1, <1>2 DEF TypeOK, Time, Phases, Loops
<1>4. KeysDistinct'  BY Types, <1>1, <1>3 DEF KeysDistinct, Distinct
<1>5. TimesBounded'  BY Types, <1>1 DEF IndInv, TimesBounded
<1>6. CallbackOnce'  BY <1>1 DEF IndInv, CallbackOnce
<1>7. SleepCovered'  BY <1>1 DEF IndInv, SleepCovered, AllAsleep
<1>8. BatchBehind'  BY <1>1 DEF IndInv, BatchBehind, Unlocked
<1>9. QED  BY <1>4, <1>5, <1>6, <1>7, <1>8 DEF IndInv

LEMMA ClockSetBackInv ==
  ASSUME IndInv, ClockSetBack
  PROVE  IndInv'
<1>1. /\ backs' = backs + 1
      /\ UNCHANGED <<m_timers, m_next, m_ms, m_recurring, m_cb, phase, m_tickled, m_previouseTime,
                     notifying, notified, loop, batchNow, rollover, batch, fired, ops>>
  BY DEF ClockSetBack, timerVars
<1>2. now' \in Nat /\ deadline' \in [Servers -> Nat]
  <2>1. PICK back \in 1..now :
          /\ now' = now - back
          /\ deadline' = [w \in Servers |->
             IF deadline[w] = Never THEN Never ELSE IF deadline[w] > back THEN deadline[w] - back ELSE 0]
    BY DEF ClockSetBack
  <2>2. back \in Nat /\ back <= now  BY Types
  <2>3. QED  BY Types, TimerAssumption, <2>1, <2>2
<1>3. backs' \in Nat /\ backs' # 0  BY Types, <1>1
<1>4. TypeOK'  BY Types, <1>1, <1>2, <1>3 DEF TypeOK, Time, Phases, Loops
<1>5. KeysDistinct'  BY Types, <1>1, <1>4 DEF KeysDistinct, Distinct
<1>6. TimesBounded'  BY <1>1, <1>3 DEF IndInv, TimesBounded
<1>7. CallbackOnce'  BY <1>1 DEF IndInv, CallbackOnce
<1>8. SleepCovered'  BY <1>1, <1>3 DEF IndInv, SleepCovered, AllAsleep
<1>9. BatchBehind'  BY <1>1 DEF IndInv, BatchBehind, Unlocked
<1>10. QED  BY <1>5, <1>6, <1>7, <1>8, <1>9 DEF IndInv

LEMMA StutterInv ==
  ASSUME IndInv, UNCHANGED vars
  PROVE  IndInv'
<1>1. UNCHANGED <<now, m_timers, m_next, m_ms, m_recurring, m_cb, phase, m_tickled, m_previouseTime,
                  notifying, notified, loop, deadline, batchNow, rollover, batch, fired, backs, ops>>
  BY DEF vars, timerVars, loopVars, bounds
<1>2. TypeOK'  BY Types, <1>1 DEF TypeOK, Time, Phases, Loops
<1>3. KeysDistinct'  BY Types, <1>1, <1>2 DEF KeysDistinct, Distinct
<1>4. TimesBounded' /\ CallbackOnce' /\ SleepCovered' /\ BatchBehind'
  BY <1>1 DEF IndInv, TimesBounded, CallbackOnce, SleepCovered, BatchBehind, AllAsleep, Unlocked
<1>5. QED  BY <1>3, <1>4 DEF IndInv

-----------------------------------------------------------------------------
LEMMA NextInv ==
  ASSUME IndInv, [Next]_vars
  PROVE  IndInv'
<1>1. CASE Clients
  <2>1. PICK t \in Timers :
          \/ \E ms \in Periods, recurring \in BOOLEAN : NewTimer(t, ms, recurring)
          \/ cancel(t) \/ refresh(t) \/ ResetErases(t)
    BY <1>1 DEF Clients
  <2>2. QED  BY <2>1, NewTimerInv, ResetErasesInv, CancelInv, RefreshInv
<1>2. CASE ClientsProceed
  BY <1>2, NotifyInv, AddTimerInv, ResetComputesInv DEF ClientsProceed
<1>3. CASE ServeTimers
  <2>1. CASE stopping  BY <2>1, StoppingInv
  <2>2. ASSUME NEW w \in Servers, Serve(w) PROVE IndInv'
    BY <2>2, GetNextTimerInv, WakesUpInv, RolloverInv, CollectInv, CollectEndsInv, YieldsInv DEF Serve
  <2>3. QED  BY <1>3, <2>1, <2>2 DEF ServeTimers
<1>4. QED  BY <1>1, <1>2, <1>3, TickInv, ClockSetBackInv, StutterInv DEF Next

\* TimerManager keeps its inductive invariant, for any number of timers and serving
\* threads, any periods, 0 included, and any behaviour of the clock.
THEOREM SpecIndInv == Spec => []IndInv
<1>1. IndInv /\ [Next]_vars => IndInv'  BY NextInv
<1>2. QED  BY InitInv, <1>1, PTL DEF Spec

\* No operation of timer.cpp moves a timer's m_next while m_timers contains it, or
\* makes two elements of the set compare equal.
THEOREM SpecKeysDistinct == Spec => []KeysDistinct
<1>1. IndInv => KeysDistinct  BY DEF IndInv
<1>2. QED  BY SpecIndInv, <1>1, PTL

\* The callback of a one-shot timer is collected by listExpiredCb at most once,
\* in any interleaving with cancel, refresh and reset.
THEOREM SpecOneShotAtMostOnce == Spec => []OneShotAtMostOnce
<1>1. IndInv => OneShotAtMostOnce  BY DEF IndInv, CallbackOnce, OneShotAtMostOnce
<1>2. QED  BY SpecIndInv, <1>1, PTL

\* The threads in epoll_wait never all sleep past a timer they are not going to be told
\* about, although m_tickled suppresses notifications and is cleared by every one of them,
\* as long as the clock does not go back.
THEOREM SpecNeverOversleeps == Spec => []NeverOversleeps
<1>1. IndInv => NeverOversleeps  BY DEF IndInv, SleepCovered, NeverOversleeps
<1>2. QED  BY SpecIndInv, <1>1, PTL

\* listExpiredCb comes to a timer for the second time in a batch only if it is recurring,
\* and has a period of 0 or the clock was set back by an hour.
THEOREM SpecOncePerBatch == Spec => []OncePerBatch
<1>1. IndInv => OncePerBatch
  <2> SUFFICES ASSUME IndInv, NEW w \in Servers, NEW t \in Timers, loop[w] = "collect", t \in batch, Expired(w, t)
               PROVE  m_recurring[t] /\ (rollover \/ m_ms[t] = 0)
    BY DEF OncePerBatch
  <2>1. t \in m_timers /\ (rollover \/ m_next[t] <= batchNow[w])  BY DEF Expired
  <2>2. m_recurring[t] /\ (rollover \/ m_ms[t] = 0 \/ m_next[t] > batchNow[w])  BY <2>1 DEF IndInv, BatchBehind
  <2>3. m_next[t] \in Nat /\ batchNow[w] \in Nat  BY Types
  <2>4. QED  BY <2>1, <2>2, <2>3
<1>2. QED  BY SpecIndInv, <1>1, PTL

-----------------------------------------------------------------------------
(* What a step may never do.                                                *)

\* The action of LostOnlyToTie, for one timer: t is lost by the step, and who took its place.
Lost(t) == phase'[t] = "live" /\ m_cb'[t] /\ t \notin m_timers' /\ (t \in m_timers \/ phase[t] # "live")
Tied(t) == \E u \in Timers \ {t} : phase[u] # "none" /\ (m_next[u] = m_next[t] \/ m_next'[u] = m_next'[t])

LEMMA LosesOnlyToTie ==
  ASSUME IndInv, Next, NEW t \in Timers, Lost(t)
  PROVE  Tied(t)
<1>1. CASE m_timers' = m_timers /\ phase' = phase
  BY <1>1, Types DEF Lost
<1>2. ASSUME NEW s \in Timers, NEW ms \in Periods, NEW recurring \in BOOLEAN, NewTimer(s, ms, recurring)
      PROVE  FALSE
  BY <1>2, Types DEF Lost, NewTimer
<1>3. ASSUME NEW s \in Timers, ResetErases(s)
      PROVE  Tied(t)
  <2>1. /\ phase[s] = "live" /\ m_timers' = m_timers \ find(s) /\ phase' = [phase EXCEPT ![s] = "erased"]
    BY <1>3 DEF ResetErases
  <2>2. t # s /\ t \in m_timers  BY <2>1, Types DEF Lost
  <2>3. m_next[s] = m_next[t]  BY <2>1, <2>2 DEF Lost, find
  <2>4. QED  BY <2>1, <2>2, <2>3 DEF Tied
<1>4. ASSUME NEW s \in Timers, cancel(s)
      PROVE  Tied(t)
  <2>1. /\ Known(s) /\ m_timers' = m_timers \ find(s) /\ phase' = phase
        /\ m_cb' = [m_cb EXCEPT ![s] = FALSE]
    BY <1>4 DEF cancel
  <2>2. t # s /\ t \in m_timers  BY <2>1, Types DEF Lost
  <2>3. m_next[s] = m_next[t]  BY <2>1, <2>2 DEF Lost, find
  <2>4. QED  BY <2>1, <2>2, <2>3 DEF Tied, Known
<1>5. ASSUME NEW s \in Timers, refresh(s)
      PROVE  Tied(t)
  <2>1. /\ phase[s] = "live" /\ m_timers' = insert(m_timers \ find(s), s) /\ phase' = phase
    BY <1>5 DEF refresh
  <2>2. t \in m_timers  BY <2>1 DEF Lost
  <2>3. CASE t # s
    <3>1. m_next[s] = m_next[t]  BY <2>1, <2>2 DEF Lost, find, insert
    <3>2. QED  BY <2>1, <2>3, <3>1 DEF Tied
  <2>4. CASE t = s
    <3>1. PICK u \in m_timers \ find(s) : m_next'[u] = m_next'[s]  BY <2>1, <2>4 DEF Lost, insert
    <3>2. u # t  BY <2>4, <3>1 DEF find
    <3>3. u \in Timers /\ phase[u] = "live"  BY <3>1, Types
    <3>4. QED  BY <2>4, <3>1, <3>2, <3>3 DEF Tied
  <2>5. QED  BY <2>3, <2>4
<1>6. ASSUME NEW s \in Timers, addTimer(s)
      PROVE  Tied(t)
  <2>1. /\ phase[s] \in {"made", "moved"} /\ phase' = [phase EXCEPT ![s] = "live"]
        /\ m_timers' = (IF find(s) = {} THEN m_timers \cup {s} ELSE m_timers)
    BY <1>6 DEF addTimer
  <2>2. t = s /\ find(s) # {}  BY <2>1, Types DEF Lost
  <2>3. PICK u \in m_timers : m_next[u] = m_next[s]  BY <2>2 DEF find
  <2>4. u \in Timers /\ phase[u] = "live"  BY Types
  <2>5. QED  BY <2>1, <2>2, <2>3, <2>4 DEF Tied
<1>7. ASSUME NEW s \in Timers, NEW ms \in Periods, NEW from_now \in BOOLEAN, ResetComputes(s, ms, from_now)
      PROVE  FALSE
  BY <1>7, Types DEF Lost, ResetComputes
<1>8. ASSUME NEW w \in Servers, NEW s \in Timers, Collect(w, s)
      PROVE  Tied(t)
  <2>1. s \in m_timers /\ phase' = phase  BY <1>8 DEF Collect, Expired
  <2>2. t \in m_timers  BY <2>1 DEF Lost
  <2>3. \/ m_recurring[s] /\ m_timers' = insert(m_timers \ {s}, s)
        \/ m_timers' = m_timers \ {s} /\ m_cb' = [m_cb EXCEPT ![s] = FALSE]
    BY <1>8 DEF Collect
  <2>4. t = s  BY <2>2, <2>3 DEF Lost, insert
  <2>5. m_timers' = insert(m_timers \ {s}, s)  BY <2>3, <2>4, Types DEF Lost
  <2>6. PICK u \in m_timers \ {s} : m_next'[u] = m_next'[s]  BY <2>4, <2>5 DEF Lost, insert
  <2>7. u \in Timers /\ phase[u] = "live"  BY Types
  <2>8. QED  BY <2>4, <2>6, <2>7 DEF Tied
<1>9. CASE Clients  BY <1>9, <1>2, <1>3, <1>4, <1>5 DEF Clients
<1>10. CASE ClientsProceed
  <2>1. CASE onTimerInsertedAtFront  BY <1>1, <2>1 DEF onTimerInsertedAtFront
  <2>2. QED  BY <1>10, <1>6, <1>7, <2>1 DEF ClientsProceed
<1>11. CASE ServeTimers
  <2>1. CASE stopping  BY <1>1, <2>1 DEF stopping
  <2>2. ASSUME NEW w \in Servers, Serve(w) PROVE Tied(t)
    <3>1. CASE getNextTimer(w) \/ WakesUp(w) \/ detectClockRollover(w) \/ CollectEnds(w) \/ Yields(w)
      BY <1>1, <3>1 DEF getNextTimer, WakesUp, detectClockRollover, CollectEnds, Yields
    <3>2. QED  BY <2>2, <1>8, <3>1 DEF Serve
  <2>3. QED  BY <1>11, <2>1, <2>2 DEF ServeTimers
<1>12. CASE Tick \/ ClockSetBack  BY <1>1, <1>12 DEF Tick, ClockSetBack
<1>13. QED  BY <1>9, <1>10, <1>11, <1>12 DEF Next

\* insert, refresh, reset, cancel and listExpiredCb lose a timer that is neither
\* cancelled nor finished only to another timer with the same m_next.
THEOREM SpecLostOnlyToTie == Spec => LostOnlyToTie
<1>1. IndInv /\ [Next]_vars =>
        [\A t \in Timers :
           phase'[t] = "live" /\ m_cb'[t] /\ t \notin m_timers' /\ (t \in m_timers \/ phase[t] # "live")
             => \E u \in Timers \ {t} : phase[u] # "none" /\ (m_next[u] = m_next[t] \/ m_next'[u] = m_next'[t])]_vars
  BY LosesOnlyToTie DEF Lost, Tied
<1>2. QED  BY SpecIndInv, <1>1, PTL DEF Spec, LostOnlyToTie
=============================================================================
