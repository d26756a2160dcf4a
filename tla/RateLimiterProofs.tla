---- MODULE RateLimiterProofs ----
(***************************************************************************)
(* Theorems about RateLimiter, for any number of requests, any limit,      *)
(* window, cooldown and delay.                                             *)
(***************************************************************************)
EXTENDS RateLimiter, FiniteSetTheorems, TLAPS

----
\* The inductive invariant.

\* The time stamp of a pipeline under way is on record, and no request waits
\* longer than MaxDelay.
WaitInv ==
    \A r \in Requests :
        /\ pc[r] = "exec" => stamp[r] \in sent
        /\ pc[r] \in Waiting => clock <= stamp[r] + MaxDelay

\* The request that pings holds the singleton and made the last attempt.
PingInv == \A r \in Requests : pc[r] = "ping" => pool /\ stamp[r] = last

\* Only one request waits for the ping of a new connection; others may wait for a
\* command on it.
OnePing == \A r, q \in Requests : pc[r] = "ping" /\ pc[q] = "ping" => r = q

\* Without the singleton, whoever waits began to before the last attempt failed.
HangInv == ~pool => \A r \in Requests : pc[r] \in Waiting => stamp[r] <= last + MaxDelay

\* Without the singleton, Redis has been out of reach since the last attempt.
OutageInv ==
    /\ ~up => outage = clock
    /\ ~pool => last <= outage

\* An admitted stamp outlives neither the key nor, within a window of the clock,
\* the sorted set: no pipeline carries a stamp later than the clock.
KeptInv ==
    \A s \in admitted :
        /\ s + Window < expires
        /\ s + Window > clock => s \in entries

IndInv ==
    /\ TypeOK
    /\ WaitInv
    /\ PingInv
    /\ OnePing
    /\ HangInv
    /\ OutageInv
    /\ KeptInv
    /\ NoFalseRefusal
    /\ WindowLimit

----
\* Finite sets of time stamps.

LEMMA StampsFinite ==
    ASSUME TypeOK
    PROVE  IsFiniteSet(sent) /\ IsFiniteSet(entries) /\ IsFiniteSet(admitted)
<1>1. IsFiniteSet(0 .. clock)
  BY FS_Interval DEF TypeOK
<1>2. IsFiniteSet(sent)
  BY <1>1, FS_Subset DEF TypeOK
<1> QED BY <1>2, FS_Subset DEF TypeOK

LEMMA RemainingFinite ==
    ASSUME TypeOK, NEW r \in Requests
    PROVE  /\ Remaining(r) \subseteq entries
           /\ IsFiniteSet(Remaining(r))
           /\ Cardinality(Remaining(r)) \in Nat
<1>1. Remaining(r) \subseteq entries
  BY DEF Remaining
<1> QED BY <1>1, StampsFinite, FS_Subset, FS_CardinalityType

\* A pipeline takes effect: its own stamp is a member afterwards, and so is every
\* admitted one within a window of the clock.
LEMMA RecordKeeps ==
    ASSUME TypeOK, WaitInv, KeptInv, NEW r \in Requests, pc[r] = "exec", Record(r)
    PROVE  /\ stamp[r] \in entries' /\ entries' \subseteq sent
           /\ expires' = clock + Window + 1
           /\ \A s \in admitted : s + Window > clock => s \in Remaining(r) /\ s \in entries'
<1> USE LimitAssumption DEF TypeOK
<1>1. stamp[r] \in sent /\ Remaining(r) \subseteq entries
  BY DEF WaitInv, Remaining
<1>2. ASSUME NEW s \in admitted, s + Window > clock PROVE s \in Remaining(r)
  <2>1. s \in entries /\ clock < expires
    BY <1>2 DEF KeptInv
  <2>2. s > stamp[r] - Window
    BY <1>2
  <2> QED BY <2>1, <2>2 DEF Remaining
<1> QED BY <1>1, <1>2 DEF Record

----
\* Each step preserves each part.

LEMMA InitInv == Init => IndInv
<1> SUFFICES ASSUME Init PROVE IndInv
  OBVIOUS
<1> USE LimitAssumption DEF Init
<1>1. TypeOK
  <2>1. last \in -Cooldown .. clock /\ outage \in -Cooldown .. clock
    OBVIOUS
  <2>2. pc \in [Requests -> Waiting \cup Ended] /\ stamp \in [Requests -> 0 .. clock]
    BY DEF Ended
  <2>3. clock \in 0 .. MaxTime /\ expires \in Nat
    OBVIOUS
  <2>4. up \in BOOLEAN /\ pool \in BOOLEAN
    OBVIOUS
  <2>5. entries \subseteq sent /\ admitted \subseteq sent /\ sent \subseteq 0 .. clock
    OBVIOUS
  <2> HIDE DEF Init
  <2> QED BY <2>1, <2>2, <2>3, <2>4, <2>5 DEF TypeOK
<1>2. WaitInv /\ PingInv /\ OnePing /\ HangInv /\ NoFalseRefusal
  BY DEF WaitInv, PingInv, OnePing, HangInv, NoFalseRefusal, Waiting
<1>3. OutageInv /\ KeptInv /\ WindowLimit
  BY DEF OutageInv, KeptInv, WindowLimit
<1> QED BY <1>1, <1>2, <1>3 DEF IndInv

LEMMA NextType ==
    ASSUME IndInv, [Next]_vars
    PROVE  TypeOK'
<1> USE LimitAssumption DEF IndInv, TypeOK, time, client, redis, history
<1>1. ASSUME NEW r \in Requests, UsePool(r) \/ PingAnswered(r) PROVE TypeOK'
  <2>0. sent' = sent \cup {clock}
    BY <1>1 DEF UsePool, PingAnswered, Send
  <2>1. sent' \subseteq 0 .. clock /\ sent \subseteq sent'
    BY <2>0
  <2>2. UNCHANGED <<clock, up, outage, pool, last, entries, expires, admitted>>
    BY <1>1 DEF UsePool, PingAnswered
  <2>3. pc' \in [Requests -> Waiting \cup Ended] /\ stamp' \in [Requests -> 0 .. clock]
    BY <1>1 DEF UsePool, PingAnswered, Send, Waiting
  <2> QED BY <2>1, <2>2, <2>3
<1>2. ASSUME NEW r \in Requests, Cool(r) \/ PingFails(r) \/ Fails(r) \/ Refuse(r) PROVE TypeOK'
  BY <1>2 DEF Cool, PingFails, Fails, Refuse, Ended
<1>3. ASSUME NEW r \in Requests, StartPing(r) PROVE TypeOK'
  BY <1>3 DEF StartPing, Waiting
<1>4. ASSUME NEW r \in Requests, Execute(r) PROVE TypeOK'
  <2>1. stamp[r] \in sent /\ entries' \subseteq sent /\ expires' = clock + Window + 1
    BY <1>4, RecordKeeps DEF Execute, WaitInv
  <2>2. pc' \in [Requests -> Waiting \cup Ended] /\ admitted' \subseteq sent
    BY <1>4, <2>1 DEF Execute, Ended, Waiting
  <2> QED BY <1>4, <2>1, <2>2 DEF Execute
<1>5. ASSUME NEW r \in Requests, AnswerLost(r) PROVE TypeOK'
  <2>1. entries' \subseteq sent /\ expires' = clock + Window + 1
    BY <1>5, RecordKeeps DEF AnswerLost
  <2> QED BY <1>5, <2>1 DEF AnswerLost
<1>6. CASE Tick
  <2>1. 0 .. clock \subseteq 0 .. clock' /\ clock' \in 0 .. MaxTime
    BY <1>6 DEF Tick
  <2>2. UNCHANGED <<up, pool, last, pc, stamp, entries, expires, sent, admitted>>
    BY <1>6 DEF Tick
  <2>3. last' \in -Cooldown .. clock' /\ outage' \in -Cooldown .. clock'
    BY <1>6 DEF Tick
  <2> QED BY <2>1, <2>2, <2>3
<1>7. CASE GoDown
  <2>1. up' \in BOOLEAN
    BY <1>7 DEF GoDown
  <2>2. outage' \in -Cooldown .. clock
    BY <1>7 DEF GoDown
  <2> QED BY <1>7, <2>1, <2>2 DEF GoDown
<1>8. CASE ComeUp
  BY <1>8 DEF ComeUp
<1>9. CASE LoseData
  <2>1. entries' \subseteq sent /\ admitted' \subseteq sent /\ expires' \in Nat
    BY <1>9 DEF LoseData
  <2> QED BY <1>9, <2>1 DEF LoseData
<1>10. CASE UNCHANGED vars
  BY <1>10 DEF vars
<1> QED
  BY <1>1, <1>2, <1>3, <1>4, <1>5, <1>6, <1>7, <1>8, <1>9, <1>10
  DEF Next, get_redis, is_allowed

LEMMA NextWait ==
    ASSUME IndInv, [Next]_vars
    PROVE  WaitInv'
<1> USE LimitAssumption DEF IndInv, TypeOK, WaitInv, Waiting, time, client, redis, history
<1>1. ASSUME NEW r \in Requests, UsePool(r) \/ PingAnswered(r) PROVE WaitInv'
  BY <1>1 DEF UsePool, PingAnswered, Send
<1>2. ASSUME NEW r \in Requests, Cool(r) \/ PingFails(r) \/ Fails(r) \/ Refuse(r) PROVE WaitInv'
  BY <1>2 DEF Cool, PingFails, Fails, Refuse
<1>3. ASSUME NEW r \in Requests, StartPing(r) PROVE WaitInv'
  BY <1>3 DEF StartPing
<1>4. ASSUME NEW r \in Requests, Execute(r) \/ AnswerLost(r) PROVE WaitInv'
  BY <1>4 DEF Execute, AnswerLost
<1>5. CASE Tick
  BY <1>5 DEF Tick
<1>6. CASE GoDown \/ ComeUp \/ LoseData \/ UNCHANGED vars
  BY <1>6 DEF GoDown, ComeUp, LoseData, vars
<1> QED BY <1>1, <1>2, <1>3, <1>4, <1>5, <1>6 DEF Next, get_redis, is_allowed

LEMMA NextPing ==
    ASSUME IndInv, [Next]_vars
    PROVE  PingInv' /\ OnePing'
<1> USE DEF IndInv, TypeOK, PingInv, OnePing, Waiting, Ended, time, client, redis, history
<1>1. ASSUME NEW r \in Requests, UsePool(r) \/ Cool(r) \/ PingAnswered(r) \/ is_allowed(r)
      PROVE  PingInv' /\ OnePing'
  BY <1>1 DEF UsePool, Cool, PingAnswered, Send, is_allowed, Execute, AnswerLost, Refuse, Fails
<1>2. ASSUME NEW r \in Requests, StartPing(r) PROVE PingInv' /\ OnePing'
  <2>1. \A q \in Requests : pc[q] # "ping"
    BY <1>2 DEF StartPing
  <2> QED BY <1>2, <2>1 DEF StartPing
<1>3. ASSUME NEW r \in Requests, PingFails(r) PROVE PingInv' /\ OnePing'
  <2>1. \A q \in Requests : pc'[q] # "ping"
    BY <1>3 DEF PingFails
  <2> QED BY <2>1
<1>4. CASE Tick \/ GoDown \/ ComeUp \/ LoseData \/ UNCHANGED vars
  BY <1>4 DEF Tick, GoDown, ComeUp, LoseData, vars
<1> QED BY <1>1, <1>2, <1>3, <1>4 DEF Next, get_redis

LEMMA NextHang ==
    ASSUME IndInv, [Next]_vars
    PROVE  HangInv'
<1> USE LimitAssumption DEF IndInv, TypeOK, HangInv, Ended, time, client, redis, history
<1>1. ASSUME NEW r \in Requests, UsePool(r) \/ PingAnswered(r) \/ StartPing(r) PROVE HangInv'
  BY <1>1 DEF UsePool, PingAnswered, StartPing, PingInv
<1>2. ASSUME NEW r \in Requests, Cool(r) \/ is_allowed(r) PROVE HangInv'
  BY <1>2 DEF Cool, is_allowed, Execute, AnswerLost, Refuse, Fails, Waiting
<1>3. ASSUME NEW r \in Requests, PingFails(r) PROVE HangInv'
  <2>1. clock <= last + MaxDelay
    BY <1>3 DEF PingFails, PingInv, WaitInv, Waiting
  <2>2. \A q \in Requests : stamp[q] <= clock
    OBVIOUS
  <2> QED BY <1>3, <2>1, <2>2 DEF PingFails
<1>4. CASE Tick \/ GoDown \/ ComeUp \/ LoseData \/ UNCHANGED vars
  BY <1>4 DEF Tick, GoDown, ComeUp, LoseData, vars
<1> QED BY <1>1, <1>2, <1>3, <1>4 DEF Next, get_redis

LEMMA NextOutage ==
    ASSUME IndInv, [Next]_vars
    PROVE  OutageInv'
<1> USE DEF IndInv, TypeOK, OutageInv, time, client, redis, history
<1>1. ASSUME NEW r \in Requests, UsePool(r) \/ Cool(r) \/ PingAnswered(r) \/ is_allowed(r)
      PROVE  OutageInv'
  BY <1>1 DEF UsePool, Cool, PingAnswered, Send, is_allowed, Execute, AnswerLost, Refuse, Fails
<1>2. ASSUME NEW r \in Requests, StartPing(r) PROVE OutageInv'
  BY <1>2 DEF StartPing
<1>3. ASSUME NEW r \in Requests, PingFails(r) PROVE OutageInv'
  BY <1>3 DEF PingFails, Troubled, PingInv
<1>4. CASE Tick \/ GoDown \/ ComeUp \/ LoseData \/ UNCHANGED vars
  BY <1>4 DEF Tick, GoDown, ComeUp, LoseData, vars
<1> QED BY <1>1, <1>2, <1>3, <1>4 DEF Next, get_redis

LEMMA NextKept ==
    ASSUME IndInv, [Next]_vars
    PROVE  KeptInv'
<1> USE LimitAssumption DEF IndInv, TypeOK, time, client, redis, history
<1>1. ASSUME NEW r \in Requests, pc[r] = "exec", Record(r), clock' = clock,
             admitted' \in {admitted, admitted \cup {stamp[r]}}
      PROVE  KeptInv'
  <2>1. /\ stamp[r] \in entries' /\ expires' = clock + Window + 1
        /\ \A s \in admitted : s + Window > clock => s \in entries'
    BY <1>1, RecordKeeps
  <2>2. \A s \in admitted' : s \in 0 .. clock
    BY <1>1
  <2> QED BY <1>1, <2>1, <2>2 DEF KeptInv
<1>2. ASSUME NEW r \in Requests, Execute(r) \/ AnswerLost(r) PROVE KeptInv'
  BY <1>1, <1>2 DEF Execute, AnswerLost
<1>3. ASSUME NEW r \in Requests, get_redis(r) \/ Refuse(r) \/ Fails(r) PROVE KeptInv'
  BY <1>3 DEF KeptInv, get_redis, UsePool, Cool, StartPing, PingAnswered, PingFails, Send,
     Refuse, Fails
<1>4. CASE Tick
  BY <1>4 DEF KeptInv, Tick
<1>5. CASE GoDown \/ ComeUp \/ LoseData \/ UNCHANGED vars
  BY <1>5 DEF KeptInv, GoDown, ComeUp, LoseData, vars
<1> QED BY <1>2, <1>3, <1>4, <1>5 DEF Next, is_allowed

\* A request is refused by its own pipeline or has been, and keeps its stamp.
LEMMA RefusedBy ==
    ASSUME IndInv, [Next]_vars, NEW q \in Requests, pc'[q] \in {"oldest", "refused"}
    PROVE  /\ stamp'[q] = stamp[q]
           /\ pc[q] \in {"oldest", "refused"} \/ Cardinality(Remaining(q)) >= MaxRequests
<1> USE DEF IndInv, TypeOK, time, client, redis, history
<1>1. ASSUME NEW r \in Requests, get_redis(r)
      PROVE  pc[q] \in {"oldest", "refused"} /\ stamp'[q] = stamp[q]
  BY <1>1 DEF get_redis, UsePool, Cool, StartPing, PingAnswered, PingFails, Send
<1>2. ASSUME NEW r \in Requests, is_allowed(r)
      PROVE  /\ stamp'[q] = stamp[q]
             /\ pc[q] \in {"oldest", "refused"} \/ Cardinality(Remaining(q)) >= MaxRequests
  BY <1>2 DEF is_allowed, Execute, AnswerLost, Refuse, Fails
<1>3. CASE Tick \/ GoDown \/ ComeUp \/ LoseData \/ UNCHANGED vars
  BY <1>3 DEF Tick, GoDown, ComeUp, LoseData, vars
<1> QED BY <1>1, <1>2, <1>3 DEF Next

LEMMA SentGrows ==
    ASSUME IndInv, [Next]_vars
    PROVE  sent \subseteq sent'
<1> USE DEF time, client, redis, history
<1>1. ASSUME NEW r \in Requests, get_redis(r) PROVE sent \subseteq sent'
  BY <1>1 DEF get_redis, UsePool, Cool, StartPing, PingAnswered, PingFails, Send
<1>2. ASSUME NEW r \in Requests, is_allowed(r) PROVE sent \subseteq sent'
  BY <1>2 DEF is_allowed, Execute, AnswerLost, Refuse, Fails
<1>3. CASE Tick \/ GoDown \/ ComeUp \/ LoseData \/ UNCHANGED vars
  BY <1>3 DEF Tick, GoDown, ComeUp, LoseData, vars
<1> QED BY <1>1, <1>2, <1>3 DEF Next

LEMMA NextRefusal ==
    ASSUME IndInv, [Next]_vars
    PROVE  NoFalseRefusal'
<1> SUFFICES ASSUME NEW q \in Requests, pc'[q] \in {"oldest", "refused"}
             PROVE  Cardinality({s \in sent' : s > stamp'[q] - Window}) >= MaxRequests
  BY DEF NoFalseRefusal
<1> DEFINE Since(S) == {s \in S : s > stamp[q] - Window}
<1>1. /\ stamp'[q] = stamp[q]
      /\ pc[q] \in {"oldest", "refused"} \/ Cardinality(Remaining(q)) >= MaxRequests
  BY RefusedBy
<1>2. IsFiniteSet(sent')
  <2>1. sent' \subseteq 0 .. clock' /\ clock' \in 0 .. MaxTime
    BY NextType DEF TypeOK
  <2>2. IsFiniteSet(0 .. clock')
    BY <2>1, FS_Interval, LimitAssumption
  <2> QED BY <2>1, <2>2, FS_Subset
<1>3. ASSUME NEW T, T \subseteq Since(sent'), Cardinality(T) >= MaxRequests
      PROVE  Cardinality(Since(sent')) >= MaxRequests
  <2>1. IsFiniteSet(Since(sent')) /\ IsFiniteSet(T)
    BY <1>2, <1>3, FS_Subset
  <2>2. Cardinality(T) \in Nat /\ Cardinality(Since(sent')) \in Nat
    BY <2>1, FS_CardinalityType
  <2>3. Cardinality(T) <= Cardinality(Since(sent'))
    BY <1>3, <2>1, FS_Subset
  <2> HIDE DEF Since
  <2> QED BY <1>3, <2>2, <2>3, LimitAssumption
<1>4. Since(sent) \subseteq Since(sent')
  BY SentGrows
<1>5. Remaining(q) \subseteq Since(sent')
  BY SentGrows DEF Remaining, IndInv, TypeOK
<1>6. pc[q] \in {"oldest", "refused"} => Cardinality(Since(sent)) >= MaxRequests
  BY DEF IndInv, NoFalseRefusal
<1> QED BY <1>1, <1>3, <1>4, <1>5, <1>6

\* The stamps in a window to which a new one is added were all counted: they
\* differ from it by less than the window without the delay, so that they are
\* within a full window of the clock.
LEMMA AdmitOne ==
    ASSUME IndInv, NEW r \in Requests, Execute(r), admitted' = admitted \cup {stamp[r]},
           Cardinality(Remaining(r)) < MaxRequests, NEW from \in admitted'
    PROVE  Cardinality({s \in admitted' : from <= s /\ s < from + Window - MaxDelay})
              <= MaxRequests
<1> USE LimitAssumption DEF IndInv
<1> DEFINE x == stamp[r]
           In(s) == from <= s /\ s < from + Window - MaxDelay
           W(S) == {s \in S : In(s)}
<1>1. /\ x \in 0 .. clock /\ clock <= x + MaxDelay /\ clock \in Nat
      /\ admitted \subseteq 0 .. clock /\ from \in 0 .. clock
  BY DEF Execute, WaitInv, Waiting, TypeOK
<1>2. IsFiniteSet(Remaining(r)) /\ Cardinality(Remaining(r)) \in Nat
  BY RemainingFinite
<1>3. CASE In(x)
  <2>1. ASSUME NEW s \in admitted, In(s) PROVE s \in Remaining(r)
    <3>1. s + Window > clock
      BY <1>1, <1>3, <2>1
    <3> QED BY <3>1, RecordKeeps DEF Execute
  <2>2. W(admitted') \subseteq Remaining(r) \cup {x}
    BY <2>1
  <2>3. /\ IsFiniteSet(Remaining(r) \cup {x})
        /\ Cardinality(Remaining(r) \cup {x}) <= Cardinality(Remaining(r)) + 1
    BY <1>2, FS_AddElement
  <2>4. Cardinality(Remaining(r) \cup {x}) \in Nat /\ Cardinality(W(admitted')) \in Nat
    BY <2>2, <2>3, FS_Subset, FS_CardinalityType
  <2>5. Cardinality(W(admitted')) <= Cardinality(Remaining(r) \cup {x})
    BY <2>2, <2>3, FS_Subset
  <2> HIDE DEF W
  <2>6. Cardinality(W(admitted')) <= MaxRequests
    BY <1>2, <2>3, <2>4, <2>5
  <2> QED BY <2>6 DEF W
<1>4. CASE ~In(x)
  <2>1. W(admitted') = W(admitted)
    BY <1>4
  <2>2. CASE from \in admitted
    BY <2>1, <2>2 DEF WindowLimit
  <2>3. CASE from \notin admitted
    <3>1. from = x /\ ~(Window - MaxDelay > 0)
      BY <1>1, <1>4, <2>3
    <3>2. \A s \in admitted' : ~In(s)
      BY <1>1, <3>1
    <3> QED BY <3>2, FS_EmptySet
  <2> QED BY <2>2, <2>3
<1> QED BY <1>3, <1>4

LEMMA NextWindow ==
    ASSUME IndInv, [Next]_vars
    PROVE  WindowLimit'
<1> USE DEF IndInv, time, client, redis, history
<1>1. ASSUME admitted' = admitted PROVE WindowLimit'
  BY <1>1 DEF WindowLimit
<1>2. ASSUME NEW r \in Requests, Execute(r) PROVE WindowLimit'
  <2>1. CASE Cardinality(Remaining(r)) >= MaxRequests
    BY <1>1, <1>2, <2>1 DEF Execute
  <2>2. CASE ~(Cardinality(Remaining(r)) >= MaxRequests)
    <3>1. admitted' = admitted \cup {stamp[r]}
      BY <1>2, <2>2 DEF Execute
    <3>2. Cardinality(Remaining(r)) < MaxRequests
      BY <2>2, RemainingFinite, LimitAssumption
    <3> QED BY <1>2, <3>1, <3>2, AdmitOne DEF WindowLimit
  <2> QED BY <2>1, <2>2
<1>3. CASE LoseData
  BY <1>3 DEF LoseData, WindowLimit
<1>4. ASSUME NEW r \in Requests, get_redis(r) \/ AnswerLost(r) \/ Refuse(r) \/ Fails(r)
      PROVE  admitted' = admitted
  BY <1>4 DEF get_redis, UsePool, Cool, StartPing, PingAnswered, PingFails, Send,
     AnswerLost, Refuse, Fails
<1>5. CASE Tick \/ GoDown \/ ComeUp \/ UNCHANGED vars
  BY <1>1, <1>5 DEF Tick, GoDown, ComeUp, vars
<1> QED BY <1>1, <1>2, <1>3, <1>4, <1>5 DEF Next, is_allowed

----
\* Theorems.

\* The inductive invariant holds of every behaviour; in particular the state
\* keeps its types.
THEOREM Invariant == Spec => []IndInv
<1>1. Init => IndInv
  BY InitInv
<1>2. IndInv /\ [Next]_vars => IndInv'
  BY NextType, NextWait, NextPing, NextHang, NextOutage, NextKept, NextRefusal, NextWindow DEF IndInv
<1> QED BY <1>1, <1>2, PTL DEF Spec

\* Every variable keeps its type; the sorted set and the admitted stamps are among
\* those sent, and those among the instants so far (rate_limit.py:24-36).
THEOREM TypeCorrect == Spec => []TypeOK
<1>1. IndInv => TypeOK
  BY DEF IndInv
<1> QED BY <1>1, Invariant, PTL

\* The sliding window lets at most max_requests instants of any window pass, one
\* shorter than window_seconds by the longest delay (rate_limit.py:24-36).
THEOREM WindowNeverExceeded == Spec => []WindowLimit
<1>1. IndInv => WindowLimit
  BY DEF IndInv
<1> QED BY <1>1, Invariant, PTL

\* A 429 answers a client that has sent max_requests instants of requests since
\* the window of the refused one began (rate_limit.py:27-36).
THEOREM RefusalsJustified == Spec => []NoFalseRefusal
<1>1. IndInv => NoFalseRefusal
  BY DEF IndInv
<1> QED BY <1>1, Invariant, PTL

\* Until a first ping is answered, a failed attempt to reach Redis holds up no
\* request for longer than two delays, and none that comes after it failed
\* (cache.py:20-38, rate_limit.py:32).
THEOREM HangsBounded == Spec => []HangBounded
<1>1. IndInv => HangBounded
  BY LimitAssumption DEF IndInv, TypeOK, WaitInv, HangInv, HangBounded
<1> QED BY <1>1, Invariant, PTL

\* The limiter is off only while Redis is out of reach and for less than the
\* cooldown, or one slow command, afterwards (cache.py:20-42).
THEOREM FailsOpenBriefly == Spec => FailOpenBounded
<1> DEFINE Excused == ~up \/ clock - outage < Cooldown \/ clock - outage <= MaxDelay
           Opens(r) == pc[r] # "open" /\ pc'[r] = "open"
<1>1. ASSUME IndInv, [Next]_vars, NEW r \in Requests, Opens(r) PROVE Excused
  <2> USE <1>1, LimitAssumption DEF IndInv, TypeOK, time, client, redis, history
  <2>1. Cool(r) \/ PingFails(r) \/ Fails(r)
    <3>1. ASSUME NEW q \in Requests, q # r, get_redis(q) \/ is_allowed(q) PROVE FALSE
      BY <3>1 DEF get_redis, UsePool, Cool, StartPing, PingAnswered, PingFails, Send,
         is_allowed, Execute, AnswerLost, Refuse, Fails
    <3>2. CASE Tick \/ GoDown \/ ComeUp \/ LoseData \/ UNCHANGED vars
      BY <3>2 DEF Tick, GoDown, ComeUp, LoseData, vars
    <3>3. ASSUME UsePool(r) \/ StartPing(r) \/ PingAnswered(r) \/ Execute(r)
                   \/ AnswerLost(r) \/ Refuse(r)
          PROVE  FALSE
      BY <3>3 DEF UsePool, StartPing, PingAnswered, Send, Execute, AnswerLost, Refuse
    <3> QED BY <3>1, <3>2, <3>3 DEF Next, get_redis, is_allowed
  <2>2. CASE Cool(r)
    BY <2>2 DEF Cool, OutageInv
  <2>3. CASE PingFails(r) \/ Fails(r)
    BY <2>3 DEF PingFails, Fails, Troubled, WaitInv, Waiting
  <2> QED BY <2>1, <2>2, <2>3
<1>2. IndInv /\ [Next]_vars => [\A r \in Requests : Opens(r) => Excused]_vars
  BY <1>1
<1> QED BY <1>2, Invariant, PTL DEF Spec, FailOpenBounded

====
