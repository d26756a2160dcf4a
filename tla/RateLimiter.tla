---- MODULE RateLimiter ----
(***************************************************************************)
(* The sliding-window rate limiter in front of every endpoint, and the     *)
(* Redis client it shares with the cache helpers.  A request runs          *)
(*                                                                         *)
(*   get_redis (-> ping) -> pipeline on the sorted set of its client       *)
(*     -> zrange when the window is full -> pass on, or 429                *)
(*                                                                         *)
(* The clock is read before the pipeline is sent, so pipelines take effect *)
(* in another order than that of their time stamps.  Without Redis every   *)
(* request passes.  One client, hence one key; one server process.         *)
(***************************************************************************)
EXTENDS Integers, FiniteSets

CONSTANTS
    Requests,     \* bound: requests handled at once
    MaxRequests,  \* max_requests: served in a window
    Window,       \* window_seconds
    Cooldown,     \* _connection_cooldown
    MaxDelay,     \* longest time between a command's time stamp and its end
    MaxTime       \* bound: the clock

ASSUME LimitAssumption ==
    /\ MaxRequests \in Nat \ {0}
    /\ Window \in Nat \ {0}
    /\ Cooldown \in Nat \ {0}
    /\ MaxDelay \in Nat
    /\ MaxTime \in Nat
ASSUME RequestsAssumption == IsFiniteSet(Requests)

VARIABLES
    clock,
    up,        \* Redis answers
    outage,    \* the last time it did not, the start of the process included
    pool,      \* _pool is not None
    last,      \* _last_connection_attempt
    pc,        \* pc[r]: next await of request r, or how it ended
    stamp,     \* stamp[r]: when r read the clock last
    entries,   \* the sorted set: a member for each instant, scored by it
    expires,   \* when its key expires
    sent,      \* history: time stamps of the pipelines
    admitted   \* history: time stamps let through since Redis last lost data

vars == <<clock, up, outage, pool, last, pc, stamp, entries, expires, sent, admitted>>
time   == <<clock, up, outage>>
client == <<pool, last>>
redis  == <<entries, expires>>
history == <<sent, admitted>>

Waiting == {"ping", "exec", "oldest"}
Ended   == {"none", "allowed", "refused", "open"}

Init ==
    /\ clock = 0
    /\ up \in BOOLEAN
    /\ pool = FALSE
    /\ last \in {-Cooldown, 0}
    /\ outage = IF up THEN last ELSE 0
    /\ pc = [r \in Requests |-> "none"]
    /\ stamp = [r \in Requests |-> 0]
    /\ entries = {}
    /\ expires = 0
    /\ sent = {}
    /\ admitted = {}

----
\* get_redis

\* Redis has been out of reach at some time since r sent its command.
Troubled(r) == ~up \/ outage >= stamp[r]

\* The time stamp is taken and the pipeline sent without an await in between.
Send(r) ==
    /\ pc' = [pc EXCEPT ![r] = "exec"]
    /\ stamp' = [stamp EXCEPT ![r] = clock]
    /\ sent' = sent \cup {clock}

\* The singleton exists, perhaps not yet pinged by the request that made it.
UsePool(r) ==
    /\ pc[r] \in Ended
    /\ pool
    /\ Send(r)
    /\ UNCHANGED <<time, client, redis, admitted>>

\* Mutant: the attempt is noted before the cooldown is looked at.
Cool_Postponed(r) ==
    /\ pc[r] \in Ended
    /\ ~pool
    /\ clock - last < Cooldown
    /\ last' = clock
    /\ pc' = [pc EXCEPT ![r] = "open"]
    /\ UNCHANGED <<time, pool, stamp, redis, history>>

\* The last attempt is too recent: no Redis for this request.
Cool(r) ==
    /\ pc[r] \in Ended
    /\ ~pool
    /\ clock - last < Cooldown
    /\ pc' = [pc EXCEPT ![r] = "open"]
    /\ UNCHANGED <<time, client, stamp, redis, history>>

\* Mutant: what is stored is when to try again.
StartPing_NextAttempt(r) ==
    /\ pc[r] \in Ended
    /\ ~pool
    /\ clock - last >= Cooldown
    /\ last' = clock + Cooldown
    /\ pool' = TRUE
    /\ pc' = [pc EXCEPT ![r] = "ping"]
    /\ stamp' = [stamp EXCEPT ![r] = clock]
    /\ UNCHANGED <<time, redis, history>>

\* Mutant: neither attempt nor singleton is noted before the ping is answered.
StartPing_Unnoted(r) ==
    /\ pc[r] \in Ended
    /\ ~pool
    /\ clock - last >= Cooldown
    /\ pc' = [pc EXCEPT ![r] = "ping"]
    /\ stamp' = [stamp EXCEPT ![r] = clock]
    /\ UNCHANGED <<time, client, redis, history>>

\* A new attempt: the singleton is set, for everyone, before it is pinged.
StartPing(r) ==
    /\ pc[r] \in Ended
    /\ ~pool
    /\ clock - last >= Cooldown
    /\ last' = clock
    /\ pool' = TRUE
    /\ pc' = [pc EXCEPT ![r] = "ping"]
    /\ stamp' = [stamp EXCEPT ![r] = clock]
    /\ UNCHANGED <<time, redis, history>>

PingAnswered(r) ==
    /\ pc[r] = "ping"
    /\ up
    /\ Send(r)
    /\ UNCHANGED <<time, client, redis, admitted>>

PingFails(r) ==
    /\ pc[r] = "ping"
    /\ Troubled(r)
    /\ pool' = FALSE
    /\ pc' = [pc EXCEPT ![r] = "open"]
    /\ UNCHANGED <<time, last, stamp, redis, history>>

----
\* is_allowed

\* Mutant: old members are never removed.
Remaining_Untrimmed(r) == IF clock < expires THEN entries ELSE {}

\* What zremrangebyscore leaves, if the key has not expired, for zcard to count.
Remaining(r) ==
    IF clock < expires THEN {s \in entries : s > stamp[r] - Window} ELSE {}

\* zadd and expire.
Record(r) ==
    /\ entries' = Remaining(r) \cup {stamp[r]}
    /\ expires' = clock + Window + 1

\* Mutant: the limit is one too high.
Execute_OffByOne(r) ==
    /\ pc[r] = "exec"
    /\ up
    /\ Record(r)
    /\ IF Cardinality(Remaining(r)) > MaxRequests
       THEN pc' = [pc EXCEPT ![r] = "oldest"] /\ UNCHANGED admitted
       ELSE pc' = [pc EXCEPT ![r] = "allowed"] /\ admitted' = admitted \cup {stamp[r]}
    /\ UNCHANGED <<time, client, stamp, sent>>

\* The pipeline takes effect as a whole and its answer arrives. A request over
\* the limit is recorded like any other.
Execute(r) ==
    /\ pc[r] = "exec"
    /\ up
    /\ Record(r)
    /\ IF Cardinality(Remaining(r)) >= MaxRequests
       THEN pc' = [pc EXCEPT ![r] = "oldest"] /\ UNCHANGED admitted
       ELSE pc' = [pc EXCEPT ![r] = "allowed"] /\ admitted' = admitted \cup {stamp[r]}
    /\ UNCHANGED <<time, client, stamp, sent>>

\* The pipeline takes effect, its answer is lost, and the client library sends
\* it again (or gives up: Fails).
AnswerLost(r) ==
    /\ pc[r] = "exec"
    /\ Troubled(r)
    /\ Record(r)
    /\ UNCHANGED <<time, client, pc, stamp, history>>

\* zrange finds the oldest member, or none: 429 with Retry-After.
Refuse(r) ==
    /\ pc[r] = "oldest"
    /\ up
    /\ pc' = [pc EXCEPT ![r] = "refused"]
    /\ UNCHANGED <<time, client, stamp, redis, history>>

\* Any exception lets the request through, even one of the zrange.
Fails(r) ==
    /\ pc[r] \in {"exec", "oldest"}
    /\ Troubled(r)
    /\ pc' = [pc EXCEPT ![r] = "open"]
    /\ UNCHANGED <<time, client, stamp, redis, history>>

----
\* Time and Redis.

\* No command takes longer than MaxDelay.
Tick ==
    /\ clock < MaxTime
    /\ \A r \in Requests : pc[r] \in Waiting => clock < stamp[r] + MaxDelay
    /\ clock' = clock + 1
    /\ outage' = IF up THEN outage ELSE clock'
    /\ UNCHANGED <<up, client, pc, stamp, redis, history>>

GoDown ==
    /\ up
    /\ up' = FALSE
    /\ outage' = clock
    /\ UNCHANGED <<clock, client, pc, stamp, redis, history>>

ComeUp ==
    /\ ~up
    /\ up' = TRUE
    /\ UNCHANGED <<clock, outage, client, pc, stamp, redis, history>>

\* Redis restarts without its data, or evicts the key.
LoseData ==
    /\ entries # {}
    /\ entries' = {}
    /\ expires' = 0
    /\ admitted' = {}
    /\ UNCHANGED <<time, client, pc, stamp, sent>>

get_redis(r) == UsePool(r) \/ Cool(r) \/ StartPing(r) \/ PingAnswered(r) \/ PingFails(r)
is_allowed(r) == Execute(r) \/ AnswerLost(r) \/ Refuse(r) \/ Fails(r)

Next ==
    \/ \E r \in Requests : get_redis(r) \/ is_allowed(r)
    \/ Tick
    \/ GoDown
    \/ ComeUp
    \/ LoseData

Spec == Init /\ [][Next]_vars

----
\* Properties.

TypeOK ==
    /\ clock \in 0 .. MaxTime
    /\ up \in BOOLEAN
    /\ pool \in BOOLEAN
    /\ last \in -Cooldown .. clock
    /\ outage \in -Cooldown .. clock
    /\ pc \in [Requests -> Waiting \cup Ended]
    /\ stamp \in [Requests -> 0 .. clock]
    /\ entries \subseteq sent
    /\ expires \in Nat
    /\ sent \subseteq 0 .. clock
    /\ admitted \subseteq sent

\* However the pipelines overtake each other, are repeated or lost, Redis lets at
\* most max_requests instants of any window pass, a window shorter than
\* window_seconds by the delay between time stamp and effect
\* (rate_limit.py:24-36). Two requests of one instant share a member.
WindowLimit ==
    \A from \in admitted :
        Cardinality({s \in admitted : from <= s /\ s < from + Window - MaxDelay}) <= MaxRequests

\* A request is refused only when its client has sent requests at max_requests
\* instants since the window of that request began, some perhaps after it and
\* refused themselves: nothing older ever counts (rate_limit.py:27-36).
NoFalseRefusal ==
    \A r \in Requests : pc[r] \in {"oldest", "refused"} =>
        Cardinality({s \in sent : s > stamp[r] - Window}) >= MaxRequests

\* The limiter lets a request through unseen only while Redis is out of reach
\* and for less than the cooldown, or one slow command, afterwards: a failed
\* attempt, or several at once, do not switch it off (cache.py:20-42).
FailOpenBounded ==
    [][\A r \in Requests : pc[r] # "open" /\ pc'[r] = "open" =>
            ~up \/ clock - outage < Cooldown \/ clock - outage <= MaxDelay]_vars

\* A Redis that hangs before it ever answered holds up those that ping it or took
\* the singleton meanwhile, un-pinged: once the ping has failed, they are the only
\* ones, and none of them hangs longer than two delays after that attempt
\* (cache.py:20-38, rate_limit.py:32). Once a ping was answered the singleton is
\* kept, and in a later outage every request hangs for up to MaxDelay.
HangBounded == ~pool => \A r \in Requests : pc[r] \in Waiting => clock <= last + 2 * MaxDelay

====
