------------------------------ MODULE RpcGate ------------------------------
(***************************************************************************)
(* The gate all clients of one EVM endpoint share (evm/rpc/limit.rs) and   *)
(* the request that passes it (evm/rpc.rs): one request in flight, a least *)
(* distance between two that every new client may raise, a common backoff  *)
(* after a rate limit, three attempts for a read and one for a broadcast.  *)
(*                                                                         *)
(* Times are timers that run down, counted in ticks, so that the behaviour *)
(* needs no end: cooldown is what is left of the backoff.  A caller may be *)
(* dropped wherever it waits (runtime::observe, an aborted task).          *)
(***************************************************************************)
EXTENDS Naturals, Sequences, SequencesExt

CONSTANTS
    Callers,      \* tasks that use the endpoint
    Intervals,    \* rpc_min_interval_ms of the clients that share the gate
    Budget,       \* the 20 seconds of an attempt, queueing included
    Attempts,     \* 3: of a read whose transport fails
    Base,         \* 30 seconds: the first backoff
    Longest,      \* 300 seconds: the longest
    RetryAfters,  \* what the provider may ask for, or 0
    Settled,      \* 60 seconds of success after which the backoff starts anew
    MaxFailures,  \* bound: rate limits counted (only compared up to 4)
    None

ASSUME GateAssumption ==
    /\ {Budget, Base, Longest, Settled, MaxFailures} \subseteq Nat \ {0}
    /\ Intervals \subseteq Nat \ {0}
    /\ Attempts \in 1..3
    /\ RetryAfters \subseteq Nat
    /\ None \notin Callers \cup Nat

VARIABLES
    interval,  \* State.spacing
    wait,      \* until State.next
    cooldown,  \* until State.cooldown has passed, 0 also when there is none
    failures,  \* State.failures
    healthy,   \* how long ago healthy_since is, at most Settled, or None
    permit,    \* the holder of flight's permit, or None
    queue,     \* those waiting for it: the semaphore is fair
    pc,        \* where a caller is in request()
    kind,      \* eth_sendRawTransaction or a read
    attempt,   \* attempts begun
    left,      \* until the deadline of the attempt, or the end of the nap
    sent,      \* history variable: requests dispatched by this call, at most 2
    quiet,     \* history variable: until the provider accepts requests again
    owed,      \* history variable: the interval in force at the last dispatch
    sinceSent, \* history variable: ticks since that dispatch, at most owed
    proven     \* history variable: ticks since the first answer that no rate
               \* limit followed, at most Settled, or None

gate == <<interval, wait, cooldown, failures, healthy>>
flight == <<permit, queue>>
calls == <<pc, kind, attempt, left>>
ghosts == <<sent, quiet, owed, sinceSent, proven>>
vars == <<gate, flight, calls, ghosts>>

Larger(a, b) == IF a > b THEN a ELSE b
Smaller(a, b) == IF a < b THEN a ELSE b

AttemptsOf(k) == IF k = "broadcast" THEN 1 ELSE Attempts

\* 30 seconds << min(failures, 4)
Backoff(n) == Smaller(Longest, Base * <<1, 2, 4, 8, 16>>[Smaller(n, 4) + 1])

\* 1 second << (attempts made - 1)
Nap(n) == <<1, 2, 4>>[n]

-----------------------------------------------------------------------------
\* Gate::shared: a client joins; the strictest interval holds for all from then on,
\* but a slot that is already given away stays as it is.
Join ==
    /\ \E own \in Intervals : interval' = Larger(interval, own)
    /\ UNCHANGED <<wait, cooldown, failures, healthy, flight, calls, ghosts>>

-----------------------------------------------------------------------------
(* request(): the steps of caller c. *)

\* The call is over, with a result or an error; nothing of it stays behind.
Return(c) ==
    /\ pc' = [pc EXCEPT ![c] = "idle"]
    /\ kind' = [kind EXCEPT ![c] = "read"]
    /\ attempt' = [attempt EXCEPT ![c] = 0]
    /\ left' = [left EXCEPT ![c] = 0]
    /\ sent' = [sent EXCEPT ![c] = 0]

Move(c, step) ==
    /\ pc' = [pc EXCEPT ![c] = step]
    /\ UNCHANGED <<kind, attempt, left, sent>>

Release(c) == permit' = IF permit = c THEN None ELSE permit

\* Who stops waiting loses its place in the queue.
Leave(c) ==
    queue' = IF \E i \in DOMAIN queue : queue[i] = c
             THEN RemoveAt(queue, CHOOSE i \in DOMAIN queue : queue[i] = c)
             ELSE queue

Call(c) ==
    /\ pc[c] = "idle"
    /\ \E k \in {"read", "broadcast"} : kind' = [kind EXCEPT ![c] = k]
    /\ pc' = [pc EXCEPT ![c] = "begin"]
    /\ UNCHANGED <<gate, flight, attempt, left, ghosts>>

\* acquire: a limited endpoint is not even queued for.
Begin(c) ==
    /\ pc[c] = "begin"
    /\ IF cooldown > 0
       THEN Return(c) /\ UNCHANGED queue
       ELSE /\ pc' = [pc EXCEPT ![c] = "queued"]
            /\ attempt' = [attempt EXCEPT ![c] = @ + 1]
            /\ left' = [left EXCEPT ![c] = Budget]
            /\ queue' = Append(queue, c)
            /\ UNCHANGED <<kind, sent>>
    /\ UNCHANGED <<gate, permit, quiet, owed, sinceSent, proven>>

Grant(c) ==
    /\ pc[c] = "queued" /\ permit = None /\ Head(queue) = c
    /\ queue' = Tail(queue)
    /\ IF cooldown > 0
       THEN Return(c) /\ UNCHANGED permit
       ELSE permit' = c /\ Move(c, "spacing")
    /\ UNCHANGED <<gate, quiet, owed, sinceSent, proven>>

Dispatch(c) ==
    /\ pc[c] = "spacing" /\ wait = 0
    /\ cooldown = 0  \* the third check never refuses: only the holder sets it
    /\ wait' = interval
    /\ pc' = [pc EXCEPT ![c] = "flight"]
    /\ sent' = [sent EXCEPT ![c] = Smaller(2, @ + 1)]
    /\ owed' = interval /\ sinceSent' = 0
    /\ UNCHANGED <<interval, cooldown, failures, healthy, flight, kind, attempt,
                   left, quiet, proven>>

\* The deadline passes before the request is dispatched.
QueueTimeout(c) ==
    /\ pc[c] \in {"queued", "spacing"} /\ left[c] = 0
    /\ Return(c) /\ Release(c) /\ Leave(c)
    /\ UNCHANGED <<gate, quiet, owed, sinceSent, proven>>

-----------------------------------------------------------------------------
(* The answers. *)

Succeeded ==
    /\ healthy' = IF healthy = None THEN 0 ELSE healthy
    /\ failures' = IF healthy' >= Settled THEN 0 ELSE failures

Answered(c) ==
    /\ pc[c] = "flight"
    /\ Succeeded
    /\ cooldown' = 0
    /\ proven' = IF proven = None THEN 0 ELSE proven
    /\ Return(c) /\ Release(c)
    /\ UNCHANGED <<interval, wait, queue, quiet, owed, sinceSent>>

\* An error of the node, or an answer that is not one: final, and no success.
Refused(c) ==
    /\ pc[c] = "flight"
    /\ Return(c) /\ Release(c)
    /\ UNCHANGED <<gate, queue, quiet, owed, sinceSent, proven>>

\* Variant: the backoff alone decides how long to wait.
LimitedByBackoff(asked) ==
    /\ cooldown' = Backoff(failures)
    /\ failures' = Smaller(MaxFailures, failures + 1)
    /\ healthy' = None

\* Variant: earlier successes still count.
LimitedHealthy(asked) ==
    /\ cooldown' = Larger(Backoff(failures), asked)
    /\ failures' = Smaller(MaxFailures, failures + 1)
    /\ UNCHANGED healthy

Limited(asked) ==
    /\ cooldown' = Larger(Backoff(failures), asked)
    /\ failures' = Smaller(MaxFailures, failures + 1)
    /\ healthy' = None

\* A rate limit is recorded while the permit is held and is never retried.
RateLimited(c) ==
    /\ pc[c] = "flight"
    /\ \E asked \in RetryAfters :
         /\ Limited(asked)
         /\ quiet' = Larger(asked, Larger(quiet, Backoff(failures)))
    /\ proven' = None
    /\ Return(c) /\ Release(c)
    /\ UNCHANGED <<interval, wait, queue, owed, sinceSent>>

\* Variant: a retry does not use up an attempt.
TransportFailsEndlessly(c) ==
    /\ pc[c] = "flight"
    /\ Release(c)
    /\ IF kind[c] = "broadcast"
       THEN Return(c)
       ELSE /\ pc' = [pc EXCEPT ![c] = "napping"]
            /\ attempt' = [attempt EXCEPT ![c] = 0]
            /\ UNCHANGED <<kind, left, sent>>
    /\ UNCHANGED <<gate, queue, quiet, owed, sinceSent, proven>>

\* The permit is given back before the nap of the retry.
TransportFails(c) ==
    /\ pc[c] = "flight"
    /\ Release(c)
    /\ IF attempt[c] = AttemptsOf(kind[c])
       THEN Return(c)
       ELSE /\ pc' = [pc EXCEPT ![c] = "napping"]
            /\ left' = [left EXCEPT ![c] = Nap(attempt[c])]
            /\ UNCHANGED <<kind, attempt, sent>>
    /\ UNCHANGED <<gate, queue, quiet, owed, sinceSent, proven>>

Wake(c) ==
    /\ pc[c] = "napping" /\ left[c] = 0
    /\ Move(c, "begin")
    /\ UNCHANGED <<gate, flight, quiet, owed, sinceSent, proven>>

\* Variant: dropping the caller keeps its permit.
CancelKeepingPermit(c) ==
    /\ pc[c] # "idle"
    /\ Return(c) /\ Leave(c)
    /\ UNCHANGED <<gate, permit, quiet, owed, sinceSent, proven>>

Cancel(c) ==
    /\ pc[c] # "idle"
    /\ Return(c) /\ Release(c) /\ Leave(c)
    /\ UNCHANGED <<gate, quiet, owed, sinceSent, proven>>

-----------------------------------------------------------------------------
Less(t) == IF t = 0 THEN 0 ELSE t - 1
Older(t) == IF t = None THEN None ELSE Smaller(Settled, t + 1)

\* An attempt does not outlast its deadline.
Tick ==
    /\ \A c \in Callers : pc[c] \in {"queued", "spacing", "flight"} => left[c] > 0
    /\ wait' = Less(wait)
    /\ cooldown' = Less(cooldown)
    /\ healthy' = Older(healthy)
    /\ left' = [c \in Callers |-> Less(left[c])]
    /\ quiet' = Less(quiet)
    /\ sinceSent' = Smaller(owed, sinceSent + 1)
    /\ proven' = Older(proven)
    /\ UNCHANGED <<interval, failures, flight, pc, kind, attempt, sent, owed>>

Init ==
    /\ interval \in Intervals
    /\ wait = 0 /\ cooldown = 0 /\ failures = 0 /\ healthy = None
    /\ permit = None /\ queue = <<>>
    /\ pc = [c \in Callers |-> "idle"]
    /\ kind = [c \in Callers |-> "read"]
    /\ attempt = [c \in Callers |-> 0]
    /\ left = [c \in Callers |-> 0]
    /\ sent = [c \in Callers |-> 0]
    /\ quiet = 0 /\ owed = 0 /\ sinceSent = 0 /\ proven = None

\* The transport ends by an answer or by the deadline of the attempt.
Ends(c) ==
    \/ Answered(c) \/ Refused(c) \/ RateLimited(c) \/ TransportFails(c)

Request(c) ==
    Begin(c) \/ Grant(c) \/ Dispatch(c) \/ QueueTimeout(c) \/ Ends(c) \/ Wake(c)

Next == Tick \/ Join \/ \E c \in Callers : Call(c) \/ Request(c) \/ Cancel(c)

Spec == Init /\ [][Next]_vars

\* Tasks are scheduled and time passes.
FairSpec == Spec /\ WF_vars(Tick) /\ \A c \in Callers : WF_vars(Request(c))

-----------------------------------------------------------------------------
(* Properties. *)

TypeOK ==
    /\ interval \in Intervals /\ wait \in 0..interval /\ cooldown \in Nat
    /\ failures \in 0..MaxFailures /\ healthy \in 0..Settled \cup {None}
    /\ permit \in Callers \cup {None} /\ queue \in Seq(Callers) /\ IsInjective(queue)
    /\ pc \in [Callers -> {"idle", "begin", "queued", "spacing", "flight", "napping"}]
    /\ kind \in [Callers -> {"read", "broadcast"}]
    /\ attempt \in [Callers -> 0..Attempts] /\ left \in [Callers -> Nat]
    /\ sent \in [Callers -> 0..2]
    /\ quiet \in Nat /\ owed \in 0..interval /\ sinceSent \in 0..owed
    /\ proven \in 0..Settled \cup {None}

Dispatches == \E c \in Callers : pc[c] # "flight" /\ pc'[c] = "flight"

\* Nothing is sent before the wait the provider asked for, and our own backoff,
\* are over: not by those who queued before the limit, not by a new client, not
\* by a retry (rpc-rate-limits.md; limit.rs, acquire).
SilentWhileLimited == [][Dispatches => quiet = 0]_vars

\* Two requests are never closer than the interval in force when the first was
\* sent, also after a call that was dropped or timed out in the queue and when
\* clients of other intervals join meanwhile (limit.rs, next).
Spaced == [][Dispatches => sinceSent >= owed]_vars

\* A broadcast is dispatched at most once by one call, whatever fails.
BroadcastOnce == \A c \in Callers : kind[c] = "broadcast" => sent[c] <= 1

\* The permit belongs to a caller that is about to send or waits for an answer,
\* never to one that naps, was dropped or has returned: nobody is locked out.
PermitInUse ==
    /\ permit # None => pc[permit] \in {"spacing", "flight"}
    /\ \A c \in Callers : pc[c] \in {"spacing", "flight"} => permit = c

\* The gate is left as the code of the next caller expects it, and no broadcast
\* is repeated, wherever a call fails or is dropped.
Consistent == TypeOK /\ BroadcastOnce /\ PermitInUse

\* The endpoint is spared: silence while it limits, and the interval always.
EndpointSpared == SilentWhileLimited /\ Spaced

\* The backoff falls back to its first level only when a request was answered the
\* whole settling time ago and none has met a limit since: a single probe that
\* succeeds does not, however long the backoff before it (limit.rs, succeeded).
BackoffSettles ==
    [][failures' < failures => proven # None /\ proven >= Settled]_vars

\* Every call ends.
CallEnds == \A c \in Callers : pc[c] # "idle" ~> pc[c] = "idle"
=============================================================================
