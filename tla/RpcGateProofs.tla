--------------------------- MODULE RpcGateProofs ---------------------------
(***************************************************************************)
(* The gate spares the endpoint, for every number of callers and every     *)
(* setting.  What the code relies on without saying so is the second part  *)
(* of GateInv: only the holder of the permit can meet a rate limit, so     *)
(* nobody waits for its slot while a cooldown runs, and the third look at  *)
(* it in acquire never refuses.                                            *)
(***************************************************************************)
EXTENDS RpcGate, SequenceTheorems, TLAPS

TypeInv ==
    /\ interval \in Intervals /\ wait \in Nat /\ cooldown \in Nat /\ failures \in Nat
    /\ quiet \in Nat /\ owed \in Nat /\ sinceSent \in Nat
    /\ permit \in Callers \cup {None}
    /\ pc \in [Callers -> {"idle", "begin", "queued", "spacing", "flight", "napping"}]

Holding(c) == pc[c] \in {"spacing", "flight"}

\* Not even the deadline of a hint is forgotten while somebody may send.
LimitInv ==
    /\ quiet <= cooldown
    /\ \A c \in Callers : pc[c] = "spacing" => cooldown = 0
    /\ \A c \in Callers : pc[c] = "flight" => quiet = 0

\* What is left to wait and what has passed make up the interval that was owed.
SlotInv == wait + sinceSent >= owed

GateInv == TypeInv /\ PermitInUse /\ LimitInv /\ SlotInv

-----------------------------------------------------------------------------
(* What a call does to the gate, told apart by the change of its pc. *)

\* The backoff is a time.
LEMMA BackoffIsNat == ASSUME NEW n \in Nat PROVE Backoff(n) \in Nat
<1>1. Smaller(n, 4) + 1 \in 1..5
  BY DEF Smaller
<1>2. <<1, 2, 4, 8, 16>>[Smaller(n, 4) + 1] \in Nat
  BY <1>1
<1>3. Base \in Nat /\ Longest \in Nat
  BY GateAssumption
<1>4. ASSUME NEW a \in Nat, NEW b \in Nat PROVE Smaller(a, b) \in Nat /\ a * b \in Nat
  BY DEF Smaller
<1> QED
  BY <1>2, <1>3, <1>4 DEF Backoff

\* A step of the gate's clock.
LEMMA TickKeeps == GateInv /\ Tick => GateInv'
<1> SUFFICES ASSUME GateInv, Tick PROVE GateInv'
  OBVIOUS
<1> USE GateAssumption DEF GateInv, TypeInv, PermitInUse, LimitInv, SlotInv, Tick, Less, Smaller, flight
<1>1. TypeInv' /\ PermitInUse'
  OBVIOUS
<1>2. LimitInv'
  OBVIOUS
<1>3. SlotInv'
  OBVIOUS
<1> QED
  BY <1>1, <1>2, <1>3

\* A client joins.
LEMMA JoinKeeps == ASSUME GateInv, Join PROVE GateInv'
<1>1. interval' \in Intervals
  BY GateAssumption DEF Join, Larger, GateInv, TypeInv
<1> QED
  BY <1>1 DEF Join, flight, calls, ghosts, GateInv, TypeInv, PermitInUse, LimitInv, SlotInv

\* A call moves on without sending, and takes the permit only when it is free.
LEMMA CallKeeps ==
    ASSUME GateInv, NEW c \in Callers, Call(c) \/ Begin(c) \/ Wake(c)
    PROVE  GateInv'
<1> USE DEF GateInv, TypeInv, PermitInUse, LimitInv, SlotInv, Return, Move, gate, flight, ghosts
<1>1. CASE Call(c)
  BY <1>1 DEF Call
<1>2. CASE Begin(c)
  BY <1>2 DEF Begin
<1>3. CASE Wake(c)
  BY <1>3 DEF Wake
<1> QED
  BY <1>1, <1>2, <1>3

\* A granted slot keeps the gate consistent,
LEMMA GrantKeeps ==
    ASSUME GateInv, NEW c \in Callers, Grant(c)
    PROVE  GateInv'
<1> USE DEF GateInv, TypeInv, PermitInUse, LimitInv, SlotInv, Return, Move, gate, Grant
<1>1. CASE cooldown > 0
  BY <1>1
<1>2. CASE ~(cooldown > 0)
  BY <1>2, GateAssumption
<1> QED
  BY <1>1, <1>2

\* The request leaves: the slot begins anew, and no hint is running.
LEMMA DispatchKeeps ==
    ASSUME GateInv, NEW c \in Callers, Dispatch(c)
    PROVE  GateInv'
BY GateAssumption DEF GateInv, TypeInv, PermitInUse, LimitInv, SlotInv, Dispatch, flight

\* A call ends or naps; the permit it may hold is free again.
LEMMA EndKeeps ==
    ASSUME GateInv, NEW c \in Callers,
           QueueTimeout(c) \/ Refused(c) \/ TransportFails(c) \/ Cancel(c)
    PROVE  GateInv'
<1> USE DEF GateInv, TypeInv, PermitInUse, LimitInv, SlotInv, Return, Release, gate
<1>1. CASE QueueTimeout(c)
  BY <1>1 DEF QueueTimeout
<1>2. CASE Refused(c)
  BY <1>2 DEF Refused
<1>3. CASE TransportFails(c)
  BY <1>3 DEF TransportFails
<1>4. CASE Cancel(c)
  BY <1>4 DEF Cancel
<1> QED
  BY <1>1, <1>2, <1>3, <1>4

\* Success clears the cooldown: no hint is running while its holder is in flight.
LEMMA AnsweredKeeps ==
    ASSUME GateInv, NEW c \in Callers, Answered(c)
    PROVE  GateInv'
BY GateAssumption
DEF GateInv, TypeInv, PermitInUse, LimitInv, SlotInv, Answered, Succeeded, Return, Release

\* A rate limit is met by the holder, so nobody else is waiting for a slot.
LEMMA RateLimitedKeeps ==
    ASSUME GateInv, NEW c \in Callers, RateLimited(c)
    PROVE  GateInv'
<1>1. PICK asked \in RetryAfters :
        Limited(asked) /\ quiet' = Larger(asked, Larger(quiet, Backoff(failures)))
  BY DEF RateLimited
<1>2. asked \in Nat /\ Backoff(failures) \in Nat /\ MaxFailures \in Nat
  BY GateAssumption, BackoffIsNat DEF GateInv, TypeInv
<1>3. quiet = 0
  BY DEF GateInv, LimitInv, RateLimited
<1>4. quiet' \in Nat /\ cooldown' \in Nat /\ quiet' <= cooldown' /\ failures' \in Nat
  BY <1>1, <1>2, <1>3 DEF Limited, Larger, Smaller, GateInv, TypeInv
<1>5. permit = c /\ \A e \in Callers : e # c => pc[e] \notin {"spacing", "flight"}
  BY DEF RateLimited, GateInv, PermitInUse
<1>6. pc' = [pc EXCEPT ![c] = "idle"] /\ permit' = None
  BY <1>5 DEF RateLimited, Return, Release
<1>7. UNCHANGED <<interval, wait, owed, sinceSent>>
  BY DEF RateLimited
<1> QED
  BY <1>4, <1>5, <1>6, <1>7, GateAssumption
  DEF GateInv, TypeInv, PermitInUse, LimitInv, SlotInv

-----------------------------------------------------------------------------
\* It holds of a fresh gate,
LEMMA InitEstablishes == Init => GateInv
BY GateAssumption DEF Init, GateInv, TypeInv, PermitInUse, LimitInv, SlotInv

\* and every step keeps it.
LEMMA NextKeeps == GateInv /\ [Next]_vars => GateInv'
<1> SUFFICES ASSUME GateInv, [Next]_vars PROVE GateInv'
  OBVIOUS
<1>1. CASE Tick \/ Join
  BY <1>1, TickKeeps, JoinKeeps
<1>2. ASSUME NEW c \in Callers, Call(c) \/ Request(c) \/ Cancel(c) PROVE GateInv'
  BY <1>2, CallKeeps, GrantKeeps, DispatchKeeps, EndKeeps, AnsweredKeeps, RateLimitedKeeps
  DEF Request, Ends
<1>3. CASE UNCHANGED vars
  BY <1>3 DEF vars, gate, flight, calls, ghosts, GateInv, TypeInv, PermitInUse, LimitInv, SlotInv
<1> QED
  BY <1>1, <1>2, <1>3 DEF Next

\* The inductive invariant.
THEOREM GateInvariant == Spec => []GateInv
<1>1. Init => GateInv
  BY InitEstablishes
<1>2. GateInv /\ [Next]_vars => GateInv'
  BY NextKeeps
<1> QED
  BY <1>1, <1>2, PTL DEF Spec

\* No permit is lost or shared, wherever a caller is dropped (limit.rs, acquire).
THEOREM PermitNeverLost == Spec => []PermitInUse
<1>1. GateInv => PermitInUse
  BY DEF GateInv
<1> QED
  BY <1>1, GateInvariant, PTL

\* Whoever sends a request is in Dispatch.
LEMMA OnlyDispatchSends ==
    ASSUME GateInv, [Next]_vars, Dispatches
    PROVE  \E c \in Callers : Dispatch(c)
<1> SUFFICES ASSUME ~\E c \in Callers : Dispatch(c)
             PROVE  \A e \in Callers : pc'[e] = "flight" => pc[e] = "flight"
  BY DEF Dispatches
<1> USE DEF GateInv, TypeInv
<1>1. CASE Tick \/ Join
  BY <1>1 DEF Tick, Join, calls
<1>2. CASE UNCHANGED vars
  BY <1>2 DEF vars, calls
<1>3. ASSUME NEW c \in Callers, Call(c) \/ Begin(c) \/ Grant(c) \/ Wake(c)
      PROVE  \A e \in Callers : pc'[e] = "flight" => pc[e] = "flight"
  BY <1>3 DEF Call, Begin, Grant, Wake, Return, Move
<1>4. ASSUME NEW c \in Callers, QueueTimeout(c) \/ Ends(c) \/ Cancel(c)
      PROVE  \A e \in Callers : pc'[e] = "flight" => pc[e] = "flight"
  BY <1>4 DEF QueueTimeout, Ends, Answered, Refused, RateLimited, TransportFails, Cancel, Return
<1> QED
  BY <1>1, <1>2, <1>3, <1>4 DEF Next, Request

\* Nothing is sent while the provider or the backoff wants silence, nor before the
\* interval is over (limit.rs, acquire and limited).
THEOREM EndpointIsSpared == Spec => EndpointSpared
<1>1. ASSUME GateInv, [Next]_vars PROVE Dispatches => quiet = 0 /\ sinceSent >= owed
  <2> SUFFICES ASSUME Dispatches PROVE quiet = 0 /\ sinceSent >= owed
    OBVIOUS
  <2>1. PICK c \in Callers : Dispatch(c)
    BY <1>1, OnlyDispatchSends
  <2> QED
    BY <1>1, <2>1, GateAssumption DEF Dispatch, GateInv, TypeInv, LimitInv, SlotInv
<1>2. GateInv /\ [Next]_vars => [Dispatches => quiet = 0]_vars
  BY <1>1
<1>3. GateInv /\ [Next]_vars => [Dispatches => sinceSent >= owed]_vars
  BY <1>1
<1> QED
  BY <1>2, <1>3, GateInvariant, PTL DEF Spec, EndpointSpared, SilentWhileLimited, Spaced

-----------------------------------------------------------------------------
(* The calls: who waits, and what an attempt has sent. *)

CallTypes ==
    /\ wait <= interval /\ failures <= MaxFailures
    /\ healthy \in 0..Settled \cup {None} /\ proven \in 0..Settled \cup {None}
    /\ owed <= interval /\ sinceSent <= owed
    /\ kind \in [Callers -> {"read", "broadcast"}]
    /\ attempt \in [Callers -> 0..Attempts] /\ left \in [Callers -> Nat]
    /\ sent \in [Callers -> 0..2]

\* Those who wait for the permit stand in the queue once, and nobody else does.
QueueInv ==
    /\ queue \in Seq(Callers) /\ IsInjective(queue)
    /\ \A i \in DOMAIN queue : pc[queue[i]] = "queued"
    /\ \A c \in Callers : pc[c] = "queued" => \E i \in DOMAIN queue : queue[i] = c

\* A broadcast has one attempt, and has sent nothing before it is in flight.
AttemptInv ==
    \A c \in Callers :
        /\ pc[c] = "idle" => attempt[c] = 0 /\ sent[c] = 0
        /\ pc[c] \in {"begin", "napping"} => attempt[c] < AttemptsOf(kind[c])
        /\ pc[c] \in {"queued", "spacing", "flight"} => attempt[c] \in 1..AttemptsOf(kind[c])
        /\ kind[c] = "broadcast" => sent[c] <= IF pc[c] = "flight" THEN 1 ELSE 0

\* The success that counts is no older than the first one no limit followed.
SettleInv == healthy # None => proven # None /\ healthy <= proven

CallInv == CallTypes /\ QueueInv /\ AttemptInv /\ SettleInv

\* A caller taken out of the queue leaves the others as they stood.
LEMMA RemovedOnce ==
    ASSUME NEW q \in Seq(Callers), IsInjective(q), NEW i \in DOMAIN q
    PROVE  /\ RemoveAt(q, i) \in Seq(Callers) /\ IsInjective(RemoveAt(q, i))
           /\ \A j \in DOMAIN RemoveAt(q, i) :
                 RemoveAt(q, i)[j] # q[i] /\ \E k \in DOMAIN q : RemoveAt(q, i)[j] = q[k]
           /\ \A k \in DOMAIN q : k # i => \E j \in DOMAIN RemoveAt(q, i) : RemoveAt(q, i)[j] = q[k]
<1> DEFINE r == RemoveAt(q, i)
<1>1. Len(q) \in Nat /\ DOMAIN q = 1..Len(q) /\ i \in 1..Len(q)
  BY LenProperties
<1>2. r \in Seq(Callers) /\ Len(r) = Len(q) - 1 /\ DOMAIN r = 1..(Len(q) - 1)
      /\ \A j \in 1..(Len(q) - 1) : r[j] = IF j < i THEN q[j] ELSE q[j + 1]
  <2> DEFINE front == SubSeq(q, 1, i - 1)
             back == SubSeq(q, i + 1, Len(q))
  <2>1. /\ front \in Seq(Callers) /\ Len(front) = i - 1
        /\ \A j \in 1..(i - 1) : front[j] = q[j]
    BY <1>1, SubSeqProperties
  <2>2. /\ back \in Seq(Callers) /\ Len(back) = Len(q) - i
        /\ \A j \in 1..(Len(q) - i) : back[j] = q[i + j]
    BY <1>1, SubSeqProperties
  <2>3. r = front \o back
    BY DEF RemoveAt
  <2> HIDE DEF front, back, r
  <2>4. /\ r \in Seq(Callers) /\ Len(r) = Len(front) + Len(back)
        /\ \A j \in 1..(Len(front) + Len(back)) :
              r[j] = IF j <= Len(front) THEN front[j] ELSE back[j - Len(front)]
    BY <2>1, <2>2, <2>3, ConcatProperties
  <2>5. Len(r) = Len(q) - 1
    BY <1>1, <2>1, <2>2, <2>4
  <2>6. ASSUME NEW j \in 1..(Len(q) - 1) PROVE r[j] = IF j < i THEN q[j] ELSE q[j + 1]
    <3>1. CASE j < i
      BY <1>1, <2>1, <2>2, <2>4, <3>1
    <3>2. CASE ~(j < i)
      <4>1. j - (i - 1) \in 1..(Len(q) - i) /\ i + (j - (i - 1)) = j + 1
        BY <1>1, <3>2
      <4>2. r[j] = back[j - (i - 1)]
        BY <1>1, <2>1, <2>2, <2>4, <3>2
      <4> QED BY <2>2, <3>2, <4>1, <4>2
    <3> QED BY <3>1, <3>2
  <2> QED BY <2>4, <2>5, <2>6, LenProperties
<1>3. \A a, b \in 1..Len(q) : q[a] = q[b] => a = b
  BY <1>1 DEF IsInjective
<1> HIDE DEF r
<1>4. IsInjective(r)
  BY <1>1, <1>2, <1>3 DEF IsInjective
<1>5. ASSUME NEW j \in DOMAIN r PROVE r[j] # q[i] /\ \E k \in DOMAIN q : r[j] = q[k]
  <2>1. CASE j < i
    BY <1>1, <1>2, <1>3, <2>1
  <2>2. CASE ~(j < i)
    <3>1. j + 1 \in 1..Len(q) /\ j + 1 # i /\ r[j] = q[j + 1]
      BY <1>1, <1>2, <2>2
    <3> QED BY <1>1, <1>3, <3>1
  <2> QED BY <2>1, <2>2
<1>6. ASSUME NEW k \in DOMAIN q, k # i PROVE \E j \in DOMAIN r : r[j] = q[k]
  <2>1. CASE k < i
    <3>1. k \in DOMAIN r /\ r[k] = q[k]
      BY <1>1, <1>2, <2>1
    <3> QED BY <3>1
  <2>2. CASE k > i
    <3>1. k - 1 \in DOMAIN r /\ r[k - 1] = q[(k - 1) + 1] /\ (k - 1) + 1 = k
      BY <1>1, <1>2, <2>2
    <3> QED BY <3>1
  <2> QED BY <1>1, <1>6, <2>1, <2>2
<1> QED BY <1>2, <1>4, <1>5, <1>6 DEF r

\* A caller that leaves the queue keeps the order of the others.
LEMMA LeaveKeeps ==
    ASSUME GateInv, QueueInv, NEW c \in Callers, Leave(c),
           NEW step, step # "queued", pc' = [pc EXCEPT ![c] = step]
    PROVE  QueueInv'
<1>1. pc \in [Callers -> {"idle", "begin", "queued", "spacing", "flight", "napping"}]
  BY DEF GateInv, TypeInv
<1>2. /\ queue \in Seq(Callers) /\ IsInjective(queue) /\ DOMAIN queue = 1..Len(queue)
      /\ \A i \in DOMAIN queue : pc[queue[i]] = "queued" /\ queue[i] \in Callers
  BY LenProperties DEF QueueInv
<1>3. CASE \E i \in DOMAIN queue : queue[i] = c
  <2>1. PICK i \in DOMAIN queue : queue[i] = c /\ queue' = RemoveAt(queue, i)
    BY <1>3 DEF Leave
  <2>2. /\ queue' \in Seq(Callers) /\ IsInjective(queue')
        /\ \A j \in DOMAIN queue' :
              queue'[j] # c /\ \E k \in DOMAIN queue : queue'[j] = queue[k]
        /\ \A k \in DOMAIN queue : k # i => \E j \in DOMAIN queue' : queue'[j] = queue[k]
    <3>1. /\ RemoveAt(queue, i) \in Seq(Callers) /\ IsInjective(RemoveAt(queue, i))
          /\ \A j \in DOMAIN RemoveAt(queue, i) :
                /\ RemoveAt(queue, i)[j] # queue[i]
                /\ \E k \in DOMAIN queue : RemoveAt(queue, i)[j] = queue[k]
          /\ \A k \in DOMAIN queue : k # i =>
                \E j \in DOMAIN RemoveAt(queue, i) : RemoveAt(queue, i)[j] = queue[k]
      BY <1>2, RemovedOnce
    <3> QED BY <2>1, <3>1
  <2>3. \A j \in DOMAIN queue' : pc'[queue'[j]] = "queued"
    BY <1>1, <1>2, <2>2
  <2>4. ASSUME NEW e \in Callers, pc'[e] = "queued" PROVE \E j \in DOMAIN queue' : queue'[j] = e
    <3>1. e # c /\ pc[e] = "queued"
      BY <1>1, <2>4
    <3>2. PICK k \in DOMAIN queue : queue[k] = e
      BY <3>1 DEF QueueInv
    <3> QED BY <2>1, <2>2, <3>1, <3>2
  <2> QED BY <2>2, <2>3, <2>4 DEF QueueInv
<1>4. CASE ~\E i \in DOMAIN queue : queue[i] = c
  <2>1. queue' = queue
    BY <1>4 DEF Leave
  <2>2. \A i \in DOMAIN queue' : pc'[queue'[i]] = "queued"
    BY <1>1, <1>2, <1>4, <2>1
  <2>3. \A e \in Callers : pc'[e] = "queued" => pc[e] = "queued"
    BY <1>1
  <2> QED BY <2>1, <2>2, <2>3 DEF QueueInv
<1> QED BY <1>3, <1>4

\* Every step keeps the queue in order.
LEMMA QueueKeeps == ASSUME GateInv, QueueInv, Next PROVE QueueInv'
<1>1. pc \in [Callers -> {"idle", "begin", "queued", "spacing", "flight", "napping"}]
  BY DEF GateInv, TypeInv
<1>2. /\ queue \in Seq(Callers) /\ IsInjective(queue) /\ DOMAIN queue = 1..Len(queue)
      /\ Len(queue) \in Nat
      /\ \A i \in DOMAIN queue : pc[queue[i]] = "queued" /\ queue[i] \in Callers
  BY LenProperties DEF QueueInv
<1>3. CASE Tick \/ Join
  BY <1>3 DEF Tick, Join, flight, calls, QueueInv
<1>4. ASSUME NEW c \in Callers, Begin(c) PROVE QueueInv'
  <2>1. CASE cooldown > 0
    <3>1. queue' = queue /\ pc' = [pc EXCEPT ![c] = "idle"] /\ pc[c] = "begin"
      BY <1>4, <2>1 DEF Begin, Return
    <3> QED BY <1>1, <1>2, <3>1 DEF QueueInv
  <2>2. CASE ~(cooldown > 0)
    <3>1. queue' = Append(queue, c) /\ pc' = [pc EXCEPT ![c] = "queued"] /\ pc[c] = "begin"
      BY <1>4, <2>2 DEF Begin
    <3>2. /\ queue' \in Seq(Callers) /\ DOMAIN queue' = 1..(Len(queue) + 1)
          /\ \A i \in 1..Len(queue) : queue'[i] = queue[i]
          /\ queue'[Len(queue) + 1] = c
      BY <1>2, <3>1, AppendProperties, LenProperties
    <3>3. \A i \in DOMAIN queue' : i \in 1..Len(queue) \/ i = Len(queue) + 1
      BY <1>2, <3>2
    <3>4. \A i \in 1..Len(queue) : queue[i] # c
      BY <1>2, <3>1
    <3>5. IsInjective(queue')
      BY <1>2, <3>2, <3>3, <3>4 DEF IsInjective
    <3>6. \A i \in DOMAIN queue' : pc'[queue'[i]] = "queued"
      BY <1>1, <1>2, <3>1, <3>2, <3>3
    <3>7. \A e \in Callers : pc'[e] = "queued" => \E i \in DOMAIN queue' : queue'[i] = e
      <4>1. \A i \in DOMAIN queue : i \in DOMAIN queue' /\ queue'[i] = queue[i]
        BY <1>2, <3>2
      <4>2. Len(queue) + 1 \in DOMAIN queue'
        BY <1>2, <3>2
      <4> QED BY <1>1, <3>1, <3>2, <4>1, <4>2 DEF QueueInv
    <3> QED BY <3>2, <3>5, <3>6, <3>7 DEF QueueInv
  <2> QED BY <2>1, <2>2
<1>5. ASSUME NEW c \in Callers, Grant(c) PROVE QueueInv'
  <2>1. /\ pc[c] = "queued" /\ queue' = Tail(queue) /\ Head(queue) = c
        /\ \E step \in {"idle", "spacing"} : pc' = [pc EXCEPT ![c] = step]
    BY <1>5 DEF Grant, Return, Move
  <2>2. queue # <<>> /\ 1 \in DOMAIN queue /\ queue[1] = c
    BY <1>2, <2>1, HeadTailProperties, EmptySeq DEF QueueInv
  <2>3. /\ queue' \in Seq(Callers) /\ DOMAIN queue' = 1..(Len(queue) - 1)
        /\ \A i \in 1..(Len(queue) - 1) : queue'[i] = queue[i + 1]
    BY <1>2, <2>1, <2>2, HeadTailProperties, LenProperties
  <2>4. \A i \in DOMAIN queue' : i + 1 \in DOMAIN queue /\ queue'[i] = queue[i + 1] /\ i + 1 # 1
    BY <1>2, <2>3
  <2>5. \A a, b \in DOMAIN queue : queue[a] = queue[b] => a = b
    BY <1>2 DEF IsInjective
  <2>6. IsInjective(queue')
    <3>1. \A a, b \in DOMAIN queue' : queue'[a] = queue'[b] => a + 1 = b + 1
      BY <2>4, <2>5
    <3>2. \A a \in DOMAIN queue' : a \in Int
      BY <2>3
    <3> QED BY <3>1, <3>2 DEF IsInjective
  <2>7. \A i \in DOMAIN queue' : queue'[i] # c
    BY <2>2, <2>4, <2>5
  <2>8. \A i \in DOMAIN queue' : pc'[queue'[i]] = "queued"
    BY <1>1, <1>2, <2>1, <2>4, <2>7
  <2>9. ASSUME NEW e \in Callers, pc'[e] = "queued" PROVE \E j \in DOMAIN queue' : queue'[j] = e
    <3>1. e # c /\ pc[e] = "queued"
      BY <1>1, <2>1, <2>9
    <3>2. PICK k \in DOMAIN queue : queue[k] = e
      BY <3>1 DEF QueueInv
    <3>3. k - 1 \in DOMAIN queue' /\ (k - 1) + 1 = k
      BY <1>2, <2>2, <2>3, <3>1, <3>2
    <3> QED BY <2>4, <3>2, <3>3
  <2> QED BY <2>3, <2>6, <2>8, <2>9 DEF QueueInv
<1>6. ASSUME NEW c \in Callers, QueueTimeout(c) \/ Cancel(c) PROVE QueueInv'
  <2>1. Leave(c) /\ pc' = [pc EXCEPT ![c] = "idle"]
    BY <1>6 DEF QueueTimeout, Cancel, Return
  <2> QED BY <2>1, LeaveKeeps
<1>7. ASSUME NEW c \in Callers, Call(c) \/ Dispatch(c) \/ Ends(c) \/ Wake(c) PROVE QueueInv'
  <2>1. /\ queue' = queue /\ pc[c] # "queued"
        /\ \E step \in {"idle", "begin", "flight", "napping"} : pc' = [pc EXCEPT ![c] = step]
    BY <1>7 DEF Call, Dispatch, Ends, Answered, Refused, RateLimited, TransportFails, Wake,
       Return, Move, flight
  <2> QED BY <1>1, <1>2, <2>1 DEF QueueInv
<1> QED BY <1>3, <1>4, <1>5, <1>6, <1>7 DEF Next, Request

\* Attempts are counted when they begin, and a dispatch when it happens.
LEMMA AttemptKeeps ==
    ASSUME GateInv, CallTypes, AttemptInv, Next
    PROVE  /\ AttemptInv'
           /\ kind' \in [Callers -> {"read", "broadcast"}]
           /\ attempt' \in [Callers -> 0..Attempts] /\ left' \in [Callers -> Nat]
           /\ sent' \in [Callers -> 0..2]
<1>1. /\ pc \in [Callers -> {"idle", "begin", "queued", "spacing", "flight", "napping"}]
      /\ kind \in [Callers -> {"read", "broadcast"}]
      /\ attempt \in [Callers -> 0..Attempts] /\ left \in [Callers -> Nat]
      /\ sent \in [Callers -> 0..2] /\ Attempts \in 1..3 /\ Budget \in Nat
  BY GateAssumption DEF GateInv, TypeInv, CallTypes
<1>2. CASE Tick
  BY <1>1, <1>2 DEF Tick, Less, AttemptInv, AttemptsOf
<1>10. CASE Join
  BY <1>1, <1>10 DEF Join, calls, ghosts, AttemptInv, AttemptsOf
<1>3. ASSUME NEW c \in Callers, Return(c), pc' = [pc EXCEPT ![c] = "idle"]
      PROVE  /\ AttemptInv'
             /\ kind' \in [Callers -> {"read", "broadcast"}]
             /\ attempt' \in [Callers -> 0..Attempts] /\ left' \in [Callers -> Nat]
             /\ sent' \in [Callers -> 0..2]
  BY <1>1, <1>3 DEF Return, AttemptInv, AttemptsOf
<1>4. ASSUME NEW c \in Callers, Call(c)
      PROVE  /\ AttemptInv' /\ kind' \in [Callers -> {"read", "broadcast"}]
             /\ UNCHANGED <<attempt, left, sent>>
  <2>1. PICK k \in {"read", "broadcast"} : kind' = [kind EXCEPT ![c] = k]
    BY <1>4 DEF Call
  <2>2. /\ pc[c] = "idle" /\ pc' = [pc EXCEPT ![c] = "begin"]
        /\ UNCHANGED <<attempt, left, sent>>
    BY <1>4 DEF Call, ghosts
  <2> QED BY <1>1, <2>1, <2>2 DEF AttemptInv, AttemptsOf
<1>5. ASSUME NEW c \in Callers, Begin(c), ~Return(c)
      PROVE  /\ AttemptInv' /\ attempt' \in [Callers -> 0..Attempts]
             /\ left' \in [Callers -> Nat] /\ UNCHANGED <<kind, sent>>
  <2>1. /\ pc[c] = "begin" /\ pc' = [pc EXCEPT ![c] = "queued"]
        /\ attempt' = [attempt EXCEPT ![c] = attempt[c] + 1]
        /\ left' = [left EXCEPT ![c] = Budget] /\ UNCHANGED <<kind, sent>>
    BY <1>5 DEF Begin
  <2> QED BY <1>1, <2>1 DEF AttemptInv, AttemptsOf
<1>6. ASSUME NEW c \in Callers, Grant(c) \/ Wake(c), ~Return(c)
      PROVE  AttemptInv' /\ UNCHANGED <<kind, attempt, left, sent>>
  <2>1. /\ \/ pc[c] = "queued" /\ pc' = [pc EXCEPT ![c] = "spacing"]
           \/ pc[c] = "napping" /\ pc' = [pc EXCEPT ![c] = "begin"]
        /\ UNCHANGED <<kind, attempt, left, sent>>
    BY <1>6 DEF Grant, Wake, Move
  <2> QED BY <1>1, <2>1 DEF AttemptInv, AttemptsOf
<1>7. ASSUME NEW c \in Callers, Dispatch(c)
      PROVE  /\ AttemptInv' /\ sent' \in [Callers -> 0..2]
             /\ UNCHANGED <<kind, attempt, left>>
  <2>1. /\ pc[c] = "spacing" /\ pc' = [pc EXCEPT ![c] = "flight"]
        /\ sent' = [sent EXCEPT ![c] = Smaller(2, sent[c] + 1)]
        /\ UNCHANGED <<kind, attempt, left>>
    BY <1>7 DEF Dispatch
  <2> QED BY <1>1, <2>1 DEF AttemptInv, AttemptsOf, Smaller
<1>8. ASSUME NEW c \in Callers, TransportFails(c), ~Return(c)
      PROVE  /\ AttemptInv' /\ left' \in [Callers -> Nat]
             /\ UNCHANGED <<kind, attempt, sent>>
  <2>1. /\ pc[c] = "flight" /\ pc' = [pc EXCEPT ![c] = "napping"]
        /\ attempt[c] # AttemptsOf(kind[c])
        /\ left' = [left EXCEPT ![c] = Nap(attempt[c])] /\ UNCHANGED <<kind, attempt, sent>>
    BY <1>8 DEF TransportFails
  <2>2. attempt[c] \in 1..AttemptsOf(kind[c]) /\ AttemptsOf(kind[c]) \in 1..3
    BY <1>1, <2>1 DEF AttemptInv, AttemptsOf
  <2>3. attempt[c] < AttemptsOf(kind[c]) /\ kind[c] # "broadcast" /\ Nap(attempt[c]) \in Nat
    BY <1>1, <2>1, <2>2 DEF AttemptsOf, Nap
  <2> QED BY <1>1, <2>1, <2>3 DEF AttemptInv, AttemptsOf
<1>9. ASSUME NEW c \in Callers
      PROVE  /\ Begin(c) \/ Grant(c) \/ TransportFails(c) =>
                   (Return(c) => pc' = [pc EXCEPT ![c] = "idle"])
             /\ QueueTimeout(c) \/ Answered(c) \/ Refused(c) \/ RateLimited(c) \/ Cancel(c) =>
                   Return(c) /\ pc' = [pc EXCEPT ![c] = "idle"]
             /\ Wake(c) => ~Return(c)
  <2>1. Wake(c) => ~Return(c)
    BY <1>1 DEF Wake, Move, Return
  <2> QED BY <2>1 DEF QueueTimeout, Answered, Refused, RateLimited, Cancel, Return
<1> QED
  BY <1>1, <1>2, <1>3, <1>4, <1>5, <1>6, <1>7, <1>8, <1>9, <1>10 DEF Next, Request, Ends

\* The backoff is forgotten only by a success that is as old as the settling time.
LEMMA SettleKeeps ==
    ASSUME GateInv, CallTypes, SettleInv, Next
    PROVE  /\ SettleInv' /\ (failures' < failures => proven # None /\ proven >= Settled)
           /\ failures' <= MaxFailures
           /\ healthy' \in 0..Settled \cup {None} /\ proven' \in 0..Settled \cup {None}
<1>1. /\ None \notin Nat /\ Settled \in Nat \ {0} /\ MaxFailures \in Nat \ {0}
      /\ failures \in Nat /\ failures <= MaxFailures
      /\ healthy \in 0..Settled \cup {None} /\ proven \in 0..Settled \cup {None}
      /\ (healthy # None => proven # None /\ healthy <= proven)
  BY GateAssumption DEF GateInv, TypeInv, CallTypes, SettleInv
<1>2. CASE Tick
  <2>1. failures' = failures /\ healthy' = Older(healthy) /\ proven' = Older(proven)
    BY <1>2 DEF Tick
  <2> QED BY <1>1, <2>1 DEF Older, Smaller, SettleInv
<1>3. ASSUME NEW c \in Callers, Answered(c)
      PROVE  /\ healthy' = IF healthy = None THEN 0 ELSE healthy
             /\ failures' = IF healthy' >= Settled THEN 0 ELSE failures
             /\ proven' = IF proven = None THEN 0 ELSE proven
  BY <1>3 DEF Answered, Succeeded
<1>4. ASSUME NEW c \in Callers, RateLimited(c)
      PROVE  /\ healthy' = None /\ failures' = Smaller(MaxFailures, failures + 1)
             /\ proven' = None
  BY <1>4 DEF RateLimited, Limited
<1>5. ASSUME NEW c \in Callers,
             \/ Call(c) \/ Begin(c) \/ Grant(c) \/ Dispatch(c) \/ QueueTimeout(c)
             \/ Refused(c) \/ TransportFails(c) \/ Wake(c) \/ Cancel(c)
      PROVE  UNCHANGED <<failures, healthy, proven>>
  BY <1>5 DEF Call, Begin, Grant, Dispatch, QueueTimeout, Refused, TransportFails, Wake,
     Cancel, gate, ghosts
<1>6. Join => UNCHANGED <<failures, healthy, proven>>
  BY DEF Join, ghosts
<1>7. CASE \E c \in Callers : Answered(c)
  BY <1>1, <1>3, <1>7 DEF SettleInv
<1>8. CASE \E c \in Callers : RateLimited(c)
  BY <1>1, <1>4, <1>8 DEF SettleInv, Smaller
<1>9. CASE UNCHANGED <<failures, healthy, proven>>
  BY <1>1, <1>9 DEF SettleInv
<1> QED BY <1>2, <1>5, <1>6, <1>7, <1>8, <1>9 DEF Next, Request, Ends

\* No slot is longer than the interval, and the history of dispatches keeps pace.
LEMMA SlotKeeps ==
    ASSUME GateInv, CallTypes, Next
    PROVE  wait' <= interval' /\ owed' <= interval' /\ sinceSent' <= owed'
<1>1. /\ interval \in Nat /\ wait \in Nat /\ owed \in Nat /\ sinceSent \in Nat
      /\ wait <= interval /\ owed <= interval /\ sinceSent <= owed
  BY GateAssumption DEF GateInv, TypeInv, CallTypes
<1>2. CASE Tick
  BY <1>1, <1>2 DEF Tick, Less, Smaller
<1>3. CASE Join
  <2>1. PICK own \in Intervals : interval' = Larger(interval, own)
    BY <1>3 DEF Join
  <2>2. own \in Nat /\ UNCHANGED <<wait, owed, sinceSent>>
    BY <1>3, GateAssumption DEF Join, ghosts
  <2> QED BY <1>1, <2>1, <2>2 DEF Larger
<1>4. CASE \E c \in Callers : Dispatch(c)
  BY <1>1, <1>4 DEF Dispatch
<1>5. ASSUME NEW c \in Callers,
             \/ Call(c) \/ Begin(c) \/ Grant(c) \/ QueueTimeout(c) \/ Ends(c)
             \/ Wake(c) \/ Cancel(c)
      PROVE  UNCHANGED <<interval, wait, owed, sinceSent>>
  BY <1>5 DEF Call, Begin, Grant, QueueTimeout, Ends, Answered, Refused, RateLimited,
     TransportFails, Wake, Cancel, gate, ghosts
<1>6. CASE UNCHANGED <<interval, wait, owed, sinceSent>>
  BY <1>1, <1>6
<1> QED BY <1>2, <1>3, <1>4, <1>5, <1>6 DEF Next, Request

\* Every caller's attempt is accounted for, and its place in the queue.
THEOREM CallInvariant == Spec => []CallInv
<1>1. Init => CallInv
  <2> SUFFICES ASSUME Init PROVE CallInv
    OBVIOUS
  <2>1. CallTypes /\ SettleInv
    BY GateAssumption DEF Init, CallTypes, SettleInv
  <2>2. AttemptInv
    BY GateAssumption DEF Init, AttemptInv, AttemptsOf
  <2>3. QueueInv
    BY DEF Init, QueueInv, IsInjective
  <2> QED BY <2>1, <2>2, <2>3 DEF CallInv
<1>2. GateInv /\ GateInv' /\ CallInv /\ [Next]_vars => CallInv'
  <2> SUFFICES ASSUME GateInv, CallInv, [Next]_vars PROVE CallInv'
    OBVIOUS
  <2>1. CASE Next
    <3>1. QueueInv' /\ AttemptInv' /\ SettleInv'
      BY <2>1, QueueKeeps, AttemptKeeps, SettleKeeps DEF CallInv
    <3>2. CallTypes'
      BY <2>1, AttemptKeeps, SettleKeeps, SlotKeeps DEF CallInv, CallTypes
    <3> QED BY <3>1, <3>2 DEF CallInv
  <2>2. CASE UNCHANGED vars
    BY <2>2 DEF vars, gate, flight, calls, ghosts, CallInv, CallTypes, QueueInv, AttemptInv,
       SettleInv
  <2> QED BY <2>1, <2>2
<1> QED BY <1>1, <1>2, GateInvariant, PTL DEF Spec

\* No broadcast is repeated, no permit is lost and nobody queues twice, wherever a
\* call fails or is dropped (rpc.rs, request; limit.rs, acquire).
THEOREM GateConsistent == Spec => []Consistent
<1>1. GateInv /\ CallInv => Consistent
  <2> SUFFICES ASSUME GateInv, CallInv PROVE Consistent
    OBVIOUS
  <2>1. BroadcastOnce
    BY DEF CallInv, CallTypes, AttemptInv, BroadcastOnce
  <2>2. TypeOK
    BY GateAssumption DEF GateInv, TypeInv, CallInv, CallTypes, QueueInv, TypeOK
  <2> QED BY <2>1, <2>2 DEF GateInv, Consistent
<1> QED BY <1>1, GateInvariant, CallInvariant, PTL

\* A single probe that succeeds, after however long a backoff, does not reset the backoff (limit.rs, succeeded).
THEOREM BackoffAlwaysSettles == Spec => BackoffSettles
<1>1. GateInv /\ CallInv /\ [Next]_vars => [failures' < failures => proven # None /\ proven >= Settled]_vars
  BY SettleKeeps DEF CallInv
<1> QED BY <1>1, GateInvariant, CallInvariant, PTL DEF Spec, BackoffSettles
=============================================================================
