-------------------------- MODULE RateLimiterProofs --------------------------
(***************************************************************************)
(* What the rate limiter guarantees, for any number of threads and clients *)
(* and any limit, window and delay.                                        *)
(***************************************************************************)
EXTENDS RateLimiter, SequenceTheorems, TLAPS

\* A waiting thread has read the clock at most MaxDelay ago.
Waits ==
  \A t \in Threads : pc[t] = "waiting" => now[t] <= clock /\ clock <= now[t] + MaxDelay

\* No time stamp is of the future, and none is older than an earlier one by
\* more than the delay.
Ordered(stamps, time) ==
  \A i, j \in 1..Len(stamps) :
    /\ stamps[i] <= time
    /\ i <= j => stamps[i] <= stamps[j] + MaxDelay

StampsOrdered == \A k \in Clients : Ordered(admitted[k], clock)

IInv == TypeOK /\ Waits /\ StampsOrdered /\ NothingForgotten /\ WindowBound

-----------------------------------------------------------------------------
\* Facts about time stamps, the state of the limiter left aside.

LEMMA ConstantFacts ==
  /\ max_requests \in Nat /\ max_requests >= 1
  /\ window_seconds \in Nat /\ MaxDelay \in Nat
BY LimiterConstants DEF LimiterConstants

\* What popleft takes is out of the window.
LEMMA ExpiredTail ==
  ASSUME NEW queue \in Seq(Nat), NEW stamps \in Seq(Nat), NEW live \in Seq(Nat),
         NEW time \in Nat, NEW x \in Nat, x <= time,
         TailOf(queue, stamps, time),
         NEW n \in Nat, n <= Len(queue), Len(live) = Len(queue) - n,
         \A i \in 1..Len(live) : live[i] = queue[n + i],
         \A i \in 1..n : queue[i] <= x - window_seconds
  PROVE  TailOf(live, stamps, time)
<1> DEFINE dropped == Len(stamps) - Len(queue)
<1>1. /\ Len(queue) <= max_requests
      /\ dropped >= 0
      /\ \A i \in 1..Len(queue) : queue[i] = stamps[dropped + i]
      /\ \A i \in 1..dropped : stamps[i] <= time - window_seconds
  BY DEF TailOf
<1>2. dropped \in Nat /\ Len(stamps) = dropped + Len(queue)
  BY <1>1
<1> HIDE DEF dropped
<1>3. Len(stamps) - Len(live) = dropped + n
  BY <1>2
<1>4. ASSUME NEW i \in 1..Len(live)
      PROVE  live[i] = stamps[dropped + n + i]
  <2>1. n + i \in 1..Len(queue)
    OBVIOUS
  <2>2. dropped + (n + i) = dropped + n + i
    BY <1>2
  <2> QED
    BY <1>1, <2>1, <2>2
<1>5. ASSUME NEW i \in 1..dropped + n
      PROVE  stamps[i] <= time - window_seconds
  <2>1. CASE i <= dropped
    BY <1>1, <1>2, <2>1
  <2>2. CASE i > dropped
    <3>1. PICK j \in 1..n : i = dropped + j
      BY <1>2, <2>2
    <3>2. j \in 1..Len(queue)
      OBVIOUS
    <3>3. queue[j] = stamps[i] /\ queue[j] \in Nat /\ queue[j] <= x - window_seconds
      BY <1>1, <3>1, <3>2
    <3> QED
      BY <3>3, ConstantFacts
  <2> QED
    BY <1>2, <2>1, <2>2
<1>6. Len(live) <= max_requests /\ dropped + n >= 0
  BY <1>1, <1>2, ConstantFacts
<1> QED
  BY <1>3, <1>4, <1>5, <1>6 DEF TailOf

LEMMA AppendTail ==
  ASSUME NEW live \in Seq(Nat), NEW stamps \in Seq(Nat),
         NEW time \in Nat, NEW x \in Nat,
         TailOf(live, stamps, time), Len(live) < max_requests
  PROVE  TailOf(Append(live, x), Append(stamps, x), time)
<1> DEFINE dropped == Len(stamps) - Len(live)
           queue == Append(live, x)
           new   == Append(stamps, x)
<1>1. /\ dropped >= 0
      /\ \A i \in 1..Len(live) : live[i] = stamps[dropped + i]
      /\ \A i \in 1..dropped : stamps[i] <= time - window_seconds
  BY DEF TailOf
<1>2. dropped \in Nat /\ Len(stamps) = dropped + Len(live)
  BY <1>1
<1>3. /\ Len(queue) = Len(live) + 1 /\ Len(new) = Len(stamps) + 1
      /\ \A i \in 1..Len(live) : queue[i] = live[i]
      /\ \A i \in 1..Len(stamps) : new[i] = stamps[i]
      /\ queue[Len(live) + 1] = x /\ new[Len(stamps) + 1] = x
  BY AppendProperties
<1> HIDE DEF dropped, queue, new
<1>4. Len(new) - Len(queue) = dropped
  BY <1>2, <1>3
<1>5. ASSUME NEW i \in 1..Len(live) + 1
      PROVE  queue[i] = new[dropped + i]
  <2>1. CASE i <= Len(live)
    <3>1. i \in 1..Len(live) /\ dropped + i \in 1..Len(stamps)
      BY <1>2, <2>1
    <3> QED
      BY <1>1, <1>3, <3>1
  <2>2. CASE i = Len(live) + 1
    <3>1. dropped + i = Len(stamps) + 1
      BY <1>2, <2>2
    <3> QED
      BY <1>3, <2>2, <3>1
  <2> QED
    BY <2>1, <2>2
<1>6. ASSUME NEW i \in 1..dropped
      PROVE  new[i] <= time - window_seconds
  <2>1. i \in 1..Len(stamps)
    BY <1>2
  <2> QED
    BY <1>1, <1>3, <2>1
<1>7. Len(queue) <= max_requests
  BY <1>3, ConstantFacts
<1> QED
  BY <1>1, <1>3, <1>4, <1>5, <1>6, <1>7 DEF TailOf, queue, new

LEMMA AppendOrdered ==
  ASSUME NEW stamps \in Seq(Nat), NEW time \in Nat, NEW x \in Nat,
         Ordered(stamps, time), x <= time, time <= x + MaxDelay
  PROVE  Ordered(Append(stamps, x), time)
<1> DEFINE new == Append(stamps, x)
<1>1. /\ Len(new) = Len(stamps) + 1
      /\ \A i \in 1..Len(stamps) : new[i] = stamps[i] /\ stamps[i] \in Nat
      /\ new[Len(stamps) + 1] = x
  BY AppendProperties
<1> HIDE DEF new
<1> SUFFICES ASSUME NEW i \in 1..Len(stamps) + 1, NEW j \in 1..Len(stamps) + 1
             PROVE  /\ new[i] <= time
                    /\ i <= j => new[i] <= new[j] + MaxDelay
  BY <1>1 DEF Ordered, new
<1>2. new[i] <= time /\ new[i] \in Nat
  <2>1. CASE i \in 1..Len(stamps)
    BY <1>1, <2>1 DEF Ordered
  <2>2. CASE i = Len(stamps) + 1
    BY <1>1, <2>2
  <2> QED
    BY <2>1, <2>2
<1>3. CASE j \in 1..Len(stamps) /\ i <= j
  <2>1. i \in 1..Len(stamps)
    BY <1>3
  <2> QED
    BY <1>1, <1>2, <1>3, <2>1 DEF Ordered
<1>4. CASE j = Len(stamps) + 1
  BY <1>1, <1>2, <1>4, ConstantFacts
<1> QED
  BY <1>2, <1>3, <1>4

\* A request that finds room may be admitted: what is max_requests before it is
\* no longer in the deque, hence out of the window.
LEMMA AppendSpaced ==
  ASSUME NEW live \in Seq(Nat), NEW stamps \in Seq(Nat),
         NEW time \in Nat, NEW x \in Nat, time <= x + MaxDelay,
         TailOf(live, stamps, time), Len(live) < max_requests, Spaced(stamps)
  PROVE  Spaced(Append(stamps, x))
<1> DEFINE new == Append(stamps, x)
<1>1. /\ Len(new) = Len(stamps) + 1
      /\ \A i \in 1..Len(stamps) : new[i] = stamps[i] /\ stamps[i] \in Nat
      /\ new[Len(stamps) + 1] = x
  BY AppendProperties
<1> HIDE DEF new
<1> SUFFICES ASSUME NEW i \in 1..Len(stamps) + 1, NEW j \in 1..Len(stamps) + 1,
                    j >= i + max_requests
             PROVE  new[j] >= new[i] + window_seconds - MaxDelay
  BY <1>1 DEF Spaced, new
<1>2. i \in 1..Len(stamps)
  BY ConstantFacts
<1>3. CASE j \in 1..Len(stamps)
  BY <1>1, <1>2, <1>3 DEF Spaced
<1>4. CASE j = Len(stamps) + 1
  <2>1. i \in 1..Len(stamps) - Len(live)
    BY <1>2, <1>4, ConstantFacts
  <2>2. stamps[i] <= time - window_seconds
    BY <2>1 DEF TailOf
  <2> QED
    BY <1>1, <1>2, <1>4, <2>2, ConstantFacts
<1> QED
  BY <1>3, <1>4

\* A request that finds none has the last max_requests ones against it: the
\* front of the deque is in its window, the others are not much older.
LEMMA FullTail ==
  ASSUME NEW live \in Seq(Nat), NEW stamps \in Seq(Nat),
         NEW time \in Nat, NEW cutoff \in Int,
         TailOf(live, stamps, time), Ordered(stamps, time),
         ~(Len(live) < max_requests), live[1] > cutoff
  PROVE  /\ Len(stamps) >= max_requests
         /\ \A i \in Len(stamps) - max_requests + 1 .. Len(stamps) :
              stamps[i] > cutoff - MaxDelay
<1> DEFINE dropped == Len(stamps) - Len(live)
<1>1. /\ Len(live) = max_requests
      /\ dropped >= 0
      /\ 1 \in 1..Len(live)
      /\ \A i \in 1..Len(live) : live[i] = stamps[dropped + i]
  BY ConstantFacts DEF TailOf
<1>2. dropped \in Nat /\ Len(stamps) = dropped + max_requests
  BY <1>1
<1> HIDE DEF dropped
<1>3. stamps[dropped + 1] > cutoff /\ dropped + 1 \in 1..Len(stamps)
  BY <1>1, <1>2, ConstantFacts
<1>4. ASSUME NEW i \in dropped + 1 .. Len(stamps)
      PROVE  stamps[i] > cutoff - MaxDelay
  <2>1. i \in 1..Len(stamps) /\ dropped + 1 <= i
    BY <1>2
  <2>2. stamps[dropped + 1] <= stamps[i] + MaxDelay
    BY <1>3, <2>1 DEF Ordered
  <2>3. stamps[i] \in Nat /\ stamps[dropped + 1] \in Nat
    BY <1>3, <2>1
  <2> QED
    BY <1>3, <2>2, <2>3, ConstantFacts
<1>5. Len(stamps) - max_requests + 1 = dropped + 1
  BY <1>2, ConstantFacts
<1> QED
  BY <1>2, <1>4, <1>5, ConstantFacts

-----------------------------------------------------------------------------

\* The deque of a waiting thread's client after n events have expired.
LEMMA LiveFacts ==
  ASSUME IInv, NEW t \in Threads, pc[t] = "waiting",
         NEW n \in 0..Len(events[key[t]]), Expired(events[key[t]], Cutoff(t), n)
  PROVE  LET k == key[t]
         IN  /\ k \in Clients
             /\ admitted[k] \in Seq(Nat)
             /\ Live(k, n) \in Seq(Nat)
             /\ now[t] \in Nat /\ clock \in Nat
             /\ now[t] <= clock /\ clock <= now[t] + MaxDelay
             /\ TailOf(Live(k, n), admitted[k], clock)
             /\ Len(Live(k, n)) > 0 => Live(k, n)[1] > Cutoff(t)
<1> DEFINE k == key[t]
           live == Live(k, n)
<1>1. /\ k \in Clients
      /\ admitted[k] \in Seq(Nat) /\ events[k] \in Seq(Nat)
      /\ now[t] \in Nat /\ clock \in Nat
      /\ now[t] <= clock /\ clock <= now[t] + MaxDelay
  BY DEF IInv, TypeOK, Waits
<1>2. n \in Nat /\ n <= Len(events[k]) /\ Len(events[k]) \in Nat
  BY <1>1
<1>3. \A i \in n + 1..Len(events[k]) : events[k][i] \in Nat
  BY <1>1, <1>2
<1>4. /\ live \in Seq(Nat)
      /\ Len(live) = IF n + 1 <= Len(events[k]) THEN Len(events[k]) - (n + 1) + 1 ELSE 0
      /\ \A i \in 1..Len(events[k]) - (n + 1) + 1 : live[i] = events[k][n + 1 + i - 1]
  BY <1>2, <1>3, SubSeqProperties DEF Live
<1>5. TailOf(events[k], admitted[k], clock)
  BY <1>1 DEF IInv, NothingForgotten
<1>6. \A i \in 1..n : events[k][i] <= now[t] - window_seconds
  BY DEF Expired, Cutoff
<1>7. n < Len(events[k]) => events[k][n + 1] > Cutoff(t)
  BY DEF Expired
<1> HIDE DEF live, k
<1>8. Len(live) = Len(events[k]) - n
  BY <1>2, <1>4
<1>9. ASSUME NEW i \in 1..Len(live)
      PROVE  live[i] = events[k][n + i]
  <2>1. i \in 1..Len(events[k]) - (n + 1) + 1 /\ n + 1 + i - 1 = n + i
    BY <1>2, <1>8
  <2> QED
    BY <1>4, <2>1
<1>10. TailOf(live, admitted[k], clock)
  BY <1>1, <1>2, <1>4, <1>5, <1>6, <1>8, <1>9, ExpiredTail
<1>11. ASSUME Len(live) > 0
       PROVE  live[1] > Cutoff(t)
  <2>1. 1 \in 1..Len(live) /\ n < Len(events[k])
    BY <1>2, <1>8, <1>11
  <2>2. live[1] = events[k][n + 1]
    BY <1>9, <2>1
  <2> QED
    BY <1>7, <2>1, <2>2
<1> QED
  BY <1>1, <1>4, <1>10, <1>11 DEF live, k

LEMMA IInvInit == Init => IInv
BY LimiterConstants
   DEF Init, IInv, TypeOK, Waits, StampsOrdered, Ordered, NothingForgotten, TailOf,
       WindowBound, Spaced, LimiterConstants

LEMMA TickStep ==
  ASSUME IInv, Tick
  PROVE  IInv'
<1>1. /\ clock' = clock + 1
      /\ UNCHANGED <<events, pc, key, now, admitted>>
      /\ clock \in Nat
  BY DEF IInv, TypeOK, Tick
<1>2. TypeOK'
  BY <1>1 DEF IInv, TypeOK
<1>3. Waits'
  BY <1>1, ConstantFacts DEF IInv, TypeOK, Waits, Tick
<1>4. ASSUME NEW k \in Clients
      PROVE  Ordered(admitted[k], clock + 1) /\ TailOf(events[k], admitted[k], clock + 1)
  <2>1. /\ Ordered(admitted[k], clock)
        /\ TailOf(events[k], admitted[k], clock)
        /\ admitted[k] \in Seq(Nat) /\ events[k] \in Seq(Nat)
    BY DEF IInv, TypeOK, StampsOrdered, NothingForgotten
  <2>2. Ordered(admitted[k], clock + 1)
    <3> SUFFICES ASSUME NEW i \in 1..Len(admitted[k]), NEW j \in 1..Len(admitted[k])
                 PROVE  /\ admitted[k][i] <= clock + 1
                        /\ i <= j => admitted[k][i] <= admitted[k][j] + MaxDelay
      BY DEF Ordered
    <3>1. admitted[k][i] \in Nat
      BY <2>1
    <3>2. /\ admitted[k][i] <= clock
          /\ i <= j => admitted[k][i] <= admitted[k][j] + MaxDelay
      BY <2>1 DEF Ordered
    <3> QED
      BY <1>1, <3>1, <3>2
  <2>3. \A i \in 1..Len(admitted[k]) - Len(events[k]) :
          admitted[k][i] <= (clock + 1) - window_seconds
    <3> SUFFICES ASSUME NEW i \in 1..Len(admitted[k]) - Len(events[k])
                 PROVE  admitted[k][i] <= (clock + 1) - window_seconds
      OBVIOUS
    <3>1. admitted[k][i] \in Nat
      <4>1. Len(events[k]) \in Nat /\ Len(admitted[k]) \in Nat
        BY <2>1
      <4>2. i \in 1..Len(admitted[k])
        BY <4>1
      <4> QED
        BY <2>1, <4>2
    <3>2. admitted[k][i] <= clock - window_seconds
      BY <2>1 DEF TailOf
    <3> QED
      BY <1>1, <3>1, <3>2, ConstantFacts
  <2>4. /\ Len(events[k]) <= max_requests
        /\ Len(admitted[k]) - Len(events[k]) >= 0
        /\ \A i \in 1..Len(events[k]) :
             events[k][i] = admitted[k][Len(admitted[k]) - Len(events[k]) + i]
    BY <2>1, Zenon DEF TailOf
  <2>5. TailOf(events[k], admitted[k], clock + 1)
    BY <2>3, <2>4, Zenon DEF TailOf
  <2> QED
    BY <2>2, <2>5
<1>5. WindowBound'
  BY <1>1 DEF IInv, WindowBound
<1> QED
  BY <1>1, <1>2, <1>3, <1>4, <1>5 DEF IInv, StampsOrdered, NothingForgotten

LEMMA ReadClockStep ==
  ASSUME IInv, NEW t \in Threads, NEW k \in Clients, ReadClock(t, k)
  PROVE  IInv'
<1>1. UNCHANGED <<clock, events, admitted>>
  BY DEF ReadClock
<1>2. TypeOK' /\ Waits'
  BY <1>1, ConstantFacts DEF IInv, TypeOK, Waits, ReadClock
<1>3. StampsOrdered' /\ NothingForgotten' /\ WindowBound'
  BY <1>1 DEF IInv, StampsOrdered, NothingForgotten, WindowBound
<1> QED
  BY <1>2, <1>3 DEF IInv

LEMMA AdmitStep ==
  ASSUME IInv, NEW t \in Threads, Admit(t)
  PROVE  IInv'
<1> DEFINE k == key[t]
<1>1. PICK n \in 0..Len(events[k]) :
        /\ Expired(events[k], Cutoff(t), n)
        /\ Room(Live(k, n))
        /\ events' = [events EXCEPT ![k] = Append(Live(k, n), now[t])]
  BY DEF Admit
<1> DEFINE live == Live(k, n)
<1>2. /\ pc[t] = "waiting"
      /\ admitted' = [admitted EXCEPT ![k] = Append(admitted[k], now[t])]
      /\ pc' = [pc EXCEPT ![t] = "idle"]
      /\ UNCHANGED <<clock, key, now>>
  BY DEF Admit, Decided
<1>3. /\ k \in Clients
      /\ admitted[k] \in Seq(Nat)
      /\ live \in Seq(Nat)
      /\ now[t] \in Nat /\ clock \in Nat
      /\ now[t] <= clock /\ clock <= now[t] + MaxDelay
      /\ TailOf(live, admitted[k], clock)
  BY <1>1, <1>2, LiveFacts
<1>4. Len(live) < max_requests /\ events' = [events EXCEPT ![k] = Append(live, now[t])]
  BY <1>1 DEF Room
<1> HIDE DEF live, k
<1>5. Append(live, now[t]) \in Seq(Nat) /\ Append(admitted[k], now[t]) \in Seq(Nat)
  BY <1>3, AppendProperties
<1>6. TypeOK /\ TypeOK'
  BY <1>2, <1>3, <1>4, <1>5 DEF IInv, TypeOK
<1>7. /\ events'[k] = Append(live, now[t])
      /\ admitted'[k] = Append(admitted[k], now[t])
      /\ \A c \in Clients \ {k} : events'[c] = events[c] /\ admitted'[c] = admitted[c]
  BY <1>2, <1>3, <1>4, <1>6 DEF TypeOK
<1>8. Waits'
  BY <1>2, <1>6 DEF IInv, TypeOK, Waits
<1>9. /\ Ordered(admitted'[k], clock)
      /\ TailOf(events'[k], admitted'[k], clock)
      /\ Spaced(admitted'[k])
  <2>1. Ordered(admitted[k], clock) /\ Spaced(admitted[k])
    BY <1>3 DEF IInv, StampsOrdered, WindowBound
  <2> QED
    BY <1>3, <1>4, <1>7, <2>1, AppendOrdered, AppendTail, AppendSpaced
<1> QED
  BY <1>2, <1>6, <1>7, <1>8, <1>9 DEF IInv, StampsOrdered, NothingForgotten, WindowBound

LEMMA RefuseStep ==
  ASSUME IInv, NEW t \in Threads, Refuse(t)
  PROVE  IInv'
<1> DEFINE k == key[t]
<1>1. PICK n \in 0..Len(events[k]) :
        /\ Expired(events[k], Cutoff(t), n)
        /\ events' = [events EXCEPT ![k] = Live(k, n)]
  BY DEF Refuse
<1> DEFINE live == Live(k, n)
<1>2. /\ pc[t] = "waiting"
      /\ pc' = [pc EXCEPT ![t] = "idle"]
      /\ UNCHANGED <<clock, key, now, admitted>>
  BY DEF Refuse, Decided
<1>3. k \in Clients /\ live \in Seq(Nat) /\ TailOf(live, admitted[k], clock)
  BY <1>1, <1>2, LiveFacts
<1>4. events' = [events EXCEPT ![k] = live]
  BY <1>1
<1> HIDE DEF live, k
<1>5. TypeOK /\ TypeOK'
  BY <1>2, <1>3, <1>4 DEF IInv, TypeOK
<1>6. events'[k] = live /\ \A c \in Clients \ {k} : events'[c] = events[c]
  BY <1>3, <1>4, <1>5 DEF TypeOK
<1>7. Waits' /\ StampsOrdered' /\ WindowBound'
  BY <1>2, <1>5 DEF IInv, TypeOK, Waits, StampsOrdered, WindowBound
<1>8. NothingForgotten'
  BY <1>2, <1>3, <1>6 DEF IInv, NothingForgotten
<1> QED
  BY <1>5, <1>7, <1>8 DEF IInv

LEMMA IInvNext == IInv /\ [Next]_vars => IInv'
<1> SUFFICES ASSUME IInv, [Next]_vars
             PROVE  IInv'
  OBVIOUS
<1>1. CASE UNCHANGED vars
  BY <1>1 DEF vars, IInv, TypeOK, Waits, StampsOrdered, NothingForgotten, WindowBound
<1>2. CASE Next
  BY <1>2, TickStep, ReadClockStep, AdmitStep, RefuseStep DEF Next
<1> QED
  BY <1>1, <1>2

LEMMA IInvHolds == Spec => []IInv
BY IInvInit, IInvNext, PTL DEF Spec

-----------------------------------------------------------------------------

\* The deques hold time stamps and each thread serves a client.
THEOREM TypeCorrect == Spec => []TypeOK
<1>1. IInv => TypeOK
  BY DEF IInv
<1> QED
  BY <1>1, IInvHolds, PTL

\* allow keeps to max_requests in any window shortened by the longest wait for
\* the lock; when nobody waits, in any window.
THEOREM WindowKept == Spec => []WindowBound
<1>1. IInv => WindowBound
  BY DEF IInv
<1> QED
  BY <1>1, IInvHolds, PTL

\* The deque of allow is the tail of what it admitted; what popleft took is out
\* of the window, although the stamps are not in order.
THEOREM TailKept == Spec => []NothingForgotten
<1>1. IInv => NothingForgotten
  BY DEF IInv
<1> QED
  BY <1>1, IInvHolds, PTL

\* A waiting thread that is done without an admission has refused.
LEMMA RefuseIsTheStep ==
  ASSUME IInv, [Next]_vars, NEW t \in Threads,
         pc[t] = "waiting", pc'[t] = "idle", admitted' = admitted
  PROVE  Refuse(t)
<1>1. pc' # pc
  OBVIOUS
<1>2. ASSUME NEW u \in Threads, Admit(u)
      PROVE  FALSE
  <2>1. /\ admitted[key[u]] \in Seq(Nat) /\ now[u] \in Nat /\ key[u] \in Clients
        /\ admitted \in [Clients -> Seq(Nat)]
    BY DEF IInv, TypeOK
  <2>2. admitted'[key[u]] = Append(admitted[key[u]], now[u])
    BY <1>2, <2>1 DEF Admit
  <2>3. Len(Append(admitted[key[u]], now[u])) = Len(admitted[key[u]]) + 1
    BY <2>1, AppendProperties
  <2> QED
    BY <2>1, <2>2, <2>3
<1>3. ASSUME NEW u \in Threads, NEW k \in Clients, ReadClock(u, k)
      PROVE  FALSE
  BY <1>3 DEF ReadClock, IInv, TypeOK
<1>4. ASSUME NEW u \in Threads, Refuse(u)
      PROVE  Refuse(t)
  BY <1>4 DEF Refuse, Decided, IInv, TypeOK
<1>5. ~Tick /\ ~UNCHANGED vars
  BY <1>1 DEF Tick, vars
<1> QED
  BY <1>2, <1>3, <1>4, <1>5 DEF Next

\* allow refuses no request that has room: the bound on the number it counts is
\* not filled by refused or by long expired ones.
THEOREM RefusalsDue == Spec => NoEarlyRefusal
<1> DEFINE Due ==
      \A k \in Clients : \A t \in Threads : RefusedOf(k, t) =>
        LET last == Len(admitted[k])
        IN  /\ last >= max_requests
            /\ \A i \in last - max_requests + 1 .. last :
                 admitted[k][i] > now[t] - window_seconds - MaxDelay
<1>1. ASSUME IInv, [Next]_vars
      PROVE  Due
  <2> SUFFICES ASSUME NEW k \in Clients, NEW t \in Threads, RefusedOf(k, t)
               PROVE  /\ Len(admitted[k]) >= max_requests
                      /\ \A i \in Len(admitted[k]) - max_requests + 1 .. Len(admitted[k]) :
                           admitted[k][i] > now[t] - window_seconds - MaxDelay
    OBVIOUS
  <2>1. pc[t] = "waiting" /\ key[t] = k /\ pc'[t] = "idle" /\ admitted' = admitted
    BY DEF RefusedOf
  <2>2. Refuse(t)
    BY <1>1, <2>1, RefuseIsTheStep
  <2>3. PICK n \in 0..Len(events[key[t]]) :
          Expired(events[key[t]], Cutoff(t), n) /\ ~Room(Live(key[t], n))
    BY <2>2 DEF Refuse
  <2> DEFINE live == Live(key[t], n)
  <2>4. /\ admitted[k] \in Seq(Nat)
        /\ live \in Seq(Nat)
        /\ now[t] \in Nat /\ clock \in Nat
        /\ TailOf(live, admitted[k], clock)
        /\ Len(live) > 0 => live[1] > Cutoff(t)
    BY <1>1, <2>1, <2>3, LiveFacts
  <2>5. ~(Len(live) < max_requests)
    BY <2>3 DEF Room
  <2> HIDE DEF live
  <2>6. Ordered(admitted[k], clock)
    BY <1>1 DEF IInv, StampsOrdered
  <2>7. live[1] > Cutoff(t) /\ Cutoff(t) \in Int
    BY <2>4, <2>5, ConstantFacts DEF Cutoff
  <2> QED
    BY <2>4, <2>5, <2>6, <2>7, FullTail DEF Cutoff
<1> HIDE DEF Due
<1>2. Spec => [][Due]_vars
  BY <1>1, IInvHolds, PTL DEF Spec
<1> QED
  BY <1>2 DEF Due, NoEarlyRefusal

=============================================================================
