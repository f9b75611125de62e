----------------------------- MODULE RateLimiter -----------------------------
(***************************************************************************)
(* rate_limit.py: the sliding window that guards the creation of URLs.     *)
(*                                                                         *)
(* Requests are served by a pool of threads.  allow reads the clock first  *)
(* and takes the lock afterwards, so the clock goes on, and other threads  *)
(* decide, between the two.  All that follows is done under the lock and   *)
(* is one step.                                                            *)
(*                                                                         *)
(* The code puts no bound on the wait for the lock.  MaxDelay stands for   *)
(* the longest one that occurs, and the properties say what it costs.      *)
(***************************************************************************)
EXTENDS Integers, Sequences

CONSTANTS
  Threads,
  Clients,           \* the keys: hosts of clients
  max_requests,
  window_seconds,
  MaxDelay,          \* the longest wait for the lock
  MaxTime            \* bound: the clock stops there

ASSUME LimiterConstants ==
  /\ max_requests \in Nat \ {0}
  /\ window_seconds \in Nat \ {0}
  /\ MaxDelay \in Nat
  /\ MaxTime \in Nat

VARIABLES
  clock,      \* time.monotonic()
  events,     \* the deque of each client
  pc,         \* "idle" or "waiting", for the lock
  key,        \* the client whose request the thread serves
  now,        \* when the thread read the clock
  admitted    \* history: every time stamp ever admitted, as decided

vars == <<clock, events, pc, key, now, admitted>>

TypeOK ==
  /\ clock    \in Nat
  /\ events   \in [Clients -> Seq(Nat)]
  /\ pc       \in [Threads -> {"idle", "waiting"}]
  /\ key      \in [Threads -> Clients]
  /\ now      \in [Threads -> Nat]
  /\ admitted \in [Clients -> Seq(Nat)]

Init ==
  /\ clock    = 0
  /\ events   = [k \in Clients |-> <<>>]
  /\ pc       = [t \in Threads |-> "idle"]
  /\ key      \in [Threads -> Clients]
  /\ now      = [t \in Threads |-> 0]
  /\ admitted = [k \in Clients |-> <<>>]

Tick ==
  /\ clock < MaxTime
  /\ \A t \in Threads : pc[t] = "waiting" => clock < now[t] + MaxDelay
  /\ clock' = clock + 1
  /\ UNCHANGED <<events, pc, key, now, admitted>>

\* now = time.monotonic()
ReadClock(t, k) ==
  /\ pc[t] = "idle"
  /\ pc'  = [pc EXCEPT ![t] = "waiting"]
  /\ key' = [key EXCEPT ![t] = k]
  /\ now' = [now EXCEPT ![t] = clock]
  /\ UNCHANGED <<clock, events, admitted>>

\* The loop of popleft takes the first n of these events.
Expired(stamps, cutoff, n) ==
  /\ \A i \in 1..n : stamps[i] <= cutoff
  /\ n < Len(stamps) => stamps[n + 1] > cutoff

Cutoff(t) == now[t] - window_seconds

Live(k, n) == SubSeq(events[k], n + 1, Len(events[k]))

\* Faulty variant of Room: one request too many.
RoomOver(live) == Len(live) <= max_requests

Room(live) == Len(live) < max_requests

\* The lock is released and the request is decided.
Decided(t) ==
  /\ pc' = [pc EXCEPT ![t] = "idle"]
  /\ UNCHANGED <<clock, key, now>>

\* Faulty variant of Admit: the cutoff is stored in place of the time.
AdmitCutoff(t) ==
  LET k == key[t]
  IN  /\ pc[t] = "waiting"
      /\ \E n \in 0..Len(events[k]) :
           /\ Expired(events[k], Cutoff(t), n)
           /\ Room(Live(k, n))
           /\ events' = [events EXCEPT ![k] = Append(Live(k, n), Cutoff(t))]
      /\ admitted' = [admitted EXCEPT ![k] = Append(@, now[t])]
      /\ Decided(t)

Admit(t) ==
  LET k == key[t]
  IN  /\ pc[t] = "waiting"
      /\ \E n \in 0..Len(events[k]) :
           /\ Expired(events[k], Cutoff(t), n)
           /\ Room(Live(k, n))
           /\ events' = [events EXCEPT ![k] = Append(Live(k, n), now[t])]
      /\ admitted' = [admitted EXCEPT ![k] = Append(@, now[t])]
      /\ Decided(t)

\* Faulty variant of Refuse: what is refused is counted too.
RefuseCounted(t) ==
  LET k == key[t]
  IN  /\ pc[t] = "waiting"
      /\ \E n \in 0..Len(events[k]) :
           /\ Expired(events[k], Cutoff(t), n)
           /\ ~Room(Live(k, n))
           /\ events' = [events EXCEPT ![k] = Append(Live(k, n), now[t])]
      /\ UNCHANGED admitted
      /\ Decided(t)

Refuse(t) ==
  LET k == key[t]
  IN  /\ pc[t] = "waiting"
      /\ \E n \in 0..Len(events[k]) :
           /\ Expired(events[k], Cutoff(t), n)
           /\ ~Room(Live(k, n))
           /\ events' = [events EXCEPT ![k] = Live(k, n)]
      /\ UNCHANGED admitted
      /\ Decided(t)

Next ==
  \/ Tick
  \/ \E t \in Threads :
       (\E k \in Clients : ReadClock(t, k)) \/ Admit(t) \/ Refuse(t)

Spec == Init /\ [][Next]_vars

-----------------------------------------------------------------------------

\* Of any two of these with max_requests - 1 others between them, the later one
\* is later by the window less the delay.
Spaced(stamps) ==
  \A i, j \in 1..Len(stamps) :
    j >= i + max_requests => stamps[j] >= stamps[i] + window_seconds - MaxDelay

\* allow admits at most max_requests requests of a client in any window, but
\* for what waiting for the lock takes off the window.
WindowBound == \A k \in Clients : Spaced(admitted[k])

RefusedOf(k, t) ==
  /\ pc[t] = "waiting" /\ pc'[t] = "idle" /\ key[t] = k
  /\ admitted' = admitted

\* allow refuses a request only if the last max_requests admitted ones of its
\* client are all in its window, or older by no more than the delay: what was
\* refused before, and what has expired behind a later time stamp, do not keep
\* a client out.
NoEarlyRefusal ==
  [][\A k \in Clients : \A t \in Threads : RefusedOf(k, t) =>
       LET last == Len(admitted[k])
       IN  /\ last >= max_requests
           /\ \A i \in last - max_requests + 1 .. last :
                admitted[k][i] > now[t] - window_seconds - MaxDelay
    ]_vars

TailOf(queue, stamps, time) ==
  LET dropped == Len(stamps) - Len(queue)
  IN  /\ Len(queue) <= max_requests
      /\ dropped >= 0
      /\ \A i \in 1..Len(queue) : queue[i] = stamps[dropped + i]
      /\ \A i \in 1..dropped : stamps[i] <= time - window_seconds

\* The deque is the tail of what was admitted, never longer than max_requests,
\* and what it has dropped has left the window: requests that are refused leave
\* no trace, and none that counts is forgotten.
NothingForgotten ==
  \A k \in Clients : TailOf(events[k], admitted[k], clock)

=============================================================================
