----------------------------- MODULE AtomicStore -----------------------------
(***************************************************************************)
(* What the orchestrator relies on when it calls its store: "Atomic JSON   *)
(* state store suitable for a single prototype process".  Each call takes  *)
(* effect at one moment between being asked and being answered, on all     *)
(* runs at once; a call that raises has had no effect; and when the        *)
(* process dies, what had taken effect stays and nothing else ever does.   *)
(***************************************************************************)
EXTENDS StoreCalls

VARIABLES
  runs,       \* the payload of each run
  call,       \* what each thread has asked for
  stage,      \* whether its call has taken effect
  seen        \* the runs it has read, when it has

vars == <<runs, call, stage, seen>>

Init ==
  /\ runs  = [r \in RunIds |-> None]
  /\ call  = [t \in Threads |-> None]
  /\ stage = [t \in Threads |-> "idle"]
  /\ seen  = [t \in Threads |-> NothingSeen]

Ask(t, c) ==
  /\ stage[t] = "idle"
  /\ stage' = [stage EXCEPT ![t] = "asked"]
  /\ call' = [call EXCEPT ![t] = c]
  /\ UNCHANGED <<runs, seen>>

TakeEffect(t) ==
  /\ stage[t] = "asked"
  /\ stage' = [stage EXCEPT ![t] = "done"]
  /\ runs' = IF call[t].op = "save"
             THEN [runs EXCEPT ![call[t].id] = call[t].payload] ELSE runs
  /\ seen' = [seen EXCEPT ![t] = Reads(call[t], runs)]
  /\ UNCHANGED call

Forget(t) ==
  /\ stage' = [stage EXCEPT ![t] = "idle"]
  /\ call' = [call EXCEPT ![t] = None]
  /\ seen' = [seen EXCEPT ![t] = NothingSeen]
  /\ UNCHANGED runs

Answer(t) == stage[t] = "done" /\ Forget(t)

Fail(t) == stage[t] = "asked" /\ Forget(t)

Die ==
  /\ call'  = [t \in Threads |-> None]
  /\ stage' = [t \in Threads |-> "idle"]
  /\ seen'  = [t \in Threads |-> NothingSeen]
  /\ UNCHANGED runs

Next ==
  \/ \E t \in Threads :
       (\E c \in Calls : Ask(t, c)) \/ TakeEffect(t) \/ Answer(t) \/ Fail(t)
  \/ Die

Spec == Init /\ [][Next]_vars

=============================================================================
