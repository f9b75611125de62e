------------------------- MODULE WorkflowStoreProofs -------------------------
(***************************************************************************)
(* The file of orchestration/store.py behaves as an atomic store, for any  *)
(* number of threads, runs and payloads, wherever a call fails or the      *)
(* process dies.                                                           *)
(***************************************************************************)
EXTENDS WorkflowStore, TLAPS

(***************************************************************************)
(* The inductive invariant.  The lock is what makes a read stay true until *)
(* the rename; but its owner is known by where the threads are, and only a *)
(* call of save comes to the steps that write.                             *)
(***************************************************************************)
Writing == {"open", "write", "replace"}

LockOwned == \A t \in Threads : lock = t <=> pc[t] \in Locked

OnlySavesWrite == \A t \in Threads : pc[t] \in Writing => call[t] \in Saves

IInv == TypeOK /\ LockOwned /\ OnlySavesWrite /\ FileWhole /\ SavesMerge

LEMMA ContentsType ==
  ASSUME NEW f
  PROVE  /\ Contents(f) \in Items
         /\ f \in Items => Contents(f) = f
         /\ f \notin Items => Contents(f) = NoItems
BY DEF Contents, NoItems, Items

LEMMA CallKinds ==
  ASSUME NEW c \in Calls
  PROVE  /\ c.op = "save" => c \in Saves
         /\ c.op # "save" => c \in Gets \cup Alls
         /\ c \in Saves => c.op = "save" /\ c.id \in RunIds /\ c.payload \in Payloads
BY DEF Calls, Saves, Gets, Alls

\* What save puts in place of what it has read.
LEMMA SavedType ==
  ASSUME NEW c \in Saves, NEW items0 \in Items
  PROVE  [items0 EXCEPT ![c.id] = c.payload] \in Items
BY DEF Saves, Items

\* Two threads are never both between the read and the release.
LEMMA OneOwner ==
  ASSUME IInv, NEW t \in Threads, NEW u \in Threads,
         pc[t] \in Locked, pc[u] \in Locked
  PROVE  t = u
BY DEF IInv, LockOwned

LEMMA IInvInit == Init => IInv
BY StoreConstants
DEF Init, IInv, TypeOK, LockOwned, OnlySavesWrite, FileWhole, SavesMerge, Files,
    Items, NoItems, Locked, Writing, StoreConstants

\* A step that leaves the store alone, and what a writing thread relies on.
LEMMA CallStep ==
  ASSUME IInv, NEW t \in Threads, NEW c \in Calls, Call(t, c)
  PROVE  IInv'
<1>1. /\ TypeOK
      /\ pc[t] = "idle"
      /\ pc' = [pc EXCEPT ![t] = "acquire"]
      /\ call' = [call EXCEPT ![t] = c]
      /\ UNCHANGED <<file, temp, lock, items>>
  BY DEF IInv, Call, Goto
<1>2. TypeOK'
  BY <1>1, StoreConstants DEF TypeOK, StoreConstants
<1>3. LockOwned' /\ OnlySavesWrite' /\ SavesMerge'
  BY <1>1 DEF IInv, TypeOK, LockOwned, OnlySavesWrite, SavesMerge, Locked, Writing
<1> QED
  BY <1>1, <1>2, <1>3 DEF IInv, FileWhole

LEMMA AcquireStep ==
  ASSUME IInv, NEW t \in Threads, Acquire(t)
  PROVE  IInv'
<1>1. /\ TypeOK
      /\ pc[t] = "acquire" /\ lock = None
      /\ pc' = [pc EXCEPT ![t] = "load"]
      /\ lock' = t
      /\ UNCHANGED <<file, temp, call, items>>
  BY DEF IInv, Acquire, Goto
<1>2. TypeOK'
  BY <1>1 DEF TypeOK, Locked
<1>3. \A u \in Threads : pc[u] \notin Locked
  BY <1>1, StoreConstants DEF IInv, LockOwned, StoreConstants
<1>4. LockOwned' /\ OnlySavesWrite' /\ SavesMerge'
  BY <1>1, <1>3 DEF IInv, TypeOK, LockOwned, OnlySavesWrite, SavesMerge, Locked, Writing
<1> QED
  BY <1>1, <1>2, <1>4 DEF IInv, FileWhole

LEMMA LoadStep ==
  ASSUME IInv, NEW t \in Threads, Load(t)
  PROVE  IInv'
<1> DEFINE read    == Contents(file)
           changed == [read EXCEPT ![call[t].id] = call[t].payload]
<1>1. /\ TypeOK
      /\ pc[t] = "load"
      /\ UNCHANGED <<file, temp, lock, call>>
      /\ call[t] \in Calls
  BY DEF IInv, TypeOK, Load
<1>2. read \in Items
  BY ContentsType
<1>3. \A u \in Threads \ {t} : pc[u] \notin Locked
  BY <1>1, OneOwner DEF Locked
<1>4. CASE call[t].op = "save"
  <2>1. items' = [items EXCEPT ![t] = changed] /\ pc' = [pc EXCEPT ![t] = "open"]
    BY <1>4 DEF Load, Goto
  <2>2. call[t] \in Saves
    BY <1>1, <1>4, CallKinds
  <2>3. changed \in Items
    BY <1>2, <2>2, SavedType
  <2>4. TypeOK'
    BY <1>1, <2>1, <2>3 DEF TypeOK, Locked
  <2>5. LockOwned' /\ OnlySavesWrite'
    BY <1>1, <2>1, <2>2 DEF IInv, TypeOK, LockOwned, OnlySavesWrite, Locked, Writing
  <2>6. SavesMerge'
    <3> SUFFICES ASSUME NEW u \in Threads, pc'[u] \in Writing
                 PROVE  u = t
      BY <1>1, <2>1 DEF SavesMerge, Writing, TypeOK
    <3> QED
      BY <1>1, <1>3, <2>1 DEF TypeOK, Locked, Writing
  <2> QED
    BY <1>1, <2>4, <2>5, <2>6 DEF IInv, FileWhole
<1>5. CASE call[t].op # "save"
  <2>1. items' = [items EXCEPT ![t] = read] /\ pc' = [pc EXCEPT ![t] = "release"]
    BY <1>5 DEF Load, Goto
  <2>2. TypeOK'
    BY <1>1, <1>2, <2>1 DEF TypeOK, Locked
  <2>3. LockOwned' /\ OnlySavesWrite' /\ SavesMerge'
    BY <1>1, <1>3, <2>1
    DEF IInv, TypeOK, LockOwned, OnlySavesWrite, SavesMerge, Locked, Writing
  <2> QED
    BY <1>1, <2>2, <2>3 DEF IInv, FileWhole
<1> QED
  BY <1>4, <1>5

\* The two steps of write_text.
LEMMA TempStep ==
  ASSUME IInv, NEW t \in Threads, OpenTemp(t) \/ WriteTemp(t)
  PROVE  IInv'
<1>1. /\ TypeOK
      /\ pc[t] \in {"open", "write"}
      /\ temp' = (IF pc[t] = "open" THEN Partial ELSE items[t])
      /\ pc' = [pc EXCEPT ![t] = IF pc[t] = "open" THEN "write" ELSE "replace"]
      /\ UNCHANGED <<file, lock, call, items>>
  BY DEF IInv, OpenTemp, WriteTemp, Goto
<1>2. TypeOK'
  BY <1>1 DEF TypeOK, Locked, Files
<1>3. LockOwned' /\ OnlySavesWrite'
  BY <1>1 DEF IInv, TypeOK, LockOwned, OnlySavesWrite, Locked, Writing
<1>4. \A u \in Threads \ {t} : pc[u] \notin Locked
  BY <1>1, OneOwner DEF Locked
<1>5. SavesMerge'
  <2> SUFFICES ASSUME NEW u \in Threads, pc'[u] \in Writing
               PROVE  /\ items[u] = [Contents(file) EXCEPT ![call[u].id] = call[u].payload]
                      /\ pc'[u] = "replace" => temp' = items[u]
    BY <1>1 DEF SavesMerge, Writing
  <2>1. u = t
    BY <1>1, <1>4 DEF TypeOK, Locked, Writing
  <2> QED
    BY <1>1, <2>1 DEF IInv, SavesMerge, TypeOK
<1> QED
  BY <1>1, <1>2, <1>3, <1>5 DEF IInv, FileWhole

\* What replace puts in place.
LEMMA Replaced ==
  ASSUME IInv, NEW t \in Threads, Replace(t)
  PROVE  /\ call[t] \in Saves
         /\ file' \in Items
         /\ file' = [Contents(file) EXCEPT ![call[t].id] = call[t].payload]
<1>1. pc[t] = "replace" /\ file' = temp
  BY DEF Replace
<1>2. temp = items[t] /\ items[t] \in Items
  BY <1>1 DEF IInv, SavesMerge, TypeOK
<1> QED
  BY <1>1, <1>2 DEF IInv, SavesMerge, OnlySavesWrite, Writing

LEMMA ReplaceStep ==
  ASSUME IInv, NEW t \in Threads, Replace(t)
  PROVE  IInv'
<1>1. /\ TypeOK
      /\ pc[t] = "replace"
      /\ temp' = Missing
      /\ pc' = [pc EXCEPT ![t] = "release"]
      /\ UNCHANGED <<lock, call, items>>
  BY DEF IInv, Replace, Goto
<1>2. file' \in Items
  BY Replaced
<1>3. TypeOK' /\ FileWhole'
  BY <1>1, <1>2, StoreConstants DEF TypeOK, FileWhole, Files, Locked, StoreConstants
<1>4. \A u \in Threads \ {t} : pc[u] \notin Locked
  BY <1>1, OneOwner DEF Locked
<1>5. LockOwned' /\ OnlySavesWrite' /\ SavesMerge'
  BY <1>1, <1>4 DEF IInv, TypeOK, LockOwned, OnlySavesWrite, SavesMerge, Locked, Writing
<1> QED
  BY <1>3, <1>5 DEF IInv

\* The end of a call, in whatever way.
LEMMA LeaveStep ==
  ASSUME IInv, NEW t \in Threads, pc[t] \in Locked, Leave(t)
  PROVE  IInv'
<1>1. /\ TypeOK
      /\ pc' = [pc EXCEPT ![t] = "idle"]
      /\ lock' = None
      /\ call' = [call EXCEPT ![t] = None]
      /\ items' = [items EXCEPT ![t] = NoItems]
      /\ UNCHANGED <<file, temp>>
  BY DEF IInv, Leave, Goto
<1>2. TypeOK'
  BY <1>1 DEF TypeOK, Locked, Items, NoItems
<1>3. \A u \in Threads \ {t} : pc[u] \notin Locked
  BY OneOwner
<1>4. LockOwned' /\ OnlySavesWrite' /\ SavesMerge'
  BY <1>1, <1>3, StoreConstants
  DEF IInv, TypeOK, LockOwned, OnlySavesWrite, SavesMerge, Locked, Writing, StoreConstants
<1> QED
  BY <1>1, <1>2, <1>4 DEF IInv, FileWhole

LEMMA DieStep ==
  ASSUME IInv, Die
  PROVE  IInv'
BY StoreConstants
DEF Die, IInv, TypeOK, LockOwned, OnlySavesWrite, FileWhole, SavesMerge, Items,
    NoItems, Locked, Writing, StoreConstants

LEMMA IInvNext == IInv /\ [Next]_vars => IInv'
<1> SUFFICES ASSUME IInv, [Next]_vars
             PROVE  IInv'
  OBVIOUS
<1>1. CASE UNCHANGED vars
  BY <1>1 DEF vars, IInv, TypeOK, LockOwned, OnlySavesWrite, FileWhole, SavesMerge
<1>2. ASSUME NEW t \in Threads, NEW c \in Calls, Call(t, c)
      PROVE  IInv'
  BY <1>2, CallStep
<1>3. ASSUME NEW t \in Threads, Step(t) \/ Raise(t)
      PROVE  IInv'
  <2>1. CASE Release(t) \/ Raise(t)
    BY <2>1, LeaveStep DEF Release, Raise, Locked
  <2> QED
    BY <1>3, <2>1, AcquireStep, LoadStep, TempStep, ReplaceStep DEF Step
<1>4. CASE Die
  BY <1>4, DieStep
<1> QED
  BY <1>1, <1>2, <1>3, <1>4 DEF Next

LEMMA IInvHolds == Spec => []IInv
BY IInvInit, IInvNext, PTL DEF Spec

-----------------------------------------------------------------------------

\* The variables keep their types, whatever fails: the two files hold a whole
\* text, a part of one or nothing.
THEOREM TypeCorrect == Spec => []TypeOK
<1>1. IInv => TypeOK
  BY DEF IInv
<1> QED
  BY <1>1, IInvHolds, PTL

\* A crash at any moment leaves a store that the next process can read.
THEOREM FileKept == Spec => []FileWhole
<1>1. IInv => FileWhole
  BY DEF IInv
<1> QED
  BY <1>1, IInvHolds, PTL

\* From its read to its rename a save holds the store as it is, but for its
\* own run: no save of another run is lost.
THEOREM MergeKept == Spec => []SavesMerge
<1>1. IInv => SavesMerge
  BY DEF IInv
<1> QED
  BY <1>1, IInvHolds, PTL

-----------------------------------------------------------------------------
(***************************************************************************)
(* The refinement: which step of AtomicStore each step is.                 *)
(***************************************************************************)

\* Both modules speak of the same calls.
LEMMA SameCalls ==
  /\ Atomic!Calls = Calls
  /\ Atomic!NothingSeen = NothingSeen
  /\ \A c, i : Atomic!Reads(c, i) = Reads(c, i)
BY DEF Atomic!Calls, Atomic!Saves, Atomic!Gets, Atomic!Alls, Calls, Saves, Gets, Alls,
       Atomic!NothingSeen, NothingSeen, Atomic!Reads, Reads

\* A step of one thread, as the others are seen.
LEMMA OthersSeen ==
  ASSUME NEW t \in Threads,
         \A u \in Threads \ {t} : pc'[u] = pc[u] /\ call'[u] = call[u] /\ items'[u] = items[u]
  PROVE  /\ Stage' = [Stage EXCEPT ![t] = Stage'[t]]
         /\ Seen'  = [Seen EXCEPT ![t] = Seen'[t]]
BY DEF Stage, Seen

LEMMA CallAsks ==
  ASSUME IInv, NEW t \in Threads, NEW c \in Calls, Call(t, c)
  PROVE  Atomic!Ask(t, c)
<1>1. /\ pc[t] = "idle"
      /\ pc' = [pc EXCEPT ![t] = "acquire"]
      /\ call' = [call EXCEPT ![t] = c]
      /\ UNCHANGED <<file, items>>
      /\ pc'[t] = "acquire"
  BY DEF IInv, TypeOK, Call, Goto
<1>2. /\ Stage' = [Stage EXCEPT ![t] = Stage'[t]]
      /\ Seen'  = [Seen EXCEPT ![t] = Seen'[t]]
  BY <1>1, OthersSeen DEF IInv, TypeOK
<1>3. Stage[t] = "idle" /\ Stage'[t] = "asked" /\ Seen'[t] = Seen[t]
  BY <1>1 DEF Stage, Seen
<1>4. Seen' = Seen
  BY <1>2, <1>3 DEF Seen
<1> QED
  BY <1>1, <1>2, <1>3, <1>4 DEF Atomic!Ask, Contents

\* A step before or after which nothing can be seen of the call.
LEMMA StepUnseen ==
  ASSUME IInv, NEW t \in Threads,
         \/ Acquire(t) \/ OpenTemp(t) \/ WriteTemp(t)
         \/ Load(t) /\ call[t].op = "save"
  PROVE  UNCHANGED Atomic!vars
<1>1. /\ UNCHANGED <<file, call>>
      /\ \A u \in Threads : pc'[u] = "idle" <=> pc[u] = "idle"
      /\ \A u \in Threads : pc'[u] = "release" <=> pc[u] = "release"
      /\ \A u \in Threads : pc[u] = "release" => items'[u] = items[u]
  BY DEF IInv, TypeOK, Acquire, OpenTemp, WriteTemp, Load, Goto
<1>2. Stage' = Stage /\ Seen' = Seen
  BY <1>1 DEF Stage, Seen
<1> QED
  BY <1>1, <1>2 DEF Atomic!vars, Contents

\* The moment at which a call takes effect: a read reads, a save replaces.
LEMMA EffectTaken ==
  ASSUME IInv, NEW t \in Threads,
         Replace(t) \/ (Load(t) /\ call[t].op # "save")
  PROVE  Atomic!TakeEffect(t)
<1>1. /\ pc[t] \in {"load", "replace"}
      /\ pc'[t] = "release"
      /\ UNCHANGED call
      /\ \A u \in Threads \ {t} : pc'[u] = pc[u] /\ items'[u] = items[u]
  BY DEF IInv, TypeOK, Replace, Load, Goto
<1>2. /\ Stage' = [Stage EXCEPT ![t] = Stage'[t]]
      /\ Seen'  = [Seen EXCEPT ![t] = Seen'[t]]
  BY <1>1, OthersSeen
<1>3. /\ Stage[t] = "asked"
      /\ Stage'[t] = "done"
      /\ Seen'[t] = Reads(call[t], items'[t])
  BY <1>1 DEF Stage, Seen
<1>4. CASE Replace(t)
  <2>1. /\ call[t] \in Saves
        /\ Contents(file)' = [Contents(file) EXCEPT ![call[t].id] = call[t].payload]
    BY <1>4, Replaced, ContentsType DEF Contents
  <2>2. call[t].op = "save"
    BY <2>1 DEF Saves
  <2>3. Seen'[t] = Reads(call[t], Contents(file))
    BY <1>3, <2>2 DEF Reads
  <2> QED
    BY <1>1, <1>2, <1>3, <2>1, <2>2, <2>3, SameCalls DEF Atomic!TakeEffect
<1>5. CASE Load(t) /\ call[t].op # "save"
  <2>1. items'[t] = Contents(file) /\ UNCHANGED file
    BY <1>5 DEF IInv, TypeOK, Load
  <2>2. Contents(file)' = Contents(file)
    BY <2>1 DEF Contents
  <2> QED
    BY <1>1, <1>2, <1>3, <1>5, <2>1, <2>2, SameCalls DEF Atomic!TakeEffect
<1> QED
  BY <1>4, <1>5

\* The end of a call: answered if it had taken effect, failed if not.
LEMMA LeaveForgets ==
  ASSUME IInv, NEW t \in Threads, Leave(t), pc[t] \in Locked
  PROVE  /\ pc[t] = "release" => Atomic!Answer(t)
         /\ pc[t] # "release" => Atomic!Fail(t)
<1>1. /\ pc'[t] = "idle"
      /\ call' = [call EXCEPT ![t] = None]
      /\ UNCHANGED file
      /\ \A u \in Threads \ {t} : /\ pc'[u] = pc[u]
                                  /\ call'[u] = call[u]
                                  /\ items'[u] = items[u]
  BY DEF IInv, TypeOK, Leave, Goto
<1>2. /\ Stage' = [Stage EXCEPT ![t] = Stage'[t]]
      /\ Seen'  = [Seen EXCEPT ![t] = Seen'[t]]
  BY <1>1, OthersSeen
<1>3. Stage'[t] = "idle" /\ Seen'[t] = NothingSeen
  BY <1>1 DEF Stage, Seen
<1>4. Atomic!Forget(t)
  BY <1>1, <1>2, <1>3, SameCalls DEF Atomic!Forget, Contents
<1>5. Stage[t] = IF pc[t] = "release" THEN "done" ELSE "asked"
  BY DEF Stage, Locked
<1> QED
  BY <1>4, <1>5 DEF Atomic!Answer, Atomic!Fail

LEMMA DieForgets ==
  ASSUME Die
  PROVE  Atomic!Die
<1>1. Stage' = [t \in Threads |-> "idle"] /\ Seen' = [t \in Threads |-> NothingSeen]
  BY DEF Die, Stage, Seen
<1> QED
  BY <1>1, SameCalls DEF Die, Atomic!Die, Contents

LEMMA InitMaps == Init => Atomic!Init
<1> SUFFICES ASSUME Init
             PROVE  Atomic!Init
  OBVIOUS
<1>1. Contents(file) = [r \in RunIds |-> None]
  BY StoreConstants, ContentsType DEF Init, StoreConstants, NoItems
<1>2. Stage = [t \in Threads |-> "idle"] /\ Seen = [t \in Threads |-> NothingSeen]
  BY DEF Init, Stage, Seen
<1> QED
  BY <1>1, <1>2, SameCalls DEF Init, Atomic!Init

LEMMA NextMaps == IInv /\ [Next]_vars => [Atomic!Next]_(Atomic!vars)
<1> SUFFICES ASSUME IInv, [Next]_vars
             PROVE  [Atomic!Next]_(Atomic!vars)
  OBVIOUS
<1>1. CASE UNCHANGED vars
  BY <1>1 DEF vars, Atomic!vars, Contents, Stage, Seen
<1>2. ASSUME NEW t \in Threads, NEW c \in Calls, Call(t, c)
      PROVE  Atomic!Next
  BY <1>2, CallAsks, SameCalls DEF Atomic!Next
<1>3. ASSUME NEW t \in Threads, Step(t) \/ Raise(t)
      PROVE  Atomic!Next \/ UNCHANGED Atomic!vars
  <2>1. CASE Release(t) \/ Raise(t)
    BY <2>1, LeaveForgets DEF Release, Raise, Locked, Atomic!Next
  <2>2. CASE Replace(t) \/ (Load(t) /\ call[t].op # "save")
    BY <2>2, EffectTaken DEF Atomic!Next
  <2>3. CASE \/ Acquire(t) \/ OpenTemp(t) \/ WriteTemp(t)
             \/ Load(t) /\ call[t].op = "save"
    BY <2>3, StepUnseen
  <2> QED
    BY <1>3, <2>1, <2>2, <2>3 DEF Step
<1>4. CASE Die
  BY <1>4, DieForgets DEF Atomic!Next
<1> QED
  BY <1>1, <1>2, <1>3, <1>4 DEF Next

\* The file, its lock and its temporary file implement the atomic store that
\* the orchestrator relies on, in spite of failing calls and crashes.
THEOREM StoreAtomic == Spec => ImplementsAtomicStore
BY InitMaps, NextMaps, IInvHolds, PTL DEF Spec, ImplementsAtomicStore, Atomic!Spec

=============================================================================
