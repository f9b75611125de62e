---------------------------- MODULE WorkflowStore ----------------------------
(***************************************************************************)
(* orchestration/store.py: the JSON file that holds every run, down to the *)
(* calls of the operating system.  The event loop saves and reads; the     *)
(* threads that serve GET runs/{run_id} and GET metrics read at the same   *)
(* time.  A save reads the whole file, changes one entry, writes the whole *)
(* text to a temporary file of a fixed name and renames it over the store. *)
(*                                                                         *)
(* The lock is held from the read to the rename.  The process may die, or  *)
(* the operating system refuse a call, between any two of these steps;     *)
(* what the two files hold is then all that is left.  A write is two       *)
(* steps: the file is truncated and holds a part of the text (Partial),    *)
(* then all of it.  A rename is one.  A machine that loses its power is    *)
(* not modelled: the code does not ask for the text to reach the disk      *)
(* before the rename.                                                      *)
(***************************************************************************)
EXTENDS StoreCalls

CONSTANTS
  Missing,    \* no such file
  Empty,      \* a file without text
  Partial     \* a file whose text is not complete

VARIABLES
  file,       \* the store
  temp,       \* the temporary file
  lock,       \* the thread that holds it
  pc,         \* what each thread does next
  call,       \* the call it serves
  items       \* its dictionary of all runs

vars == <<file, temp, lock, pc, call, items>>

\* The text of a whole file is the dictionary it stands for.
Items == [RunIds -> Payloads \cup {None}]
NoItems == [r \in RunIds |-> None]

ASSUME StoreConstants ==
  /\ None \notin Payloads
  /\ None \notin Threads
  /\ None \notin Calls
  /\ {Missing, Empty, Partial} \cap Items = {}
  /\ Missing # Partial /\ Empty # Partial

Files == Items \cup {Missing, Empty, Partial}

\* With the lock: before the read, ..., before the lock is released.
Locked == {"load", "open", "write", "replace", "release"}

TypeOK ==
  /\ file  \in Files
  /\ temp  \in Files
  /\ lock  \in Threads \cup {None}
  /\ pc    \in [Threads -> Locked \cup {"idle", "acquire"}]
  /\ call  \in [Threads -> Calls \cup {None}]
  /\ items \in [Threads -> Items]
  /\ \A t \in Threads : call[t] = None <=> pc[t] = "idle"

\* A new process finds no store, or an empty one; or, after Die, any other.
Init ==
  /\ file \in {Missing, Empty}
  /\ temp  = Missing
  /\ lock  = None
  /\ pc    = [t \in Threads |-> "idle"]
  /\ call  = [t \in Threads |-> None]
  /\ items = [t \in Threads |-> NoItems]

-----------------------------------------------------------------------------

Goto(t, label) == pc' = [pc EXCEPT ![t] = label]

\* save, get or all is called.
Call(t, c) ==
  /\ pc[t] = "idle"
  /\ Goto(t, "acquire")
  /\ call' = [call EXCEPT ![t] = c]
  /\ UNCHANGED <<file, temp, lock, items>>

\* Faulty variant of Acquire: nobody waits.
AcquireFree(t) ==
  /\ pc[t] = "acquire"
  /\ Goto(t, "load")
  /\ lock' = t
  /\ UNCHANGED <<file, temp, call, items>>

Acquire(t) ==
  /\ pc[t] = "acquire"
  /\ lock = None
  /\ Goto(t, "load")
  /\ lock' = t
  /\ UNCHANGED <<file, temp, call, items>>

\* _load_all: no file and no text are no runs.
Contents(f) == IF f \in Items THEN f ELSE NoItems

\* Faulty variant of Load: an empty file is taken as it is.
LoadAsIs(t) ==
  /\ pc[t] = "load"
  /\ file # Partial
  /\ items' = [items EXCEPT ![t] = IF file = Missing THEN NoItems ELSE file]
  /\ Goto(t, "release")
  /\ UNCHANGED <<file, temp, lock, call>>

\* The file is read, as a text that is whole; a save changes its entry.
Load(t) ==
  /\ pc[t] = "load"
  /\ file # Partial
  /\ IF call[t].op = "save"
     THEN /\ items' = [items EXCEPT
                         ![t] = [Contents(file) EXCEPT ![call[t].id] = call[t].payload]]
          /\ Goto(t, "open")
     ELSE /\ items' = [items EXCEPT ![t] = Contents(file)]
          /\ Goto(t, "release")
  /\ UNCHANGED <<file, temp, lock, call>>

\* Faulty variant of OpenTemp: the store itself is written.
OpenStore(t) ==
  /\ pc[t] = "open"
  /\ file' = Partial
  /\ Goto(t, "write")
  /\ UNCHANGED <<temp, lock, call, items>>

\* write_text opens the file, whatever an earlier save has left in it ...
OpenTemp(t) ==
  /\ pc[t] = "open"
  /\ temp' = Partial
  /\ Goto(t, "write")
  /\ UNCHANGED <<file, lock, call, items>>

\* ... and closes it.
WriteTemp(t) ==
  /\ pc[t] = "write"
  /\ temp' = items[t]
  /\ Goto(t, "replace")
  /\ UNCHANGED <<file, lock, call, items>>

\* The rename moves what the temporary file holds by now.
Replace(t) ==
  /\ pc[t] = "replace"
  /\ file' = temp
  /\ temp' = Missing
  /\ Goto(t, "release")
  /\ UNCHANGED <<lock, call, items>>

\* The call is over; the `with' block has released the lock.
Leave(t) ==
  /\ lock' = None
  /\ Goto(t, "idle")
  /\ call' = [call EXCEPT ![t] = None]
  /\ items' = [items EXCEPT ![t] = NoItems]
  /\ UNCHANGED <<file, temp>>

Release(t) == pc[t] = "release" /\ Leave(t)

\* Faulty variant of Raise: the lock is not released.
RaiseLocked(t) ==
  /\ pc[t] \in Locked \ {"release"}
  /\ Goto(t, "idle")
  /\ call' = [call EXCEPT ![t] = None]
  /\ items' = [items EXCEPT ![t] = NoItems]
  /\ UNCHANGED <<file, temp, lock>>

\* The operating system refuses (no space, no file handle, no permission): the
\* call raises, and the temporary file stays as it is.
Raise(t) == pc[t] \in Locked \ {"release"} /\ Leave(t)

\* The process dies and is started again.
Die ==
  /\ \E t \in Threads : pc[t] # "idle"
  /\ lock'  = None
  /\ pc'    = [t \in Threads |-> "idle"]
  /\ call'  = [t \in Threads |-> None]
  /\ items' = [t \in Threads |-> NoItems]
  /\ UNCHANGED <<file, temp>>

Step(t) == Acquire(t) \/ Load(t) \/ OpenTemp(t) \/ WriteTemp(t) \/ Replace(t) \/ Release(t)

Next ==
  \/ \E t \in Threads : (\E c \in Calls : Call(t, c)) \/ Step(t) \/ Raise(t)
  \/ Die

Spec == Init /\ [][Next]_vars

\* A thread that can go on does: it owns the lock, or nobody does.  Which of
\* those that wait gets the lock is open.
FairSpec == Spec /\ \A t \in Threads : WF_vars(Step(t))

-----------------------------------------------------------------------------

\* Whenever the process may die, the store is a whole text: no thread reads, no
\* rename brings and no crash leaves a part of one.
FileWhole == file # Partial

\* What a save is about to put in place is the store as it is at that moment,
\* but for its own run, although it was read steps before: no other save is
\* undone, and the text in the temporary file is its own.
SavesMerge ==
  \A t \in Threads :
    /\ pc[t] \in {"open", "write", "replace"} =>
         items[t] = [Contents(file) EXCEPT ![call[t].id] = call[t].payload]
    /\ pc[t] = "replace" => temp = items[t]

\* A lock that is taken is given back, whatever fails with it held.
LockComesFree == \A t \in Threads : lock = t ~> lock = None

\* The calls are those of an atomic store.  A save takes effect with its
\* rename, a read when it reads; a call that raises, or dies, before that has
\* none, then or later, whatever it has left in the temporary file.
Stage ==
  [t \in Threads |-> CASE pc[t] = "idle"    -> "idle"
                       [] pc[t] = "release" -> "done"
                       [] OTHER             -> "asked"]

Seen ==
  [t \in Threads |->
     IF pc[t] = "release" THEN Reads(call[t], items[t]) ELSE NothingSeen]

Atomic == INSTANCE AtomicStore WITH
  runs <- Contents(file), stage <- Stage, seen <- Seen

ImplementsAtomicStore == Atomic!Spec

=============================================================================
