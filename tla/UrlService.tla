------------------------------ MODULE UrlService ------------------------------
(***************************************************************************)
(* service.py: creating, reading, following, disabling and measuring short *)
(* URLs, over the tables of models.py.                                     *)
(*                                                                         *)
(* Each request runs in a thread of its own, with a session of its own.    *)
(* A session runs one statement at a time and commits each write at once;  *)
(* it keeps the row it has read (expire_on_commit is off), and nothing     *)
(* that another request commits reaches that copy.  So a request is a      *)
(* sequence of steps, one per statement or test, and requests interleave   *)
(* between any two of them.                                                *)
(*                                                                         *)
(* No row of urls is ever deleted and its code never changes, so the row   *)
(* of a code stands for its id.  Of the clicks only their number is kept:  *)
(* the days of analytics divide all clicks of a code, its referrers some   *)
(* of them.  The clock counts days.                                        *)
(***************************************************************************)
EXTENDS Integers, FiniteSets

CONSTANTS
  Threads,
  Codes,             \* the codes and aliases in play
  None,              \* the None of the code
  Lifetimes,         \* values of expires_in_days, None aside
  MaxTime,           \* bound: the clock stops there
  MaxClicks          \* bound: no request to resolve a code beyond it

ASSUME ServiceConstants ==
  /\ IsFiniteSet(Threads)
  /\ None \notin Nat
  /\ None \notin [expires_at : Nat \cup {None}, disabled_at : Nat \cup {None}]
  /\ Lifetimes \subseteq Nat \ {0}
  /\ MaxTime \in Nat
  /\ MaxClicks \in Nat

VARIABLES
  clock,      \* datetime.now(UTC)
  urls,       \* the table urls, by code; None: no row
  clicks,     \* how many rows of click_events each code has
  op,         \* what each thread is asked to do
  code,       \* for which code
  pc,         \* the next statement or test of the thread
  row,        \* the copy of the row it has read, until it has tested it
  stamp,      \* the expires_at or disabled_at it has computed
  attempts,   \* codes it has tried to insert
  seen,       \* what the queries of analytics have returned to it
  begun,      \* history: what held when the request began
  late        \* history: clicks of a code that were committed after it was disabled

tables  == <<clock, urls, clicks, late>>
vars == <<clock, urls, clicks, op, code, pc, row, stamp, attempts, seen, begun, late>>

Creating == {"create", "create_alias"}
Operations == Creating \cup {"get", "resolve", "disable", "analytics"}

Statements == {"insert", "refresh", "lookup", "click", "update", "total", "daily", "referrers"}

Times   == Nat \cup {None}
Records == [expires_at : Times, disabled_at : Times]
Counts  == [total : Nat, daily : Nat, referrers : Nat]

NoCounts == [total |-> 0, daily |-> 0, referrers |-> 0]

\* What begun holds of a thread that serves nobody.
Nothing == [over |-> FALSE, clicks |-> 0]

TypeOK ==
  /\ clock    \in 0..MaxTime
  /\ urls     \in [Codes -> Records \cup {None}]
  /\ clicks   \in [Codes -> Nat]
  /\ op       \in [Threads -> Operations \cup {None}]
  /\ code     \in [Threads -> Codes \cup {None}]
  /\ pc       \in [Threads -> Statements \cup {"idle", "check", "test", "report"}]
  /\ row      \in [Threads -> Records \cup {None}]
  /\ stamp    \in [Threads -> Times]
  /\ attempts \in [Threads -> 0..5]
  /\ seen     \in [Threads -> Counts]
  /\ begun    \in [Threads -> [over : BOOLEAN, clicks : Nat]]
  /\ late     \in [Codes -> Nat]

-----------------------------------------------------------------------------

Known(c) == urls[c] # None

Disabled(record) == record.disabled_at # None

IsExpired(record, now) == record.expires_at # None /\ record.expires_at <= now

Unavailable(record, now) == Disabled(record) \/ IsExpired(record, now)

Over(c) == Known(c) /\ Unavailable(urls[c], clock)

Init ==
  /\ clock    = 0
  /\ urls     = [c \in Codes |-> None]
  /\ clicks   = [c \in Codes |-> 0]
  /\ op       = [t \in Threads |-> None]
  /\ code     = [t \in Threads |-> None]
  /\ pc       = [t \in Threads |-> "idle"]
  /\ row      = [t \in Threads |-> None]
  /\ stamp    = [t \in Threads |-> None]
  /\ attempts = [t \in Threads |-> 0]
  /\ seen     = [t \in Threads |-> NoCounts]
  /\ begun    = [t \in Threads |-> Nothing]
  /\ late     = [c \in Codes |-> 0]

Tick ==
  /\ clock < MaxTime
  /\ clock' = clock + 1
  /\ UNCHANGED <<urls, clicks, op, code, pc, row, stamp, attempts, seen, begun, late>>

Resolving(c) == {t \in Threads : op[t] = "resolve" /\ code[t] = c}

\* What the properties will want to know of the moment a request begins.
Noted(o, c) ==
  [over   |-> o = "resolve" /\ Over(c),
   clicks |-> IF o = "analytics" THEN clicks[c] ELSE 0]

\* A request arrives.  create computes the expiry before its first statement.
Begin(t, o, c, expires_at) ==
  /\ pc[t] = "idle"
  /\ o = "resolve" => clicks[c] + Cardinality(Resolving(c)) < MaxClicks
  /\ op'       = [op EXCEPT ![t] = o]
  /\ code'     = [code EXCEPT ![t] = c]
  /\ pc'       = [pc EXCEPT ![t] = IF o \in Creating THEN "insert" ELSE "lookup"]
  /\ stamp'    = [stamp EXCEPT ![t] = expires_at]
  /\ attempts' = [attempts EXCEPT ![t] = IF o \in Creating THEN 1 ELSE 0]
  /\ begun'    = [begun EXCEPT ![t] = Noted(o, c)]
  /\ UNCHANGED <<row, seen, tables>>

Request(t) ==
  \E c \in Codes :
    \/ \E o \in Creating, days \in Lifetimes : Begin(t, o, c, clock + days)
    \/ \E o \in Operations : Begin(t, o, c, None)

\* The request is answered, its session is closed and what it held is gone.
Answer(t) ==
  /\ pc'       = [pc EXCEPT ![t] = "idle"]
  /\ op'       = [op EXCEPT ![t] = None]
  /\ code'     = [code EXCEPT ![t] = None]
  /\ row'      = [row EXCEPT ![t] = None]
  /\ stamp'    = [stamp EXCEPT ![t] = None]
  /\ attempts' = [attempts EXCEPT ![t] = 0]
  /\ seen'     = [seen EXCEPT ![t] = NoCounts]
  /\ begun'    = [begun EXCEPT ![t] = Nothing]

Return(t) == Answer(t) /\ UNCHANGED tables

GoTo(t, next) ==
  /\ pc' = [pc EXCEPT ![t] = next]
  /\ UNCHANGED <<op, code, attempts, seen, begun>>

-----------------------------------------------------------------------------
\* create

\* Faulty variant of Insert: a row that is there is replaced.
InsertReplaces(t) ==
  /\ pc[t] = "insert"
  /\ urls' = [urls EXCEPT ![code[t]] = [expires_at |-> stamp[t], disabled_at |-> None]]
  /\ GoTo(t, "refresh")
  /\ UNCHANGED <<clock, clicks, late, row, stamp>>

\* The commit of _insert; the unique index takes the code.
Insert(t) ==
  /\ pc[t] = "insert"
  /\ ~Known(code[t])
  /\ urls' = [urls EXCEPT ![code[t]] = [expires_at |-> stamp[t], disabled_at |-> None]]
  /\ GoTo(t, "refresh")
  /\ UNCHANGED <<clock, clicks, late, row, stamp>>

\* The unique index refuses the code and the session rolls back: an alias is
\* answered with a conflict, five random codes with an error.
Conflict(t) ==
  /\ pc[t] = "insert"
  /\ Known(code[t])
  /\ op[t] = "create" => attempts[t] = 5
  /\ Return(t)

\* Faulty variant of DrawAgain: one draw too many.
DrawOnceMore(t) ==
  /\ pc[t] = "insert"
  /\ Known(code[t])
  /\ op[t] = "create"
  /\ attempts[t] <= 5
  /\ attempts' = [attempts EXCEPT ![t] = @ + 1]
  /\ \E c \in Codes : code' = [code EXCEPT ![t] = c]
  /\ UNCHANGED <<tables, op, pc, row, stamp, seen, begun>>

\* It refuses a random code, and another one is drawn.
DrawAgain(t) ==
  /\ pc[t] = "insert"
  /\ Known(code[t])
  /\ op[t] = "create"
  /\ attempts[t] < 5
  /\ attempts' = [attempts EXCEPT ![t] = @ + 1]
  /\ \E c \in Codes : code' = [code EXCEPT ![t] = c]
  /\ UNCHANGED <<tables, op, pc, row, stamp, seen, begun>>

\* The row is read again for the answer, by create and by disable.
Refresh(t) ==
  /\ pc[t] = "refresh"
  /\ Return(t)

-----------------------------------------------------------------------------
\* get, and what the other requests do with the row it returns

AfterLookup == [resolve |-> "check", disable |-> "test", analytics |-> "total"]

\* get is done, and so is every request for a code that is not there.
LookupAnswers(t) ==
  /\ pc[t] = "lookup"
  /\ Known(code[t]) => op[t] = "get"
  /\ Return(t)

Found(t) ==
  /\ pc[t] = "lookup"
  /\ Known(code[t])
  /\ op[t] # "get"
  /\ row' = IF op[t] = "analytics" THEN row ELSE [row EXCEPT ![t] = urls[code[t]]]
  /\ GoTo(t, AfterLookup[op[t]])
  /\ UNCHANGED <<tables, stamp>>

\* resolve tests its copy of the row, and answers 410 ...
Gone(t) ==
  /\ pc[t] = "check"
  /\ Unavailable(row[t], clock)
  /\ Return(t)

\* Faulty variant of Available: only the expiry is tested.
AvailableUnlessExpired(t) ==
  /\ pc[t] = "check"
  /\ ~IsExpired(row[t], clock)
  /\ row' = [row EXCEPT ![t] = None]
  /\ GoTo(t, "click")
  /\ UNCHANGED <<tables, stamp>>

\* ... or goes on.
Available(t) ==
  /\ pc[t] = "check"
  /\ ~Unavailable(row[t], clock)
  /\ row' = [row EXCEPT ![t] = None]
  /\ GoTo(t, "click")
  /\ UNCHANGED <<tables, stamp>>

\* resolve commits the click and redirects.
Click(t) ==
  /\ pc[t] = "click"
  /\ clicks' = [clicks EXCEPT ![code[t]] = @ + 1]
  /\ late' = IF Disabled(urls[code[t]]) THEN [late EXCEPT ![code[t]] = @ + 1] ELSE late
  /\ Answer(t)
  /\ UNCHANGED <<clock, urls>>

\* disable tests its copy of the row, and is done ...
AlreadyDisabled(t) ==
  /\ pc[t] = "test"
  /\ Disabled(row[t])
  /\ Return(t)

\* ... or reads the clock.
Stamp(t) ==
  /\ pc[t] = "test"
  /\ ~Disabled(row[t])
  /\ stamp' = [stamp EXCEPT ![t] = clock]
  /\ row' = [row EXCEPT ![t] = None]
  /\ GoTo(t, "update")
  /\ UNCHANGED tables

\* The update names the row by its id, whatever it holds by now.
Update(t) ==
  /\ pc[t] = "update"
  /\ urls' = [urls EXCEPT ![code[t]].disabled_at = stamp[t]]
  /\ GoTo(t, "refresh")
  /\ UNCHANGED <<clock, clicks, late, row, stamp>>

-----------------------------------------------------------------------------
\* analytics: three queries, each of the table as it is by then

Query(t, seen_now, next) ==
  /\ seen' = seen_now
  /\ pc'   = [pc EXCEPT ![t] = next]
  /\ UNCHANGED <<tables, op, code, row, stamp, attempts, begun>>

Total(t) ==
  /\ pc[t] = "total"
  /\ Query(t, [seen EXCEPT ![t].total = clicks[code[t]]], "daily")

\* Faulty variant of Daily: the total is taken after the days.
DailyBeforeTotal(t) ==
  /\ pc[t] = "daily"
  /\ Query(t, [seen EXCEPT ![t].daily = seen[t].total, ![t].total = clicks[code[t]]], "referrers")

\* The days divide the clicks.
Daily(t) ==
  /\ pc[t] = "daily"
  /\ Query(t, [seen EXCEPT ![t].daily = clicks[code[t]]], "referrers")

\* The five hosts with most clicks have some of them.
Referrers(t) ==
  /\ pc[t] = "referrers"
  /\ \E n \in 0..clicks[code[t]] :
       Query(t, [seen EXCEPT ![t].referrers = n], "report")

Report(t) ==
  /\ pc[t] = "report"
  /\ Return(t)

-----------------------------------------------------------------------------

\* The database refuses a statement (it is locked, or gone): the request fails,
\* what the session has committed stays.
DatabaseFails(t) ==
  /\ pc[t] \in Statements
  /\ Return(t)

Step(t) ==
  \/ Insert(t) \/ Conflict(t) \/ DrawAgain(t) \/ Refresh(t)
  \/ LookupAnswers(t) \/ Found(t)
  \/ Gone(t) \/ Available(t) \/ Click(t)
  \/ AlreadyDisabled(t) \/ Stamp(t) \/ Update(t)
  \/ Total(t) \/ Daily(t) \/ Referrers(t) \/ Report(t)

Next == Tick \/ \E t \in Threads : Request(t) \/ Step(t) \/ DatabaseFails(t)

Spec == Init /\ [][Next]_vars

-----------------------------------------------------------------------------

\* What the answers promise, however requests interleave: a client is
\* redirected only by a code that was neither disabled nor expired when its
\* request began ("disable the URL and show that future resolution returns
\* HTTP 410"), is told 410, or "disabled", only when that is so for
\* good, and 201 or 409 only for a code that has its row.
AnswersTrue ==
  [][\A t \in Threads : LET c == code[t] IN
       /\ pc[t] = "click" /\ pc'[t] = "idle" /\ clicks' # clicks => ~begun[t].over
       /\ Gone(t) => Over(c)
       /\ AlreadyDisabled(t) \/ (Refresh(t) /\ op[t] = "disable") => Disabled(urls[c])
       /\ Refresh(t) \/ Conflict(t) => Known(c)]_vars

\* A code that has a row keeps it, with its expiry, and is never enabled again,
\* although disable overwrites the time of an earlier disable.
RecordsLast ==
  [][\A c \in Codes : Known(c) =>
       /\ urls'[c] # None
       /\ urls'[c].expires_at = urls[c].expires_at
       /\ Disabled(urls[c]) => Disabled(urls'[c])]_vars

\* No code is given out twice: no two requests that create come to answer for
\* the same row, whatever code they draw and whichever of them fails on the way
\* (and, as RecordsLast says, no later one gets it either).
CodesApart ==
  \A t, u \in Threads :
    /\ pc[t] = "refresh" /\ op[t] \in Creating
    /\ pc[u] = "refresh" /\ op[u] \in Creating
    /\ code[t] = code[u]
    => t = u

\* Once a code is disabled, each of the other threads may still count one click
\* of it, on the copy it had read before: no more.
LateClicksBounded ==
  \A c \in Codes : late[c] > 0 => late[c] < Cardinality(Threads)

\* The numbers of analytics are those of three moments between the request and
\* its answer: they may differ, but in order, and none counts a click that is
\* not there or misses one that was when the request began.
AnalyticsOrdered ==
  \A t \in Threads : pc[t] = "report" =>
    /\ begun[t].clicks <= seen[t].total
    /\ seen[t].total <= seen[t].daily
    /\ seen[t].daily <= clicks[code[t]]
    /\ seen[t].referrers <= clicks[code[t]]

=============================================================================
