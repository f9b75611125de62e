--------------------------- MODULE UrlServiceProofs ---------------------------
(***************************************************************************)
(* What holds of UrlService for any number of requests and codes.          *)
(*                                                                         *)
(* Session says what a request knows at each of its statements; it stands  *)
(* whatever the other requests commit, because the tables only grow.  Late *)
(* counts, for each disabled code, the clicks it got since and the ones    *)
(* that are still to come.                                                 *)
(***************************************************************************)
EXTENDS UrlService, FiniteSetTheorems, TLAPS

\* The tables and the clock only grow.
Grows ==
  /\ clock <= clock'
  /\ \A c \in Codes :
       /\ clicks[c] <= clicks'[c]
       /\ Known(c) => /\ urls'[c] # None
                      /\ urls'[c].expires_at = urls[c].expires_at
                      /\ Disabled(urls[c]) => Disabled(urls'[c])

Asked(t) ==
  /\ pc[t] # "idle" => code[t] \in Codes
  /\ pc[t] = "insert" => op[t] \in Creating
  /\ pc[t] = "lookup" => op[t] \in Operations \ Creating

HasRow(t) == pc[t] \notin {"idle", "insert", "lookup"} => Known(code[t])

\* The copy of a row may miss a disable, nothing else.
CopyTrue(t) ==
  pc[t] \in {"check", "test"} =>
    /\ row[t] \in Records
    /\ row[t].expires_at = urls[code[t]].expires_at
    /\ Disabled(row[t]) => Disabled(urls[code[t]])

\* What is over when the request begins is refused.
OverNoticed(t) ==
  begun[t].over =>
    /\ pc[t] = "lookup" => Over(code[t])
    /\ pc[t] = "check" => Unavailable(row[t], clock)
    /\ pc[t] # "click"

Disabling(t) ==
  /\ pc[t] = "update" => stamp[t] \in Nat
  /\ pc[t] = "refresh" /\ op[t] = "disable" => Disabled(urls[code[t]])

CountsOrdered(t) ==
  /\ pc[t] \in {"lookup", "total", "daily", "referrers", "report"} =>
       begun[t].clicks <= clicks[code[t]]
  /\ pc[t] \in {"daily", "referrers", "report"} =>
       begun[t].clicks <= seen[t].total /\ seen[t].total <= clicks[code[t]]
  /\ pc[t] \in {"referrers", "report"} =>
       seen[t].total <= seen[t].daily /\ seen[t].daily <= clicks[code[t]]
  /\ pc[t] = "report" => seen[t].referrers <= clicks[code[t]]

Session(t) ==
  /\ Asked(t) /\ HasRow(t) /\ CopyTrue(t) /\ OverNoticed(t)
  /\ Disabling(t) /\ CountsOrdered(t)

\* The requests that may still count a click of c, disabled or not.
InFlight(c) ==
  {t \in Threads : code[t] = c /\ (pc[t] = "click" \/ (pc[t] = "check" /\ ~Disabled(row[t])))}

Withdrawn(c) == Known(c) /\ Disabled(urls[c])

Late(c) ==
  /\ Withdrawn(c) => late[c] + Cardinality(InFlight(c)) < Cardinality(Threads)
  /\ ~Withdrawn(c) => late[c] = 0

IInv == TypeOK /\ (\A t \in Threads : Session(t)) /\ (\A c \in Codes : Late(c))

LocalsKept(u) ==
  /\ op'[u] = op[u] /\ code'[u] = code[u] /\ pc'[u] = pc[u] /\ row'[u] = row[u]
  /\ stamp'[u] = stamp[u] /\ seen'[u] = seen[u] /\ begun'[u] = begun[u]

-----------------------------------------------------------------------------

LEMMA ThreadFacts ==
  ASSUME NEW c \in Codes, IInv
  PROVE  /\ IsFiniteSet(Threads)
         /\ IsFiniteSet(InFlight(c))
         /\ Cardinality(InFlight(c)) \in Nat
         /\ Cardinality(Threads) \in Nat
<1>1. IsFiniteSet(Threads)
  BY ServiceConstants
<1>2. IsFiniteSet(InFlight(c))
  BY <1>1, FS_Subset DEF InFlight
<1> QED
  BY <1>1, <1>2, FS_CardinalityType

\* A request is not disturbed by what the tables gain.
LEMMA SessionStable ==
  ASSUME IInv, TypeOK', Grows, NEW u \in Threads, LocalsKept(u)
  PROVE  Session(u)'
<1>1. Session(u)
  BY DEF IInv
<1>2. Asked(u)' /\ HasRow(u)'
  BY <1>1 DEF Session, Asked, HasRow, Known, LocalsKept, Grows
<1>3. CopyTrue(u)'
  BY <1>1 DEF Session, Asked, HasRow, CopyTrue, LocalsKept, Grows
<1>4. OverNoticed(u)'
  <2> SUFFICES ASSUME begun[u].over
               PROVE  /\ pc[u] = "lookup" => Over(code[u])'
                      /\ pc[u] = "check" => Unavailable(row[u], clock)'
                      /\ pc[u] # "click"
    BY DEF OverNoticed, LocalsKept
  <2>1. pc[u] # "click"
    BY <1>1 DEF Session, OverNoticed
  <2>2. ASSUME pc[u] = "lookup"
        PROVE  Over(code[u])'
    <3>1. code[u] \in Codes /\ Over(code[u])
      BY <1>1, <2>2 DEF Session, Asked, OverNoticed
    <3>2. /\ urls[code[u]] \in Records
          /\ clock \in Nat /\ clock' \in Nat
      BY <3>1, ServiceConstants DEF IInv, TypeOK, Over, Known
    <3> QED
      BY <3>1, <3>2 DEF Over, Known, Unavailable, IsExpired, Records, Times, Grows, LocalsKept
  <2>3. ASSUME pc[u] = "check"
        PROVE  Unavailable(row[u], clock)'
    <3>1. row[u] \in Records /\ Unavailable(row[u], clock)
      BY <1>1, <2>3 DEF Session, CopyTrue, OverNoticed
    <3>2. clock \in Nat /\ clock' \in Nat
      BY ServiceConstants DEF IInv, TypeOK
    <3> QED
      BY <3>1, <3>2 DEF Unavailable, IsExpired, Disabled, Records, Times, Grows, LocalsKept
  <2> QED
    BY <2>1, <2>2, <2>3
<1>5. Disabling(u)'
  BY <1>1 DEF Session, Asked, HasRow, Disabling, LocalsKept, Grows
<1>6. CountsOrdered(u)'
  <2>1. CASE pc[u] \in {"lookup", "total", "daily", "referrers", "report"}
    <3>1. /\ code[u] \in Codes
          /\ clicks[code[u]] \in Nat /\ clicks'[code[u]] \in Nat
          /\ clicks[code[u]] <= clicks'[code[u]]
      BY <1>1, <2>1 DEF Session, Asked, IInv, TypeOK, Grows
    <3>2. /\ begun[u].clicks \in Nat /\ seen[u].total \in Nat
          /\ seen[u].daily \in Nat /\ seen[u].referrers \in Nat
      BY DEF IInv, TypeOK, Counts
    <3> QED
      BY <1>1, <3>1, <3>2 DEF Session, CountsOrdered, LocalsKept
  <2>2. CASE pc[u] \notin {"lookup", "total", "daily", "referrers", "report"}
    BY <2>2 DEF CountsOrdered, LocalsKept
  <2> QED
    BY <2>1, <2>2
<1> QED
  BY <1>2, <1>3, <1>4, <1>5, <1>6 DEF Session

\* A code that is no more withdrawn than it was, and has no new click to come.
LEMMA LateStable ==
  ASSUME IInv, NEW c \in Codes,
         Withdrawn(c)' <=> Withdrawn(c), late'[c] = late[c], InFlight(c)' \subseteq InFlight(c)
  PROVE  Late(c)'
<1>1. /\ IsFiniteSet(InFlight(c))
      /\ Cardinality(InFlight(c)) \in Nat /\ Cardinality(Threads) \in Nat
  BY ThreadFacts
<1>2. /\ Cardinality(InFlight(c)') <= Cardinality(InFlight(c))
      /\ Cardinality(InFlight(c)') \in Nat
  BY <1>1, FS_Subset, FS_CardinalityType
<1>3. late[c] \in Nat /\ Late(c)
  BY DEF IInv, TypeOK
<1> QED
  BY <1>1, <1>2, <1>3 DEF Late

-----------------------------------------------------------------------------
\* The steps of one request.

\* What is left to show of a step of t.
LEMMA OfStep ==
  ASSUME IInv, NEW t \in Threads, TypeOK', Grows,
         \A u \in Threads \ {t} : LocalsKept(u),
         Session(t)', \A c \in Codes : Late(c)'
  PROVE  IInv'
<1>1. ASSUME NEW u \in Threads
      PROVE  Session(u)'
  BY <1>1, SessionStable
<1> QED
  BY <1>1 DEF IInv

LEMMA TablesKept ==
  ASSUME IInv, UNCHANGED tables
  PROVE  Grows /\ \A c \in Codes : (Withdrawn(c)' <=> Withdrawn(c)) /\ late'[c] = late[c]
<1>1. clock \in Nat /\ \A c \in Codes : clicks[c] \in Nat
  BY ServiceConstants DEF IInv, TypeOK
<1> QED
  BY <1>1 DEF tables, Grows, Withdrawn, Known

LEMMA AnswerFacts ==
  ASSUME IInv, NEW t \in Threads, Answer(t)
  PROVE  /\ \A u \in Threads \ {t} : LocalsKept(u)
         /\ Session(t)'
         /\ \A c \in Codes : InFlight(c)' \subseteq InFlight(c) \ {t}
         /\ op' \in [Threads -> Operations \cup {None}]
         /\ code' \in [Threads -> Codes \cup {None}]
         /\ pc' \in [Threads -> Statements \cup {"idle", "check", "test", "report"}]
         /\ row' \in [Threads -> Records \cup {None}]
         /\ stamp' \in [Threads -> Times]
         /\ attempts' \in [Threads -> 0..5]
         /\ seen' \in [Threads -> Counts]
         /\ begun' \in [Threads -> [over : BOOLEAN, clicks : Nat]]
<1>1. TypeOK
  BY DEF IInv
<1>2. \A u \in Threads \ {t} : LocalsKept(u)
  BY <1>1 DEF TypeOK, Answer, LocalsKept
<1>3. pc'[t] = "idle" /\ begun'[t].over = FALSE
  BY <1>1 DEF TypeOK, Answer, Nothing
<1>4. Session(t)'
  BY <1>3 DEF Session, Asked, HasRow, CopyTrue, OverNoticed, Disabling, CountsOrdered
<1>5. \A c \in Codes : InFlight(c)' \subseteq InFlight(c) \ {t}
  BY <1>2, <1>3 DEF InFlight, LocalsKept
<1>6. /\ op' \in [Threads -> Operations \cup {None}]
      /\ code' \in [Threads -> Codes \cup {None}]
      /\ pc' \in [Threads -> Statements \cup {"idle", "check", "test", "report"}]
      /\ row' \in [Threads -> Records \cup {None}]
      /\ stamp' \in [Threads -> Times]
      /\ attempts' \in [Threads -> 0..5]
  BY <1>1 DEF TypeOK, Answer, Times
<1>7. /\ seen' \in [Threads -> Counts]
      /\ begun' \in [Threads -> [over : BOOLEAN, clicks : Nat]]
  BY <1>1 DEF TypeOK, Answer, Counts, NoCounts, Nothing
<1> QED
  BY <1>2, <1>4, <1>5, <1>6, <1>7

LEMMA ReturnStep ==
  ASSUME IInv, NEW t \in Threads, Return(t)
  PROVE  IInv'
<1>1. Answer(t) /\ UNCHANGED tables
  BY DEF Return
<1>2. TypeOK'
  BY <1>1, AnswerFacts DEF TypeOK, IInv, tables
<1>3. \A c \in Codes : Late(c)'
  BY <1>1, AnswerFacts, TablesKept, LateStable
<1> QED
  BY <1>1, <1>2, <1>3, AnswerFacts, TablesKept, OfStep

LEMMA ClickStep ==
  ASSUME IInv, NEW t \in Threads, Click(t)
  PROVE  IInv'
<1>1. Answer(t) /\ pc[t] = "click" /\ clock' = clock /\ urls' = urls
  BY DEF Click
<1>2. PICK c \in Codes : c = code[t] /\ Known(c) /\ t \in InFlight(c)
  BY <1>1 DEF IInv, Session, Asked, HasRow, InFlight
<1>3. /\ clicks \in [Codes -> Nat] /\ late \in [Codes -> Nat] /\ clock \in Nat
      /\ clicks' = [clicks EXCEPT ![c] = @ + 1]
      /\ late' = IF Disabled(urls[c]) THEN [late EXCEPT ![c] = @ + 1] ELSE late
  BY <1>2, ServiceConstants DEF IInv, TypeOK, Click
<1>4. TypeOK'
  BY <1>1, <1>2, <1>3, AnswerFacts DEF TypeOK, IInv
<1>5. Grows
  BY <1>1, <1>3 DEF Grows, Known
<1>6. ASSUME NEW d \in Codes
      PROVE  Late(d)'
  <2>1. CASE d = c /\ Disabled(urls[c])
    <3>1. /\ InFlight(c)' \subseteq InFlight(c) \ {t}
          /\ IsFiniteSet(InFlight(c))
          /\ Cardinality(InFlight(c)) \in Nat /\ Cardinality(Threads) \in Nat
      BY <1>1, <1>2, AnswerFacts, ThreadFacts
    <3>2. /\ IsFiniteSet(InFlight(c) \ {t})
          /\ Cardinality(InFlight(c) \ {t}) = Cardinality(InFlight(c)) - 1
      BY <1>2, <3>1, FS_RemoveElement
    <3>3. /\ Cardinality(InFlight(c)') <= Cardinality(InFlight(c) \ {t})
          /\ Cardinality(InFlight(c)') \in Nat
      BY <3>1, <3>2, FS_Subset, FS_CardinalityType
    <3>4. /\ Withdrawn(c) /\ Withdrawn(c)'
          /\ late[c] + Cardinality(InFlight(c)) < Cardinality(Threads)
      BY <1>1, <1>2, <2>1 DEF IInv, Late, Withdrawn, Known
    <3>5. late[c] \in Nat /\ late'[c] = late[c] + 1
      BY <1>2, <1>3, <2>1
    <3> QED
      BY <2>1, <3>1, <3>2, <3>3, <3>4, <3>5 DEF Late
  <2>2. CASE ~(d = c /\ Disabled(urls[c]))
    <3>1. late'[d] = late[d] /\ (Withdrawn(d)' <=> Withdrawn(d))
      BY <1>1, <1>3, <2>2 DEF Withdrawn, Known
    <3> QED
      BY <1>1, <3>1, AnswerFacts, LateStable
  <2> QED
    BY <2>1, <2>2
<1> QED
  BY <1>1, <1>4, <1>5, <1>6, AnswerFacts, OfStep

-----------------------------------------------------------------------------

LEMMA TickStep ==
  ASSUME IInv, Tick
  PROVE  IInv'
<1>1. /\ clock \in Nat /\ clock' = clock + 1 /\ clock' \in 0..MaxTime
      /\ \A c \in Codes : clicks[c] \in Nat
  BY ServiceConstants DEF IInv, TypeOK, Tick
<1>2. TypeOK' /\ Grows
  BY <1>1 DEF IInv, TypeOK, Tick, Grows, Known
<1>3. ASSUME NEW u \in Threads
      PROVE  Session(u)'
  BY <1>2, SessionStable DEF LocalsKept, Tick
<1>4. ASSUME NEW c \in Codes
      PROVE  Late(c)'
  BY LateStable DEF Tick, Withdrawn, Known, InFlight
<1> QED
  BY <1>2, <1>3, <1>4 DEF IInv

LEMMA BeginStep ==
  ASSUME IInv, NEW t \in Threads, NEW o \in Operations, NEW c \in Codes,
         NEW expires_at \in Times, Begin(t, o, c, expires_at)
  PROVE  IInv'
<1>1. /\ clicks[c] \in Nat
      /\ Noted(o, c) \in [over : BOOLEAN, clicks : Nat]
  BY DEF IInv, TypeOK, Noted, Over, Unavailable, IsExpired, Disabled, Known
<1>2. TypeOK'
  BY <1>1 DEF IInv, TypeOK, Begin, tables, Statements
<1>3. Grows /\ \A d \in Codes : (Withdrawn(d)' <=> Withdrawn(d)) /\ late'[d] = late[d]
  BY TablesKept DEF Begin
<1>4. \A u \in Threads \ {t} : LocalsKept(u)
  BY DEF IInv, TypeOK, Begin, LocalsKept
<1>5. /\ op'[t] = o /\ code'[t] = c /\ pc'[t] \in {"insert", "lookup"}
      /\ pc'[t] = "insert" <=> o \in Creating
      /\ begun'[t] = Noted(o, c)
  BY DEF IInv, TypeOK, Begin
<1>6. Session(t)'
  <2>1. Asked(t)' /\ HasRow(t)' /\ CopyTrue(t)' /\ Disabling(t)'
    BY <1>5 DEF Asked, HasRow, CopyTrue, Disabling
  <2>2. OverNoticed(t)'
    <3>1. begun'[t].over => Over(c)
      <4> DEFINE b == o = "resolve" /\ Over(c)
                 n == IF o = "analytics" THEN clicks[c] ELSE 0
      <4>1. b \in BOOLEAN /\ (b => Over(c))
        OBVIOUS
      <4>2. begun'[t] = [over |-> b, clicks |-> n]
        BY <1>5, Zenon DEF Noted
      <4> HIDE DEF b, n
      <4>3. begun'[t].over = b
        BY <4>2
      <4> QED
        BY <4>1, <4>3, Zenon
    <3>2. Over(c) => Over(code[t])'
      BY <1>5 DEF Over, Known, Begin, tables
    <3> QED
      BY <1>5, <3>1, <3>2 DEF OverNoticed
  <2>3. CountsOrdered(t)'
    BY <1>1, <1>5 DEF CountsOrdered, Noted, Begin, tables
  <2> QED
    BY <2>1, <2>2, <2>3 DEF Session
<1>7. ASSUME NEW d \in Codes
      PROVE  Late(d)'
  <2>1. InFlight(d)' \subseteq InFlight(d)
    BY <1>4, <1>5 DEF InFlight, LocalsKept
  <2> QED
    BY <1>3, <2>1, LateStable
<1> QED
  BY <1>2, <1>3, <1>4, <1>6, <1>7, OfStep

LEMMA InsertStep ==
  ASSUME IInv, NEW t \in Threads, Insert(t)
  PROVE  IInv'
<1>1. PICK c \in Codes : c = code[t]
  BY DEF IInv, Session, Asked, Insert
<1>2. /\ pc[t] = "insert" /\ ~Known(c) /\ op[t] \in Creating
      /\ pc' = [pc EXCEPT ![t] = "refresh"]
      /\ UNCHANGED <<clock, clicks, late, row, stamp, op, code, attempts, seen, begun>>
  BY <1>1 DEF IInv, Session, Asked, Insert, GoTo
<1>3. PICK r \in Records : r.disabled_at = None /\ urls' = [urls EXCEPT ![c] = r]
  BY <1>1 DEF IInv, TypeOK, Insert, Records, Times
<1>4. r # None
  BY ServiceConstants DEF Records, Times
<1>5. TypeOK'
  BY <1>2, <1>3 DEF IInv, TypeOK, Statements
<1>6. Grows
  BY <1>2, <1>3, ServiceConstants DEF IInv, TypeOK, Grows, Known
<1>7. \A u \in Threads \ {t} : LocalsKept(u)
  BY <1>2 DEF IInv, TypeOK, LocalsKept
<1>8. Session(t)'
  <2>1. pc'[t] = "refresh" /\ op'[t] # "disable" /\ code'[t] = c /\ urls'[c] # None
    BY <1>1, <1>2, <1>3, <1>4 DEF IInv, TypeOK, Creating
  <2> QED
    BY <2>1 DEF Session, Asked, HasRow, Known, CopyTrue, OverNoticed, Disabling, CountsOrdered
<1>9. ASSUME NEW d \in Codes
      PROVE  Late(d)'
  <2>1. InFlight(d)' \subseteq InFlight(d)
    BY <1>2 DEF IInv, TypeOK, InFlight
  <2>2. Withdrawn(d)' <=> Withdrawn(d)
    BY <1>2, <1>3 DEF IInv, TypeOK, Withdrawn, Known, Disabled
  <2> QED
    BY <1>2, <2>1, <2>2, LateStable
<1> QED
  BY <1>5, <1>6, <1>7, <1>8, <1>9, OfStep

LEMMA DrawAgainStep ==
  ASSUME IInv, NEW t \in Threads, DrawAgain(t)
  PROVE  IInv'
<1>1. /\ pc[t] = "insert" /\ op[t] \in Creating /\ UNCHANGED tables
      /\ UNCHANGED <<op, pc, row, stamp, seen, begun>>
  BY DEF DrawAgain, Creating
<1>2. PICK c \in Codes : code' = [code EXCEPT ![t] = c]
  BY DEF DrawAgain
<1>3. TypeOK'
  BY <1>1, <1>2 DEF IInv, TypeOK, DrawAgain, tables
<1>4. Grows /\ \A d \in Codes : (Withdrawn(d)' <=> Withdrawn(d)) /\ late'[d] = late[d]
  BY <1>1, TablesKept
<1>5. \A u \in Threads \ {t} : LocalsKept(u)
  BY <1>1, <1>2 DEF IInv, TypeOK, LocalsKept
<1>6. Session(t)'
  <2>1. pc'[t] = "insert" /\ op'[t] \in Creating /\ code'[t] \in Codes
    BY <1>1, <1>2 DEF IInv, TypeOK
  <2> QED
    BY <2>1 DEF Session, Asked, HasRow, CopyTrue, OverNoticed, Disabling, CountsOrdered
<1>7. ASSUME NEW d \in Codes
      PROVE  Late(d)'
  <2>1. InFlight(d)' \subseteq InFlight(d)
    BY <1>1, <1>2 DEF IInv, TypeOK, InFlight
  <2> QED
    BY <1>4, <2>1, LateStable
<1> QED
  BY <1>3, <1>4, <1>5, <1>6, <1>7, OfStep

-----------------------------------------------------------------------------

LEMMA FoundStep ==
  ASSUME IInv, NEW t \in Threads, Found(t)
  PROVE  IInv'
<1>1. PICK c \in Codes : c = code[t]
  BY DEF IInv, Session, Asked, Found
<1>2. /\ pc[t] = "lookup" /\ Known(c) /\ op[t] \in {"resolve", "disable", "analytics"}
      /\ pc' = [pc EXCEPT ![t] = AfterLookup[op[t]]]
      /\ row' = IF op[t] = "analytics" THEN row ELSE [row EXCEPT ![t] = urls[c]]
      /\ UNCHANGED tables /\ UNCHANGED <<op, code, attempts, seen, begun, stamp>>
  BY <1>1 DEF IInv, Session, Asked, Found, GoTo, Operations, Creating
<1>3. /\ AfterLookup["resolve"] = "check" /\ AfterLookup["disable"] = "test"
      /\ AfterLookup["analytics"] = "total"
  BY DEF AfterLookup
<1>4. urls[c] \in Records
  BY <1>2 DEF IInv, TypeOK, Known
<1>5. TypeOK'
  BY <1>2, <1>3, <1>4 DEF IInv, TypeOK, tables, Statements
<1>6. Grows /\ \A d \in Codes : (Withdrawn(d)' <=> Withdrawn(d)) /\ late'[d] = late[d]
  BY <1>2, TablesKept
<1>7. \A u \in Threads \ {t} : LocalsKept(u)
  BY <1>2 DEF IInv, TypeOK, LocalsKept
<1>8. /\ pc'[t] = AfterLookup[op[t]] /\ code'[t] = c /\ urls' = urls /\ clicks' = clicks
      /\ clock' = clock /\ begun'[t] = begun[t]
      /\ op[t] # "analytics" => row'[t] = urls[c]
  BY <1>1, <1>2 DEF IInv, TypeOK, tables
<1>9. Session(t)'
  <2>1. Asked(t)' /\ HasRow(t)' /\ CopyTrue(t)' /\ Disabling(t)'
    BY <1>2, <1>3, <1>4, <1>8 DEF Asked, HasRow, CopyTrue, Disabling, Known
  <2>2. OverNoticed(t)'
    <3>1. begun[t].over => Over(c)
      BY <1>1, <1>2 DEF IInv, Session, OverNoticed
    <3> QED
      BY <1>2, <1>3, <1>8, <3>1 DEF OverNoticed, Over
  <2>3. CountsOrdered(t)'
    <3>1. begun[t].clicks <= clicks[c]
      BY <1>1, <1>2 DEF IInv, Session, CountsOrdered
    <3> QED
      BY <1>2, <1>3, <1>8, <3>1 DEF CountsOrdered
  <2> QED
    BY <2>1, <2>2, <2>3 DEF Session
<1>10. ASSUME NEW d \in Codes
       PROVE  Late(d)'
  <2>1. CASE d = c /\ Withdrawn(c)
    <3>1. pc'[t] = "check" => Disabled(row'[t])
      BY <1>2, <1>3, <1>8, <2>1 DEF Withdrawn
    <3>2. InFlight(d)' \subseteq InFlight(d)
      BY <1>2, <1>3, <1>7, <1>8, <3>1 DEF InFlight, LocalsKept
    <3> QED
      BY <1>6, <3>2, LateStable
  <2>2. CASE d = c /\ ~Withdrawn(c)
    BY <1>6, <2>2 DEF IInv, Late
  <2>3. CASE d # c
    <3>1. InFlight(d)' \subseteq InFlight(d)
      BY <1>7, <1>8, <2>3 DEF InFlight, LocalsKept
    <3> QED
      BY <1>6, <3>1, LateStable
  <2> QED
    BY <2>1, <2>2, <2>3
<1> QED
  BY <1>5, <1>6, <1>7, <1>9, <1>10, OfStep

LEMMA AvailableStep ==
  ASSUME IInv, NEW t \in Threads, Available(t)
  PROVE  IInv'
<1>1. /\ pc[t] = "check" /\ ~Unavailable(row[t], clock)
      /\ pc' = [pc EXCEPT ![t] = "click"] /\ row' = [row EXCEPT ![t] = None]
      /\ UNCHANGED tables /\ UNCHANGED <<op, code, attempts, seen, begun, stamp>>
  BY DEF Available, GoTo
<1>2. TypeOK'
  BY <1>1 DEF IInv, TypeOK, tables, Statements
<1>3. Grows /\ \A d \in Codes : (Withdrawn(d)' <=> Withdrawn(d)) /\ late'[d] = late[d]
  BY <1>1, TablesKept
<1>4. \A u \in Threads \ {t} : LocalsKept(u)
  BY <1>1 DEF IInv, TypeOK, LocalsKept
<1>5. pc'[t] = "click" /\ code'[t] = code[t] /\ urls' = urls /\ begun'[t] = begun[t]
  BY <1>1 DEF IInv, TypeOK, tables
<1>6. Session(t)'
  <2>1. code[t] \in Codes /\ Known(code[t]) /\ ~begun[t].over
    BY <1>1 DEF IInv, Session, Asked, HasRow, OverNoticed
  <2> QED
    BY <1>5, <2>1
    DEF Session, Asked, HasRow, CopyTrue, OverNoticed, Disabling, CountsOrdered, Known
<1>7. ASSUME NEW d \in Codes
      PROVE  Late(d)'
  <2>1. InFlight(d)' \subseteq InFlight(d)
    BY <1>1, <1>4, <1>5 DEF InFlight, LocalsKept, Unavailable
  <2> QED
    BY <1>3, <2>1, LateStable
<1> QED
  BY <1>2, <1>3, <1>4, <1>6, <1>7, OfStep

LEMMA StampStep ==
  ASSUME IInv, NEW t \in Threads, Stamp(t)
  PROVE  IInv'
<1>1. /\ pc[t] = "test" /\ stamp' = [stamp EXCEPT ![t] = clock]
      /\ pc' = [pc EXCEPT ![t] = "update"] /\ row' = [row EXCEPT ![t] = None]
      /\ UNCHANGED tables /\ UNCHANGED <<op, code, attempts, seen, begun>>
      /\ clock \in Nat
  BY ServiceConstants DEF Stamp, GoTo, IInv, TypeOK
<1>2. TypeOK'
  BY <1>1 DEF IInv, TypeOK, tables, Statements, Times
<1>3. Grows /\ \A d \in Codes : (Withdrawn(d)' <=> Withdrawn(d)) /\ late'[d] = late[d]
  BY <1>1, TablesKept
<1>4. \A u \in Threads \ {t} : LocalsKept(u)
  BY <1>1 DEF IInv, TypeOK, LocalsKept
<1>5. pc'[t] = "update" /\ stamp'[t] \in Nat /\ code'[t] = code[t] /\ urls' = urls
  BY <1>1 DEF IInv, TypeOK, tables
<1>6. Session(t)'
  <2>1. code[t] \in Codes /\ Known(code[t])
    BY <1>1 DEF IInv, Session, Asked, HasRow
  <2> QED
    BY <1>5, <2>1
    DEF Session, Asked, HasRow, CopyTrue, OverNoticed, Disabling, CountsOrdered, Known
<1>7. ASSUME NEW d \in Codes
      PROVE  Late(d)'
  <2>1. InFlight(d)' \subseteq InFlight(d)
    BY <1>4, <1>5 DEF InFlight, LocalsKept
  <2> QED
    BY <1>3, <2>1, LateStable
<1> QED
  BY <1>2, <1>3, <1>4, <1>6, <1>7, OfStep

\* The first disable of a code leaves a click to come to each other thread at
\* most; a later one changes the time only.
LEMMA UpdateStep ==
  ASSUME IInv, NEW t \in Threads, Update(t)
  PROVE  IInv'
<1>1. PICK c \in Codes : c = code[t]
  BY DEF IInv, Session, Asked, Update
<1>2. /\ pc[t] = "update" /\ Known(c) /\ stamp[t] \in Nat /\ urls[c] \in Records
      /\ pc' = [pc EXCEPT ![t] = "refresh"]
      /\ UNCHANGED <<clock, clicks, late, row, stamp, op, code, attempts, seen, begun>>
  BY <1>1 DEF IInv, TypeOK, Known, Session, HasRow, Disabling, Update, GoTo
<1>3. PICK r \in Records : /\ r.expires_at = urls[c].expires_at /\ r.disabled_at = stamp[t]
                           /\ urls' = [urls EXCEPT ![c] = r]
  <2> DEFINE r == [urls[c] EXCEPT !.disabled_at = stamp[t]]
  <2>1. r \in Records /\ r.expires_at = urls[c].expires_at /\ r.disabled_at = stamp[t]
    BY <1>2 DEF Records, Times
  <2>2. urls' = [urls EXCEPT ![c] = r]
    BY <1>1 DEF Update
  <2> QED
    BY <2>1, <2>2
<1>4. r # None /\ r.disabled_at # None
  BY <1>2, <1>3, ServiceConstants DEF Records, Times
<1>5. TypeOK'
  BY <1>2, <1>3 DEF IInv, TypeOK, Statements
<1>6. Grows
  BY <1>2, <1>3, <1>4, ServiceConstants DEF IInv, TypeOK, Grows, Known, Disabled
<1>7. \A u \in Threads \ {t} : LocalsKept(u)
  BY <1>2 DEF IInv, TypeOK, LocalsKept
<1>8. pc'[t] = "refresh" /\ code'[t] = c /\ urls'[c] = r
  BY <1>1, <1>2, <1>3 DEF IInv, TypeOK
<1>9. Session(t)'
  BY <1>4, <1>8
  DEF Session, Asked, HasRow, Known, Disabled, CopyTrue, OverNoticed, Disabling, CountsOrdered
<1>10. ASSUME NEW d \in Codes
       PROVE  Late(d)'
  <2>1. InFlight(d)' \subseteq InFlight(d) /\ t \notin InFlight(d)
    BY <1>2, <1>7, <1>8 DEF InFlight, LocalsKept
  <2>2. CASE d = c /\ ~Withdrawn(c)
    <3>1. late'[c] = 0 /\ Withdrawn(c)'
      BY <1>2, <1>4, <1>8, <2>2 DEF IInv, Late, Withdrawn, Known, Disabled
    <3>2. /\ IsFiniteSet(Threads) /\ Cardinality(Threads) \in Nat
          /\ IsFiniteSet(Threads \ {t})
          /\ Cardinality(Threads \ {t}) = Cardinality(Threads) - 1
      BY ThreadFacts, FS_RemoveElement
    <3>3. InFlight(c)' \subseteq Threads \ {t}
      BY <2>1, <2>2 DEF InFlight
    <3>4. /\ Cardinality(InFlight(c)') <= Cardinality(Threads \ {t})
          /\ Cardinality(InFlight(c)') \in Nat
      BY <3>2, <3>3, FS_Subset, FS_CardinalityType
    <3> QED
      BY <2>2, <3>1, <3>2, <3>4 DEF Late
  <2>3. CASE ~(d = c /\ ~Withdrawn(c))
    <3>1. Withdrawn(d)' <=> Withdrawn(d)
      BY <1>2, <1>3, <1>4, <1>8, <2>3 DEF IInv, TypeOK, Withdrawn, Known, Disabled
    <3> QED
      BY <1>2, <2>1, <3>1, LateStable
  <2> QED
    BY <2>2, <2>3
<1> QED
  BY <1>5, <1>6, <1>7, <1>9, <1>10, OfStep

LEMMA QueryStep ==
  ASSUME IInv, NEW t \in Threads, Total(t) \/ Daily(t) \/ Referrers(t)
  PROVE  IInv'
<1>1. PICK c \in Codes : c = code[t]
  BY DEF IInv, Session, Asked, Total, Daily, Referrers
<1>2. PICK next \in {"daily", "referrers", "report"} :
        /\ pc' = [pc EXCEPT ![t] = next]
        /\ UNCHANGED tables /\ UNCHANGED <<op, code, row, stamp, attempts, begun>>
        /\ pc[t] \in {"total", "daily", "referrers"}
  BY DEF Total, Daily, Referrers, Query
<1>3. clicks[c] \in Nat /\ seen[t] \in Counts /\ begun[t].clicks \in Nat
  BY DEF IInv, TypeOK
<1>4. PICK s \in Counts :
        /\ seen' = [seen EXCEPT ![t] = s]
        /\ next = "daily" => s.total = clicks[c]
        /\ next = "referrers" =>
             pc[t] = "daily" /\ s.total = seen[t].total /\ s.daily = clicks[c]
        /\ next = "report" =>
             /\ pc[t] = "referrers" /\ s.total = seen[t].total /\ s.daily = seen[t].daily
             /\ s.referrers <= clicks[c]
  <2>1. CASE Total(t)
    <3> DEFINE s == [seen[t] EXCEPT !.total = clicks[c]]
    <3>1. s \in Counts /\ s.total = clicks[c]
      BY <1>3 DEF Counts
    <3>2. seen' = [seen EXCEPT ![t] = s] /\ next = "daily"
      BY <1>1, <1>2, <2>1 DEF Total, Query, IInv, TypeOK
    <3> QED
      BY <3>1, <3>2
  <2>2. CASE Daily(t)
    <3> DEFINE s == [seen[t] EXCEPT !.daily = clicks[c]]
    <3>1. s \in Counts /\ s.total = seen[t].total /\ s.daily = clicks[c]
      BY <1>3 DEF Counts
    <3>2. seen' = [seen EXCEPT ![t] = s] /\ next = "referrers" /\ pc[t] = "daily"
      BY <1>1, <1>2, <2>2 DEF Daily, Query, IInv, TypeOK
    <3> QED
      BY <3>1, <3>2
  <2>3. CASE Referrers(t)
    <3>1. PICK n \in 0..clicks[c] : seen' = [seen EXCEPT ![t].referrers = n]
      BY <1>1, <2>3 DEF Referrers, Query
    <3> DEFINE s == [seen[t] EXCEPT !.referrers = n]
    <3>2. /\ s \in Counts /\ s.total = seen[t].total /\ s.daily = seen[t].daily
          /\ s.referrers <= clicks[c]
      BY <1>3 DEF Counts
    <3>3. seen' = [seen EXCEPT ![t] = s] /\ next = "report" /\ pc[t] = "referrers"
      BY <1>2, <2>3, <3>1 DEF Referrers, Query, IInv, TypeOK
    <3> QED
      BY <3>2, <3>3
  <2> QED
    BY <2>1, <2>2, <2>3
<1>5. TypeOK'
  BY <1>2, <1>4 DEF IInv, TypeOK, tables, Statements
<1>6. Grows /\ \A d \in Codes : (Withdrawn(d)' <=> Withdrawn(d)) /\ late'[d] = late[d]
  BY <1>2, TablesKept
<1>7. \A u \in Threads \ {t} : LocalsKept(u)
  BY <1>2, <1>4 DEF IInv, TypeOK, LocalsKept
<1>8. /\ pc'[t] = next /\ code'[t] = c /\ urls' = urls /\ clicks' = clicks
      /\ begun' = begun /\ seen'[t] = s
  BY <1>1, <1>2, <1>4 DEF IInv, TypeOK, tables
<1>9. Session(t)'
  <2>1. Asked(t)' /\ HasRow(t)' /\ CopyTrue(t)' /\ OverNoticed(t)' /\ Disabling(t)'
    BY <1>1, <1>2, <1>8
    DEF IInv, Session, Asked, HasRow, Known, CopyTrue, OverNoticed, Disabling
  <2>2. CountsOrdered(t)
    BY DEF IInv, Session
  <2>3. /\ begun[t].clicks <= clicks[c]
        /\ pc[t] \in {"daily", "referrers"} =>
             begun[t].clicks <= seen[t].total /\ seen[t].total <= clicks[c]
        /\ pc[t] = "referrers" => seen[t].total <= seen[t].daily /\ seen[t].daily <= clicks[c]
    BY <1>1, <1>2, <2>2 DEF CountsOrdered
  <2>4. CountsOrdered(t)'
    BY <1>3, <1>4, <1>8, <2>3 DEF CountsOrdered
  <2> QED
    BY <2>1, <2>4 DEF Session
<1>10. ASSUME NEW d \in Codes
       PROVE  Late(d)'
  <2>1. InFlight(d)' \subseteq InFlight(d)
    BY <1>7, <1>8 DEF InFlight, LocalsKept
  <2> QED
    BY <1>6, <2>1, LateStable
<1> QED
  BY <1>5, <1>6, <1>7, <1>9, <1>10, OfStep

-----------------------------------------------------------------------------

LEMMA IInvInit == Init => IInv
<1> SUFFICES ASSUME Init
             PROVE  IInv
  OBVIOUS
<1>1. TypeOK
  BY ServiceConstants DEF Init, TypeOK, Times, Counts, NoCounts, Nothing
<1>2. ASSUME NEW t \in Threads
      PROVE  Session(t)
  BY DEF Init, Nothing, Session, Asked, HasRow, CopyTrue, OverNoticed, Disabling, CountsOrdered
<1>3. ASSUME NEW c \in Codes
      PROVE  Late(c)
  BY DEF Init, Late, Withdrawn, Known
<1> QED
  BY <1>1, <1>2, <1>3 DEF IInv

LEMMA IInvNext == IInv /\ [Next]_vars => IInv'
<1> SUFFICES ASSUME IInv, [Next]_vars
             PROVE  IInv'
  OBVIOUS
<1>1. CASE UNCHANGED vars
  <2>1. TypeOK'
    BY <1>1 DEF IInv, TypeOK, vars
  <2>2. Grows /\ \A d \in Codes : (Withdrawn(d)' <=> Withdrawn(d)) /\ late'[d] = late[d]
    BY <1>1, TablesKept DEF vars, tables
  <2>3. ASSUME NEW t \in Threads
        PROVE  Session(t)'
    BY <1>1, <2>1, <2>2, SessionStable DEF LocalsKept, vars
  <2>4. ASSUME NEW c \in Codes
        PROVE  Late(c)'
    BY <1>1, <2>2, LateStable DEF InFlight, vars
  <2> QED
    BY <2>1, <2>3, <2>4 DEF IInv
<1>2. CASE Tick
  BY <1>2, TickStep
<1>3. ASSUME NEW t \in Threads, Request(t)
      PROVE  IInv'
  <2>1. PICK c \in Codes :
          \/ \E o \in Creating, days \in Lifetimes : Begin(t, o, c, clock + days)
          \/ \E o \in Operations : Begin(t, o, c, None)
    BY <1>3 DEF Request
  <2>2. CASE \E o \in Creating, days \in Lifetimes : Begin(t, o, c, clock + days)
    <3>1. PICK o \in Creating, days \in Lifetimes : Begin(t, o, c, clock + days)
      BY <2>2
    <3>2. o \in Operations /\ clock + days \in Times
      BY ServiceConstants DEF IInv, TypeOK, Times, Operations
    <3> QED
      BY <3>1, <3>2, BeginStep
  <2>3. CASE \E o \in Operations : Begin(t, o, c, None)
    BY <2>3, BeginStep DEF Times
  <2> QED
    BY <2>1, <2>2, <2>3
<1>4. ASSUME NEW t \in Threads, Step(t) \/ DatabaseFails(t)
      PROVE  IInv'
  <2>1. CASE Return(t)
    BY <2>1, ReturnStep
  <2>2. CASE Insert(t) \/ DrawAgain(t) \/ Found(t) \/ Available(t) \/ Click(t)
    BY <2>2, InsertStep, DrawAgainStep, FoundStep, AvailableStep, ClickStep
  <2>3. CASE Stamp(t) \/ Update(t) \/ Total(t) \/ Daily(t) \/ Referrers(t)
    BY <2>3, StampStep, UpdateStep, QueryStep
  <2> QED
    BY <1>4, <2>1, <2>2, <2>3
    DEF Step, DatabaseFails, Conflict, Refresh, LookupAnswers, Gone, AlreadyDisabled, Report
<1> QED
  BY <1>1, <1>2, <1>3, <1>4 DEF Next

LEMMA IInvHolds == Spec => []IInv
  BY IInvInit, IInvNext, PTL DEF Spec

-----------------------------------------------------------------------------

\* The tables hold rows, and each thread what its request has asked for.
THEOREM TypeCorrect == Spec => []TypeOK
<1>1. IInv => TypeOK
  BY DEF IInv
<1> QED
  BY <1>1, IInvHolds, PTL

\* Of a disabled code no more than one click for each of the other threads is
\* counted late, by the copies that resolve had read before.
THEOREM LateBounded == Spec => []LateClicksBounded
<1>1. IInv => LateClicksBounded
  <2> SUFFICES ASSUME IInv, NEW c \in Codes, late[c] > 0
               PROVE  late[c] < Cardinality(Threads)
    BY DEF LateClicksBounded
  <2>1. /\ late[c] \in Nat /\ Late(c)
        /\ Cardinality(InFlight(c)) \in Nat /\ Cardinality(Threads) \in Nat
    BY ThreadFacts DEF IInv, TypeOK
  <2> QED
    BY <2>1 DEF Late
<1> QED
  BY <1>1, IInvHolds, PTL

\* The three queries of analytics return numbers in order.
THEOREM CountsInOrder == Spec => []AnalyticsOrdered
<1>1. IInv => AnalyticsOrdered
  BY DEF IInv, Session, CountsOrdered, AnalyticsOrdered
<1> QED
  BY <1>1, IInvHolds, PTL

LEMMA TablesGrow ==
  ASSUME IInv, [Next]_vars
  PROVE  \A c \in Codes : Known(c) =>
           /\ urls'[c] # None
           /\ urls'[c].expires_at = urls[c].expires_at
           /\ Disabled(urls[c]) => Disabled(urls'[c])
<1>1. ASSUME NEW t \in Threads, Insert(t)
      PROVE  \A c \in Codes : Known(c) => urls'[c] = urls[c]
  BY <1>1 DEF IInv, TypeOK, Insert, Known
<1>2. ASSUME NEW t \in Threads, Update(t), NEW c \in Codes, Known(c)
      PROVE  /\ urls'[c] # None
             /\ urls'[c].expires_at = urls[c].expires_at
             /\ Disabled(urls[c]) => Disabled(urls'[c])
  <2>1. urls[c] \in Records /\ stamp[t] \in Nat
    BY <1>2 DEF IInv, TypeOK, Known, Session, Disabling, Update
  <2>2. urls'[c] \in {urls[c], [urls[c] EXCEPT !.disabled_at = stamp[t]]}
    BY <1>2 DEF IInv, TypeOK, Update
  <2> QED
    BY <1>2, <2>1, <2>2, ServiceConstants DEF Records, Times, Disabled, Known
<1>3. \/ urls' = urls
      \/ \E t \in Threads : Insert(t) \/ Update(t)
  BY DEF Next, vars, tables, Tick, Request, Begin, Step, DatabaseFails, Return, Conflict,
         DrawAgain, Refresh, LookupAnswers, Found, Gone, Available, Click, AlreadyDisabled,
         Stamp, Total, Daily, Referrers, Report, Query
<1> QED
  BY <1>1, <1>2, <1>3 DEF Known

\* create never replaces a row; disable changes its time at most.
THEOREM RowsLast == Spec => RecordsLast
<1>1. IInv /\ [Next]_vars =>
        [\A c \in Codes : Known(c) =>
           /\ urls'[c] # None
           /\ urls'[c].expires_at = urls[c].expires_at
           /\ Disabled(urls[c]) => Disabled(urls'[c])]_vars
  BY TablesGrow
<1> QED
  BY <1>1, IInvHolds, PTL DEF Spec, RecordsLast

\* No redirect by a code that was over when the request began; no 410, 409, 201
\* or "disabled" that is not so.
THEOREM AnswersHold == Spec => AnswersTrue
<1> DEFINE Truth ==
      \A t \in Threads : LET c == code[t] IN
        /\ pc[t] = "click" /\ pc'[t] = "idle" /\ clicks' # clicks => ~begun[t].over
        /\ Gone(t) => Over(c)
        /\ AlreadyDisabled(t) \/ (Refresh(t) /\ op[t] = "disable") => Disabled(urls[c])
        /\ Refresh(t) \/ Conflict(t) => Known(c)
<1>1. IInv => Truth
  <2> SUFFICES ASSUME IInv, NEW t \in Threads
               PROVE  LET c == code[t] IN
                 /\ pc[t] = "click" /\ pc'[t] = "idle" /\ clicks' # clicks => ~begun[t].over
                 /\ Gone(t) => Over(c)
                 /\ AlreadyDisabled(t) \/ (Refresh(t) /\ op[t] = "disable") => Disabled(urls[c])
                 /\ Refresh(t) \/ Conflict(t) => Known(c)
    OBVIOUS
  <2>1. Session(t)
    BY DEF IInv
  <2>2. pc[t] = "click" => ~begun[t].over
    BY <2>1 DEF Session, OverNoticed
  <2>3. ASSUME Gone(t)
        PROVE  Over(code[t])
    <3>1. Known(code[t]) /\ CopyTrue(t) /\ pc[t] = "check" /\ Unavailable(row[t], clock)
      BY <2>1, <2>3 DEF Session, HasRow, Gone
    <3> QED
      BY <3>1 DEF CopyTrue, Over, Unavailable, IsExpired
  <2>4. AlreadyDisabled(t) \/ (Refresh(t) /\ op[t] = "disable") => Disabled(urls[code[t]])
    BY <2>1 DEF Session, CopyTrue, Disabling, AlreadyDisabled, Refresh
  <2>5. Refresh(t) \/ Conflict(t) => Known(code[t])
    BY <2>1 DEF Session, HasRow, Refresh, Conflict
  <2> QED
    BY <2>2, <2>3, <2>4, <2>5
<1>2. IInv /\ [Next]_vars => [Truth]_vars
  BY <1>1
<1> QED
  BY <1>2, IInvHolds, PTL DEF Spec, AnswersTrue

\* Only disable comes to a test or an update, so only it and an insert come to
\* a refresh, and the insert finds the code without a row.
Apart ==
  /\ CodesApart
  /\ \A t \in Threads : pc[t] \in {"test", "update"} => op[t] = "disable"

\* The requests other than one stay where they are; that one comes to a refresh
\* as disable, or with a code that had no row.
LEMMA ApartStep ==
  ASSUME IInv, Apart, NEW t \in Threads,
         \A u \in Threads \ {t} : pc'[u] = pc[u] /\ op'[u] = op[u] /\ code'[u] = code[u],
         pc'[t] \in {"test", "update"} => op'[t] = "disable",
         pc'[t] = "refresh" => op'[t] \notin Creating \/ ~Known(code'[t])
  PROVE  Apart'
<1>1. \A u \in Threads : pc[u] = "refresh" => Known(code[u])
  BY DEF IInv, Session, HasRow
<1>2. CodesApart'
  BY <1>1 DEF Apart, CodesApart, Creating
<1> QED
  BY <1>2 DEF Apart

LEMMA ApartNext ==
  ASSUME IInv, Apart, [Next]_vars
  PROVE  Apart'
<1>1. TypeOK
  BY DEF IInv
<1>2. CASE UNCHANGED vars \/ Tick
  BY <1>2 DEF Apart, CodesApart, vars, Tick
<1>3. ASSUME NEW t \in Threads, Request(t)
      PROVE  Apart'
  <2>1. /\ \A u \in Threads \ {t} : pc'[u] = pc[u] /\ op'[u] = op[u] /\ code'[u] = code[u]
        /\ pc'[t] \in {"insert", "lookup"}
    BY <1>1, <1>3 DEF Request, Begin, TypeOK
  <2> QED
    BY <2>1, ApartStep
<1>4. ASSUME NEW t \in Threads, Step(t) \/ DatabaseFails(t)
      PROVE  Apart'
  <2>1. CASE Answer(t)
    <3>1. /\ \A u \in Threads \ {t} : pc'[u] = pc[u] /\ op'[u] = op[u] /\ code'[u] = code[u]
          /\ pc'[t] = "idle"
      BY <1>1, <2>1 DEF Answer, TypeOK
    <3> QED
      BY <3>1, ApartStep
  <2>2. CASE Insert(t) \/ Update(t)
    <3>1. /\ \A u \in Threads \ {t} : pc'[u] = pc[u]
          /\ UNCHANGED <<op, code>>
          /\ pc'[t] = "refresh"
      BY <1>1, <2>2 DEF Insert, Update, GoTo, TypeOK
    <3>2. op[t] \notin Creating \/ ~Known(code[t])
      BY <2>2 DEF Insert, Update, Apart, Creating
    <3>3. \A u \in Threads \ {t} : op'[u] = op[u] /\ code'[u] = code[u]
      BY <3>1
    <3>4. pc'[t] = "refresh" => op'[t] \notin Creating \/ ~Known(code'[t])
      BY <3>1, <3>2
    <3> QED
      BY <3>1, <3>3, <3>4, ApartStep
  <2>3. CASE DrawAgain(t)
    <3>1. /\ \A u \in Threads \ {t} : pc'[u] = pc[u] /\ op'[u] = op[u] /\ code'[u] = code[u]
          /\ pc'[t] = "insert"
      BY <1>1, <2>3 DEF DrawAgain, TypeOK
    <3> QED
      BY <3>1, ApartStep
  <2>4. CASE Found(t)
    <3>1. /\ op[t] \in {"resolve", "disable", "analytics"}
          /\ pc' = [pc EXCEPT ![t] = AfterLookup[op[t]]]
          /\ UNCHANGED <<op, code>>
      BY <2>4 DEF Found, GoTo, IInv, Session, Asked, Operations, Creating
    <3>2. /\ \A u \in Threads \ {t} : pc'[u] = pc[u] /\ op'[u] = op[u] /\ code'[u] = code[u]
          /\ pc'[t] \in {"check", "test", "total"}
          /\ pc'[t] = "test" => op'[t] = "disable"
      BY <1>1, <3>1 DEF AfterLookup, TypeOK
    <3> QED
      BY <3>2, ApartStep
  <2>5. CASE Available(t) \/ Stamp(t)
    <3>1. /\ \A u \in Threads \ {t} : pc'[u] = pc[u] /\ op'[u] = op[u] /\ code'[u] = code[u]
          /\ pc'[t] \in {"click", "update"}
          /\ pc'[t] = "update" => op'[t] = "disable"
      BY <1>1, <2>5 DEF Available, Stamp, GoTo, TypeOK, Apart
    <3> QED
      BY <3>1, ApartStep
  <2>6. CASE Total(t) \/ Daily(t) \/ Referrers(t)
    <3>1. /\ \A u \in Threads \ {t} : pc'[u] = pc[u] /\ op'[u] = op[u] /\ code'[u] = code[u]
          /\ pc'[t] \in {"daily", "referrers", "report"}
      BY <1>1, <2>6 DEF Total, Daily, Referrers, Query, TypeOK
    <3> QED
      BY <3>1, ApartStep
  <2> QED
    BY <1>4, <2>1, <2>2, <2>3, <2>4, <2>5, <2>6
    DEF Step, DatabaseFails, Conflict, Refresh, LookupAnswers, Gone, AlreadyDisabled, Report,
        Click, Return
<1> QED
  BY <1>2, <1>3, <1>4 DEF Next

\* No two calls of create answer with the same code.
THEOREM CodesGivenOnce == Spec => []CodesApart
<1>1. Init => Apart
  BY DEF Init, Apart, CodesApart
<1>2. IInv /\ Apart /\ [Next]_vars => Apart'
  BY ApartNext
<1>3. Apart => CodesApart
  BY DEF Apart
<1> QED
  BY <1>1, <1>2, <1>3, IInvHolds, PTL DEF Spec

=============================================================================
