\* Two requests at once on two codes; two clicks.
SPECIFICATION Spec
CONSTANT Threads = {t1, t2}
CONSTANT Codes = {c1, c2}
CONSTANT None = None
CONSTANT Lifetimes = {1}
CONSTANT MaxTime = 1
CONSTANT MaxClicks = 2
INVARIANT TypeOK
INVARIANT LateClicksBounded
INVARIANT CodesApart
INVARIANT AnalyticsOrdered
PROPERTY AnswersTrue
PROPERTY RecordsLast
SYMMETRY Alike
