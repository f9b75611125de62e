----------------------------- MODULE MCUrlService -----------------------------
EXTENDS UrlService, TLC

\* Threads are alike, and so are codes.
Alike == Permutations(Threads) \cup Permutations(Codes)
=============================================================================
