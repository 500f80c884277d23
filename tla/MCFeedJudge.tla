----------------------------- MODULE MCFeedJudge -----------------------------
\* FeedJudge on a mesh of interchangeable nodes, with an observer.
EXTENDS FeedJudge, TLC

Interchangeable == Permutations(Nodes)

===============================================================================
