-------------------------- MODULE MCFetchLifetime --------------------------
EXTENDS FetchLifetime, TLC

Interchangeable == Permutations(Requests) \cup Permutations(Fetches)

=============================================================================
