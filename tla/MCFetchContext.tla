--------------------------- MODULE MCFetchContext ---------------------------
EXTENDS FetchContext, TLC

PlainConfigs == {[resume |-> FALSE, fail_on_http_error |-> TRUE]}
AllConfigs == Config

RequestSymmetry == Permutations(Requests)

=============================================================================
