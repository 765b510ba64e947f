------------------------------- MODULE MCDemo -------------------------------
EXTENDS Demo

GetAndPost == <<"get", "post">>

=============================================================================
