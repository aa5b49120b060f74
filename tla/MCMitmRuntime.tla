---------------------------- MODULE MCMitmRuntime ----------------------------
EXTENDS MitmRuntime

\* One session owns every socket; its sockets are alike.
MCOwner == [s \in Sockets |-> CHOOSE o \in Owners : TRUE]
=============================================================================
