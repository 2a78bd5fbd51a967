-------------------------- MODULE MCEngineSession --------------------------
(* The connections EngineSession is checked on: a client, a server with    *)
(* frames cut anywhere, and a server with two requests in whole frames.    *)
EXTENDS EngineSession

Client == [perspective |-> "client", requests |-> {4}, goaway |-> {2, 4, 8},
           split |-> TRUE]
Server == [perspective |-> "server", requests |-> {0}, goaway |-> {4},
           split |-> TRUE]
TwoRequests == [perspective |-> "server", requests |-> {0, 4}, goaway |-> {},
                split |-> FALSE]
MCRoles == {Client, Server, TwoRequests}
=============================================================================
