---------------------------- MODULE MCServerUse ----------------------------
(* ServerUse for TLC: the programs of the clients.                          *)
EXTENDS ServerUse, TLC

CONSTANTS waiter, waker

(* A client that waits, or ends the use of the objects, and one that wakes it
   up.                                                                      *)
MonitorPrograms ==
    (waiter :> <<{"ACQUIRE", "SET_MV", "DESTROY_LOCK", "DESTROY_CV", "DESTROY_MV"},
                 {"WAIT", "BROADCAST", "GET_MV", "RELEASE"}>>) @@
    (waker  :> <<{"ACQUIRE", "SIGNAL"}, {"SIGNAL", "RELEASE"}, {"SIGNAL", "RELEASE", "ACQUIRE"}>>)
=============================================================================
