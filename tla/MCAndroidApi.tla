----------------------------- MODULE MCAndroidApi -----------------------------
(***************************************************************************)
(* Overlapping launches: they share a wait handle, the id counter and the  *)
(* cache of the channel.                                                   *)
(***************************************************************************)
EXTENDS AndroidApi

MCMethods == {"launch_application"}
MCMethod == [c \in Calls |-> "launch_application"]
===============================================================================
