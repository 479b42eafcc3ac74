------------------------------ MODULE MCNotify ------------------------------
(***************************************************************************)
(* An instance of Notify: the client NewNotifyClient makes, and supplied   *)
(* ones with and without a timeout and a redirect policy.                  *)
(***************************************************************************)
EXTENDS Notify

Client(own, redirect, timed) == [own |-> own, redirect |-> redirect, timed |-> timed]

MCClients ==
  {Client(TRUE, "unset", TRUE), Client(FALSE, "unset", FALSE), Client(FALSE, "follows", TRUE)}
=============================================================================
