--------------------------- MODULE MCLogoutQueue ---------------------------
(* Small instances of LogoutQueue. *)
EXTENDS LogoutQueue

RetrySchedule == <<0, 1>>
=============================================================================
