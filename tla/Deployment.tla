----------------------------- MODULE Deployment -----------------------------
(* What the modules about server processes share.                          *)
CONSTANT Instance   \* the instances of the service that run side by side
=============================================================================
