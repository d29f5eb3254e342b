------------------------------ MODULE Handlers ------------------------------
(* What the modules about the /v1/me routes share.                         *)
CONSTANTS
    Request,   \* goroutines serving requests
    None       \* Go nil, SQL NULL
=============================================================================
