------------------------------ MODULE ThreadPool ------------------------------
(***************************************************************************)
(* The thread pool of the server: every handler of app/modules is a plain  *)
(* def, and FastAPI runs it on one of these threads, while the others run  *)
(* other handlers on the same repositories.                                *)
(***************************************************************************)
CONSTANT Threads     \* worker threads that can run a handler at one time
==============================================================================
