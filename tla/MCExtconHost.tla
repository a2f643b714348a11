----------------------------- MODULE MCExtconHost -----------------------------
(***************************************************************************)
(* ExtconHost on small instances: the main thread, the worker and one more *)
(* thread that prints, a ring of two slots and a queue of one message.     *)
(***************************************************************************)
EXTENDS ExtconHost

\* A message that was not sent: the messages are numbered from 1.
MCLost == -1
=============================================================================
