-------------------------- MODULE MCConsoleOutput --------------------------
(***************************************************************************)
(* ConsoleOutput on small instances: the main thread and two more, two     *)
(* receivers of which the second is not thread-safe, a ring of two slots.  *)
(***************************************************************************)
EXTENDS ConsoleOutput

MCReceivers == {1, 2}
MCSafeReceivers == {1}
MCUnsafeReceivers == MCReceivers \ MCSafeReceivers
MCNobody == {}
=============================================================================
