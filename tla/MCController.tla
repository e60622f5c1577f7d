---------------------------- MODULE MCController ----------------------------
(***************************************************************************)
(* Small instances of the ticket lifecycle for TLC.                        *)
(***************************************************************************)
EXTENDS ControllerProperties, TLC

TicketSymmetry == Permutations(Tickets)
=============================================================================
