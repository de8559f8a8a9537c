---------------------------- MODULE MCConnector ----------------------------
(***************************************************************************)
(* Values for Connector's constants.  Two calls of one task show what a    *)
(* task object keeps from one call to the next; the third call may be      *)
(* another task's.                                                         *)
(***************************************************************************)
EXTENDS Connector

CONSTANTS query, batch, sensor, prompt
=============================================================================
