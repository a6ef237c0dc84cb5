---------------------------- MODULE MCDeviceRoster ----------------------------
(***************************************************************************)
(* Two devices of one account: A made its identity, and B's user may claim *)
(* the role.                                                               *)
(***************************************************************************)
EXTENDS DeviceRoster, TLC

CONSTANTS A, B

\* A behaviour is followed until a second roster is founded or one is
\* published over another than it was made from.  Nothing is claimed from
\* there on, and nothing else is cut: every state before is followed to all
\* its successors.
UntilAstray == crossed \cap {"signed", "founded"} = {}
==============================================================================
