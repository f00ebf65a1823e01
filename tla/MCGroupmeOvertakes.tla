-------------------------- MODULE MCGroupmeOvertakes --------------------------
(* Small instances of GroupmeOvertakes, with the messages of MCGroupmeBot. *)
EXTENDS MCGroupmeBot, GroupmeOvertakes
=============================================================================
