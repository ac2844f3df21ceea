--------------------------- MODULE MCServerSwitch ---------------------------
(***************************************************************************)
(* Values for ServerSwitch that a .cfg cannot write.  Between the two      *)
(* profiles one server stays, one moves to another address, one goes and   *)
(* one comes.                                                              *)
(***************************************************************************)
EXTENDS ServerSwitch

TwoProfiles ==
  [old |-> [barguzin |-> "ip1", sirokko |-> "ip2", zonda |-> "ip3"],
   new |-> [barguzin |-> "ip1", sirokko |-> "ip4", yauk  |-> "ip5"]]
=============================================================================
