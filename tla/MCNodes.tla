------------------------------ MODULE MCNodes -------------------------------
(***************************************************************************)
(* beacon_goalpose and diff_drive_controller, which share no topic and no  *)
(* state: TLC checks both in one run, each while the other is at its start. *)
(* The product of the two, which says nothing more, is left out.           *)
(***************************************************************************)
EXTENDS GoalPose, DiffDrive

MCInit == Init /\ DriveInit
MCNext ==
    \/ DriveInit /\ Next /\ UNCHANGED driveVars
    \/ Init /\ DriveNext /\ UNCHANGED vars
MCSpec == MCInit /\ [][MCNext]_<<vars, driveVars>>
=============================================================================
