------------------------------ MODULE MCNetplay ------------------------------
(***************************************************************************)
(* Netplay with two kinds of input, of which the client may give one.      *)
(***************************************************************************)
EXTENDS Netplay

MCInputs == {"key", "joystick"}
MCControl == [server |-> {"key"}, client |-> MCInputs]
MCDeltas == {2, 3}

=============================================================================
