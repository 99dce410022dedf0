------------------------------ MODULE MCDrain ------------------------------
(* Instances of Drain, with one other requestor where there is any.         *)
EXTENDS Drain

CONSTANTS gpu

SharedSetup == {[defaultPrefix |-> TRUE, singleNode |-> FALSE]}

AllSetups == [defaultPrefix : BOOLEAN, singleNode : BOOLEAN]

=============================================================================
