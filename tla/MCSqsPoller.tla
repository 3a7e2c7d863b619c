---------------------------- MODULE MCSqsPoller ----------------------------
(* Instances of SqsPoller for TLC: a message with two good records around an empty key, and one    *)
(* with an undecodable key behind a good one.                                                       *)
EXTENDS SqsPoller, TLC

CONSTANTS m1, m2

MCBody == (m1 :> <<"good", "empty", "good">>) @@ (m2 :> <<"good", "bad">>)
=============================================================================
