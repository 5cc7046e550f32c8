--------------------------- MODULE MCSerialTasks ---------------------------
(* Instances of SerialTasks for TLC. *)
EXTENDS SerialTasks
CONSTANTS t1, t2
TwoTasks == {t1, t2}
SmallStack == {-2, 1}
TwoRequests == {1, 2}
AllCalls == CallKinds
=============================================================================
