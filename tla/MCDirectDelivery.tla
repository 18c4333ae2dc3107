-------------------------- MODULE MCDirectDelivery --------------------------
(***************************************************************************)
(* An instance of DirectDelivery for TLC: the slots of an answer, its      *)
(* images, the card of one approval and each /get.                         *)
(***************************************************************************)
EXTENDS DirectDelivery

CONSTANT WithImages

AllSlots   == DirectSlots
AllMedia   == ImageSlots \cup GetSlots
AllCallers == {"actor", "drive", "boot"} \cup Gets
Ended(status, legible, item) ==
    [status |-> status, legible |-> legible,
     items |-> [i \in 1 .. Images |-> item]]
SomeTurns == {Ended("COMPLETED", TRUE, "done")}
             \cup IF WithImages
                  THEN {Ended("COMPLETED", FALSE, "done"),
                        Ended("FAILED", TRUE, "failed")}
                  ELSE {}
Versions   == {"saved", "asked", "closed"}
=============================================================================
