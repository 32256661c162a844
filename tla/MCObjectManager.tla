--------------------------- MODULE MCObjectManager ---------------------------
(* Instances of ObjectManager for TLC. *)
EXTENDS ObjectManager, TLC

CONSTANTS rootDir, deviceDir, con, o1, o2, o3, t1, t2, none

\* One handle, two, the same one twice, and a second one that may be invalid.
MCWaitHandles == {<<4>>, <<4, 8>>, <<8, 8>>, <<8, 12>>}
=============================================================================
