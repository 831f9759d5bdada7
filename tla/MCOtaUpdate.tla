---------------------------- MODULE MCOtaUpdate ----------------------------
(* Finite instances of OtaUpdate: two versions, and two builds of each.    *)
EXTENDS OtaUpdate

Bin(v, b) == [version |-> v, build |-> b]
Push(id, v, b) == [id |-> id, bin |-> Bin(v, b)]

First == Bin("v1", 1)

(* A new version, a rebuild of the installed one, and a way back to it. *)
Pushes == {Push("u1", "v2", 1), Push("u2", "v1", 2), Push("u3", "v1", 1)}
FewPushes == {Push("u1", "v2", 1), Push("u2", "v1", 2)}
Wanted == {Push("goal", "v2", 2)}

AllFaults == {"http", "io", "ioLate", "store", "crash", "rollback", "unversioned"}
=============================================================================
