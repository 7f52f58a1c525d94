---------------------------- MODULE MCImageMount ----------------------------
(* Two images and one device name, so that a unit detached from one image   *)
(* is soon attached for the other; one of them is on USB storage.           *)
EXTENDS ImageMount

CONSTANTS p1, p2, m1, m2, d1, d2, w1, w2

MountPointOf == [p \in Paths |-> IF p = p1 THEN m1 ELSE m2]

NothingMounted == [m \in MountPoints |-> <<>>]

MountLeftBehind == [m \in MountPoints |-> IF m = m1 THEN <<d1>> ELSE <<>>]

=============================================================================
