-------------------------------- MODULE MCRbac --------------------------------
(* Two administrators, each on a worker of its own. *)
EXTENDS Rbac

CONSTANTS c1, c2, w1, w2

OneOfTwo == {<<1, 1>>}
OnTheirOwn == [a \in {c1, c2} |-> IF a = c1 THEN w1 ELSE w2]
=============================================================================
