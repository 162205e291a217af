----------------------------- MODULE SessionsMC -----------------------------
(* Instances of Sessions for TLC. *)
EXTENDS Sessions, TLC

CONSTANTS ADMIN, MEMBER, i1

(* resolveConcurrentSessionLimit, scaled down: a member has three in the
   code, two here, so that the third session exceeds it. *)
RoleLimit  == (ADMIN :> 1) @@ (MEMBER :> 2)
MemberOffer == i1 :> MEMBER
Symmetry == Permutations(Requests)
=============================================================================
