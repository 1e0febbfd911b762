--------------------------- MODULE TokenRotation ---------------------------
(***************************************************************************)
(* What the login provider promises for one principal: its token is minted *)
(* once, rotations happen one at a time, each replaces the token by a      *)
(* newer one or leaves it, and nothing else ever changes it.               *)
(***************************************************************************)
EXTENDS Naturals

VARIABLES
    token,    \* generation of the token the provider serves; 0 before the mint
    rotating  \* a rotation is under way

rotationVars == <<token, rotating>>

RotationInit == token = 0 /\ rotating = FALSE

Mint == token = 0 /\ ~rotating /\ token' \in Nat \ {0} /\ UNCHANGED rotating

Begin == token # 0 /\ ~rotating /\ rotating' = TRUE /\ UNCHANGED token

Rotate == rotating /\ token' \in Nat /\ token' > token /\ UNCHANGED rotating

End == rotating /\ rotating' = FALSE /\ UNCHANGED token

RotationNext == Mint \/ Begin \/ Rotate \/ End

RotationSpec == RotationInit /\ [][RotationNext]_rotationVars
=============================================================================
