------------------------------ MODULE MCService ------------------------------
(* Instances of Service for TLC: requests are model values, each with a    *)
(* kind.                                                                   *)
EXTENDS Service

CONSTANTS r1, r2, r3

MCCmds2 == {r1, r2}
MCKind2 == (r1 :> "pub1") @@ (r2 :> "sub")
MCCmds1 == {r1}
MCKind1 == r1 :> "pub1"
MCKindPubs == (r1 :> "pub1") @@ (r2 :> "pub0")
MCKindTwoPub1 == (r1 :> "pub1") @@ (r2 :> "pub0") @@ (r3 :> "pub1")
MCCmds3 == {r1, r2, r3}
MCKind3 == (r1 :> "pub1") @@ (r2 :> "pub0") @@ (r3 :> "unsub")
=============================================================================
