------------------------ MODULE MC_SubmitExtrinsic -------------------------
(* Model values for one submission of the get-request extrinsic: three     *)
(* candidate blocks (two reorganisations), and event lists that differ     *)
(* between blocks, so that a stale capture is observable.                  *)
EXTENDS SubmitExtrinsic

CONSTANTS b1, b2, b3, e1, e2

MCBlocks == {b1, b2, b3}
MCEventLists == {<<>>, <<e1>>, <<e2>>, <<e1, e2>>}
=============================================================================
