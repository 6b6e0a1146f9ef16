--------------------------- MODULE OrchestratorFlow ---------------------------
(***************************************************************************)
(* What the orchestrator promises (spec §4.7): one get-request driven      *)
(* through                                                                 *)
(*                                                                         *)
(*   Idle -> RequestSubmitted -> CommitmentKnown -> RequestResolved        *)
(*        -> ProofFetched -> ResponseSubmitted | Failed                    *)
(*                                                                         *)
(* strictly in this order, no phase revisited, and Failed reachable from   *)
(* every phase that is not terminal (§7: any component failure stops the  *)
(* flow).  Each transition fixes what its component returns: the          *)
(* commitment of the submitted request (§4.2), a request whose Get has    *)
(* the known source and dest (§4.4, §8), a proof at the request's height  *)
(* (§4.5), only for a Get (§4.6), and a response built from exactly that  *)
(* request and proof, naming the responder (§4.6).                        *)
(***************************************************************************)
CONSTANTS
  Commitments,  \* the commitments the submitted get-request may be given
  NoComm,       \* no commitment known yet
  None,         \* no request, proof or response yet
  Source, Dest  \* the identities of the requester and the responder

VARIABLES phase, commitment, request, proof, response

avars == <<phase, commitment, request, proof, response>>

Terminal == {"ResponseSubmitted", "Failed"}

Init ==
  /\ phase = "Idle"
  /\ commitment = NoComm
  /\ request = None /\ proof = None /\ response = None

Move(from, to) == phase = from /\ phase' = to

(* The get-request call is submitted and finalized (§4.1).                 *)
SubmitRequest ==
  /\ Move("Idle", "RequestSubmitted")
  /\ UNCHANGED <<commitment, request, proof, response>>

(* The request event of the InBlock events gives its commitment (§4.2).    *)
ExtractCommitment ==
  /\ Move("RequestSubmitted", "CommitmentKnown")
  /\ commitment' \in Commitments
  /\ UNCHANGED <<request, proof, response>>

(* The request stored under the commitment, a Get with source and dest     *)
(* overwritten by the known identities (§4.4).                            *)
ResolveRequest ==
  /\ Move("CommitmentKnown", "RequestResolved")
  /\ request'.kind \in {"get", "post"}
  /\ request'.kind = "get" => request'.src = Source /\ request'.dst = Dest
  /\ UNCHANGED <<commitment, proof, response>>

(* A proof at the request's height; a Post has no height to prove at      *)
(* (§4.5, §4.6).                                                          *)
FetchProof ==
  /\ Move("RequestResolved", "ProofFetched")
  /\ request.kind = "get"
  /\ proof' = [at |-> request.height]
  /\ UNCHANGED <<commitment, request, response>>

(* The response is built from the request and the proof, its proof height *)
(* claimed for the responder, submitted and finalized (§4.6, §4.1).       *)
SubmitResponse ==
  /\ Move("ProofFetched", "ResponseSubmitted")
  /\ response' = [request |-> request, id |-> Dest,
                  height |-> request.height, proofAt |-> proof.at]
  /\ UNCHANGED <<commitment, request, proof>>

Fail ==
  /\ phase \notin Terminal
  /\ phase' = "Failed"
  /\ UNCHANGED <<commitment, request, proof, response>>

Next ==
  \/ SubmitRequest \/ ExtractCommitment \/ ResolveRequest
  \/ FetchProof \/ SubmitResponse \/ Fail

Spec == Init /\ [][Next]_avars

=============================================================================
