--------------------------- MODULE IsmpGetRefinement ---------------------------
(***************************************************************************)
(* run() of ismp-get.ts implements the orchestrator of spec §4.7          *)
(* (OrchestratorFlow) under the mapping Flow of IsmpGet: every step of    *)
(* IsmpGet is a step of the flow or leaves the flow's state alone.        *)
(*                                                                         *)
(* The data each flow transition promises comes from the invariants of    *)
(* IsmpGet_proofs: the commitment is one the get-request may get           *)
(* (FindOwnCommitment), the resolved request is the run's own Get         *)
(* (GInv), the proof's height is the request's (PInv).  One more fact is  *)
(* needed, FInv: from "respond" on, the proof was read at the request's   *)
(* height, so the response run() completes with carries that proof.       *)
(***************************************************************************)
EXTENDS IsmpGet_proofs

FInv ==
  pc \in {"respond", "awaitResp", "done"} => proof # NoDgram /\ proof.at = req.height

RInv == TInv /\ GInv /\ PInv /\ FInv

(* Every step of ismp-get.ts keeps FInv: ReadProof reads at the hash of   *)
(* the request's height (PInv), and nothing after it changes the proof or *)
(* the request.                                                            *)
LEMMA NextFInv ==
  ASSUME PInv, FInv, [Next]_vars
  PROVE  FInv'
<1>1. ASSUME pc' \notin {"respond", "awaitResp", "done"} PROVE FInv'
  BY <1>1 DEF FInv
<1>2. ASSUME pc \in {"respond", "awaitResp", "done"}, proof' = proof, req' = req
      PROVE  FInv'
  BY <1>2 DEF FInv
<1>3. CASE UNCHANGED orch
  BY <1>3 DEF FInv, orch
<1>4. CASE ReadProof
  BY <1>4, <1>1 DEF ReadProof, FInv, PInv, NoDgram
<1>5. CASE Respond \/ AwaitResp
  BY <1>5, <1>2 DEF Respond, Goto, AwaitResp
<1>6. CASE Fund \/ AddPara \/ ReadHeight \/ SubmitGet \/ AwaitGet
  BY Zenon, <1>6, <1>1 DEF Fund, AddPara, ReadHeight, SubmitGet, Goto, AwaitGet
<1>7. CASE FindCommitment \/ ReadFirstRequest \/ QueryRequest \/ Crash
  BY Zenon, <1>7, <1>1 DEF FindCommitment, ReadFirstRequest, QueryRequest, Crash
<1>8. CASE BlockHash \/ RtMakeResponse
  BY Zenon, <1>8, <1>1 DEF BlockHash, RtMakeResponse, BlockHashAt, IsGetRequest
<1>. QED
  BY <1>3, <1>4, <1>5, <1>6, <1>7, <1>8, OrchestratorSteps
  DEF Next, AhProduce, PopLearn, XcmArrive, ReqChain, RespChain, vars

(* In ismp-get.ts RInv holds in every reachable state.                      *)
LEMMA RInvHolds ==
  ASSUME CommitmentSource = "event"
  PROVE  Spec => []RInv
<1>1. Init => RInv
  BY InitTInv, InitGInv, InitPInv DEF RInv, FInv, Init
<1>2. RInv /\ [Next]_vars => RInv'
  BY NextTInv, NextGInv, NextPInv, NextFInv DEF RInv
<1>. QED
  BY <1>1, <1>2, PTL DEF Spec

-----------------------------------------------------------------------------
(* The mapping, step by step.                                              *)

(* A step that leaves run() alone leaves the flow alone.                   *)
LEMMA OrchKept ==
  ASSUME UNCHANGED orch
  PROVE  UNCHANGED Flow!avars
  BY DEF orch, Flow!avars, PhaseOf, ProofOf, ResponseOf

(* A step of run() within one phase, before completion, that changes     *)
(* neither the commitment, the request nor the proof is a stutter.        *)
LEMMA WithinPhase ==
  ASSUME PhaseOf' = PhaseOf, pc # "done", pc' # "done",
         UNCHANGED <<comm, req, proof>>
  PROVE  UNCHANGED Flow!avars
  BY DEF Flow!avars, ProofOf, ResponseOf

(* A failure of run() before completion is the flow's Fail.                *)
LEMMA FailStep ==
  ASSUME NEW from \in {"fund", "addPara", "height", "submit", "await", "find",
                       "query", "blockhash", "proof", "respond", "awaitResp"},
         pc = from, pc' = "failed", UNCHANGED <<comm, req, proof>>
  PROVE  Flow!Fail
  BY DEF Flow!Fail, Flow!Terminal, PhaseOf, ProofOf, ResponseOf

(* Every step of ismp-get.ts, in event mode and between states of RInv, is *)
(* a flow step under Flow, or leaves the flow's state alone: the legs and *)
(* the chains are internal, the phases of run() map as PhaseOf says, and  *)
(* the region-transfer steps are not taken.                               *)
LEMMA StepRefines ==
  ASSUME CommitmentSource = "event", RInv, RInv', [Next]_vars
  PROVE  [Flow!Next]_Flow!avars
<1>1. CASE UNCHANGED orch
  BY <1>1, OrchKept
<1>2. CASE Fund
  <2>1. CASE pc' = "addPara"
    BY <1>2, <2>1, WithinPhase DEF Fund, PhaseOf
  <2>2. CASE pc' = "failed"
    BY <1>2, <2>2, FailStep DEF Fund, Flow!Next
  <2>. QED
    BY <1>2, <2>1, <2>2 DEF Fund
<1>3. CASE AddPara
  <2>1. CASE pc' = "height"
    BY <1>3, <2>1, WithinPhase DEF AddPara, PhaseOf
  <2>2. CASE pc' = "failed"
    BY <1>3, <2>2, FailStep DEF AddPara, Flow!Next
  <2>. QED
    BY <1>3, <2>1, <2>2 DEF AddPara
<1>4. CASE ReadHeight \/ SubmitGet
  BY <1>4, WithinPhase DEF ReadHeight, SubmitGet, Goto, PhaseOf
<1>5. CASE AwaitGet
  <2>1. CASE pc' = "find"
    BY <1>5, <2>1 DEF AwaitGet, Flow!Next, Flow!SubmitRequest, Flow!Move,
       PhaseOf, ProofOf, ResponseOf
  <2>2. CASE pc' = "failed"
    BY <1>5, <2>2, FailStep DEF AwaitGet, Flow!Next
  <2>. QED
    BY <1>5, <2>1, <2>2 DEF AwaitGet
<1>6. CASE FindCommitment
  <2>1. CASE pc' = "query"
    <3>1. comm' \in OwnCommitments
      BY <2>1 DEF RInv, GInv
    <3>. QED
      BY <1>6, <2>1, <3>1 DEF FindCommitment, Flow!Next, Flow!ExtractCommitment,
         Flow!Move, PhaseOf, ProofOf, ResponseOf
  <2>2. CASE pc' = "failed"
    BY <1>6, <2>2, FailStep DEF FindCommitment, Flow!Next
  <2>. QED
    BY <1>6, <2>1, <2>2 DEF FindCommitment
<1>7. CASE QueryRequest
  <2>1. CASE pc' = "blockhash"
    <3>1. req' = OwnRequest'
      BY <2>1 DEF RInv, GInv, AfterQuery
    <3>2. req'.kind = "get" /\ req'.src = PopSM /\ req'.dst = AhSM
      BY <3>1 DEF OwnRequest
    <3>. QED
      BY <1>7, <2>1, <3>2 DEF QueryRequest, Flow!Next, Flow!ResolveRequest,
         Flow!Move, PhaseOf, ProofOf, ResponseOf
  <2>2. CASE pc' = "failed"
    BY <1>7, <2>2, FailStep DEF QueryRequest, Flow!Next
  <2>. QED
    BY <1>7, <2>1, <2>2 DEF QueryRequest
<1>8. CASE BlockHash
  <2>1. CASE pc' = "proof"
    BY <1>8, <2>1, WithinPhase DEF BlockHash, PhaseOf
  <2>2. CASE pc' = "failed"
    BY <1>8, <2>2, FailStep DEF BlockHash, Flow!Next
  <2>. QED
    BY <1>8, <2>1, <2>2 DEF BlockHash, BlockHashAt
<1>9. CASE ReadProof
  <2>1. CASE pc' = "respond"
    <3>1. req = OwnRequest /\ req.kind = "get"
      BY <1>9 DEF ReadProof, RInv, GInv, AfterQuery, OwnRequest
    <3>2. hashAt # NoHash /\ hashAt = req.height
      BY <1>9, <2>1 DEF ReadProof, RInv, PInv
    <3>3. proof' = [at |-> hashAt, keys |-> {req.keys[1]}]
      BY <1>9, <2>1 DEF ReadProof
    <3>4. ProofOf' = [at |-> req.height]
      BY <3>2, <3>3 DEF ProofOf, NoDgram
    <3>. QED
      BY <1>9, <2>1, <3>1, <3>4 DEF ReadProof, Flow!Next, Flow!FetchProof,
         Flow!Move, PhaseOf, ResponseOf
  <2>2. CASE pc' = "failed"
    BY <1>9, <2>2, FailStep DEF ReadProof, Flow!Next
  <2>. QED
    BY <1>9, <2>1, <2>2 DEF ReadProof
<1>10. CASE Respond
  BY <1>10, WithinPhase DEF Respond, Goto, PhaseOf
<1>11. CASE AwaitResp
  <2>1. CASE pc' = "done"
    <3>1. dgram # NoDgram /\ dgram.request = req
      BY <1>11 DEF AwaitResp, RInv, GInv
    <3>2. dgram.proofAt = req.height /\ dgram.height = req.height /\ dgram.id = AhSM
      BY <3>1 DEF RInv, PInv, ProofAtRequestHeight
    <3>3. proof # NoDgram /\ proof.at = req.height
      BY <1>11 DEF AwaitResp, RInv, FInv
    <3>4. ProofOf = [at |-> proof.at]
      BY <3>3 DEF ProofOf
    <3>5. ResponseOf' = [request |-> req, id |-> AhSM, height |-> req.height,
                         proofAt |-> ProofOf.at]
      BY <1>11, <2>1, <3>1, <3>2, <3>3, <3>4 DEF AwaitResp, ResponseOf
    <3>. QED
      BY <1>11, <2>1, <3>5 DEF AwaitResp, Flow!Next, Flow!SubmitResponse,
         Flow!Move, PhaseOf, ProofOf
  <2>2. CASE pc' = "failed"
    BY <1>11, <2>2, FailStep DEF AwaitResp, Flow!Next
  <2>. QED
    BY <1>11, <2>1, <2>2 DEF AwaitResp
<1>12. CASE Crash
  BY <1>12, FailStep DEF Crash, Flow!Next
<1>13. CASE ReadFirstRequest \/ RtMakeResponse
  BY <1>13 DEF ReadFirstRequest, RtMakeResponse
<1>14. CASE AhProduce \/ PopLearn \/ XcmArrive \/ ReqChain \/ RespChain \/ UNCHANGED vars
  BY <1>14, <1>1 DEF AhProduce, PopLearn, XcmArrive, ReqChain, RespChain, vars
<1>. QED
  BY <1>2, <1>3, <1>4, <1>5, <1>6, <1>7, <1>8, <1>9, <1>10, <1>11, <1>12,
     <1>13, <1>14, OrchestratorSteps DEF Next

(* run() of ismp-get.ts, with the commitment taken from the InBlock events *)
(* of its own get-request, implements the orchestrator flow of spec §4.7: *)
(* the phases in order, the commitment of the submitted request, the run's *)
(* own Get resolved, a proof at its height and a response built from that *)
(* request and proof.  (Region-transfer mode does not: see index0.)        *)
THEOREM FlowRefinement ==
  ASSUME CommitmentSource = "event"
  PROVE  Spec => ImplementsOrchestratorFlow
<1>1. Init => Flow!Init
  BY DEF Init, Flow!Init, PhaseOf, ProofOf, ResponseOf
<1>2. []RInv /\ [][Next]_vars => [][Flow!Next]_Flow!avars
  <2>1. RInv /\ RInv' /\ [Next]_vars => [Flow!Next]_Flow!avars
    BY StepRefines
  <2>. QED
    BY <2>1, PTL
<1>. QED
  BY <1>1, <1>2, RInvHolds, PTL DEF Spec, ImplementsOrchestratorFlow, Flow!Spec

=============================================================================
