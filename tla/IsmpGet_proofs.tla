---------------------------- MODULE IsmpGet_proofs ----------------------------
(***************************************************************************)
(* Proofs about the orchestrator of IsmpGet, for all values of the        *)
(* constants and in both scripts (CommitmentSource "event" or "index0").  *)
(***************************************************************************)
EXTENDS IsmpGet, TLAPS

(* The two submissions, with the proofs of SubmitExtrinsic_proofs.        *)
RL == INSTANCE SubmitExtrinsic_proofs WITH
  node <- rNode, incl <- rIncl, used <- rUsed, evOf <- rEvOf, out <- rOut,
  promise <- rPromise, events <- rEvents, sub <- rSub,
  Blocks <- PopBlocks, EventLists <- ReqEventLists,
  CaptureEvents <- (CommitmentSource = "event")

SL == INSTANCE SubmitExtrinsic_proofs WITH
  node <- sNode, incl <- sIncl, used <- sUsed, evOf <- sEvOf, out <- sOut,
  promise <- sPromise, events <- sEvents, sub <- sSub,
  Blocks <- RespBlocks, EventLists <- {<<>>}, CaptureEvents <- FALSE

(***************************************************************************)
(* TypeOK is not inductive.  height is read from LatestKnown, a CHOOSE     *)
(* that only names the largest known height if there is one (KnownInv);   *)
(* hashAt is read at the height of the request queryRequest returned,     *)
(* which must be a number (ReqInv); and the legs' types rest on their     *)
(* own invariants RL!IInv and SL!IInv.                                    *)
(***************************************************************************)
KnownInv ==
  known # {} => LatestKnown \in known /\ \A k \in known : k <= LatestKnown

ReqInv == pc = "blockhash" /\ req.kind = "get" => req.height \in Nat

TInv ==
  /\ TypeOK
  /\ RL!IInv
  /\ SL!IInv
  /\ KnownInv
  /\ ReqInv

(***************************************************************************)
(* In ismp-get.ts the commitment comes from the events of the resolved    *)
(* get-request, which may be those of a retracted block when events are   *)
(* lost; queryRequest only finds it if it is ours, since an earlier       *)
(* request has another commitment.  From then on the request is final on  *)
(* Pop, so its block and events, OwnComm and OwnRequest, no longer change. *)
(***************************************************************************)
AfterAwait == {"find", "query", "blockhash", "proof", "respond", "awaitResp", "done"}
AfterQuery == {"blockhash", "proof", "respond", "awaitResp", "done"}

GInv ==
  /\ pc \in AfterAwait => rPromise = "resolved"
  /\ pc = "query" => comm \in OwnCommitments
  /\ pc \in AfterQuery \/ dgram # NoDgram =>
       OwnComm # NoComm /\ comm = OwnComm /\ req = OwnRequest
  /\ dgram # NoDgram => rPromise = "resolved" /\ dgram.request = req
  /\ pc \in {"awaitResp", "done"} => dgram # NoDgram
  /\ dgram # NoDgram => pc \in {"awaitResp", "done", "failed"}
  /\ pc = "done" => sPromise = "resolved"

(* ProofAtRequestHeight is not inductive: the datagram takes its proof     *)
(* height from `proof` and `proof` from `hashAt`, read two awaits earlier. *)
(* PInv adds what each of those holds while run() is between the awaits: *)
(* a non-zero hashAt at "proof" is the request's height, and the proof at *)
(* "respond" was read at that height.                                     *)
PInv ==
  /\ pc = "proof" /\ hashAt # NoHash => hashAt = req.height
  /\ pc = "respond" => proof.at = req.height
  /\ ProofAtRequestHeight

-----------------------------------------------------------------------------
(* The legs.                                                               *)

(* The constants of both legs satisfy SubmitExtrinsic's assumption.       *)
LEMMA LegAssumptions == RL!ConstAssumption /\ SL!ConstAssumption
  BY IsmpGetAssumption DEF RL!ConstAssumption, SL!ConstAssumption, ReqEventLists

(* Every step of IsmpGet moves each leg by a step of one submission or    *)
(* leaves it alone.                                                       *)
LEMMA ReqLegSteps ==
  ASSUME RL!IInv, [RL!AnyStep]_RL!vars
  PROVE  RL!IInv'
  BY LegAssumptions, RL!StepIInv

LEMMA RespLegSteps ==
  ASSUME SL!IInv, [SL!AnyStep]_SL!vars
  PROVE  SL!IInv'
  BY LegAssumptions, SL!StepIInv

LEMMA SubmitGetLeg == SubmitGet => RL!AnyStep /\ UNCHANGED SL!vars
  BY Zenon DEF SubmitGet, PopSubmitOk, RL!AnyStep, ReqLeg!Submit, RL!Submit, SL!vars, svars

(* The steps of the two run()s, one name each.                            *)
LEMMA OrchestratorSteps ==
  Orchestrator =>
    \/ Fund \/ AddPara \/ ReadHeight \/ SubmitGet \/ AwaitGet
    \/ FindCommitment \/ ReadFirstRequest \/ QueryRequest \/ BlockHash
    \/ RtMakeResponse \/ ReadProof \/ Respond \/ AwaitResp \/ Crash
  BY DEF Orchestrator, IsmpGetRun, RegionTransferRun

(* The leg a step of IsmpGet moves takes a step of its submission, and    *)
(* the other leg is left alone.                                           *)
LEMMA LegsKeep ==
  ASSUME RL!IInv, SL!IInv, [Next]_vars
  PROVE  RL!IInv' /\ SL!IInv'
<1>1. CASE UNCHANGED <<rvars, svars>>
  BY <1>1 DEF RL!IInv, SL!IInv, RL!TypeOK, SL!TypeOK, RL!IdleInv, SL!IdleInv,
     RL!InclInv, SL!InclInv, RL!QueueInv, SL!QueueInv, RL!ResolvedInv,
     SL!ResolvedInv, RL!CaptureInv, SL!CaptureInv, RL!ResolvedEventsInv,
     SL!ResolvedEventsInv, RL!Reliable, SL!Reliable, RL!LastInBlockIs,
     SL!LastInBlockIs, RL!NoInBlockFrom, SL!NoInBlockFrom, rvars, svars
<1>2. CASE SubmitGet
  BY <1>2, SubmitGetLeg, ReqLegSteps, RespLegSteps
<1>3. CASE Respond
  <2>1. RL!vars' = RL!vars /\ SL!AnyStep
    BY Zenon, <1>3 DEF Respond, SL!AnyStep, RespLeg!Submit, SL!Submit, RL!vars, rvars
  <2>. QED
    BY <2>1, ReqLegSteps, RespLegSteps
<1>4. CASE ReqChain
  <2>1. RL!AnyStep /\ SL!vars' = SL!vars
    BY Zenon, <1>4 DEF ReqChain, RL!AnyStep, ReqLeg!NodeStep, RL!NodeStep,
       ReqLeg!Callback, RL!Callback, ReqLeg!Supersede, RL!Supersede,
       ReqLeg!Include, RL!Include, ReqLeg!Retract, RL!Retract,
       ReqLeg!Finalize, RL!Finalize, ReqLeg!Error, RL!Error, ReqLeg!Fetched,
       RL!Fetched, ReqLeg!ErrorKinds, RL!ErrorKinds, ReqLeg!Settle, RL!Settle,
       ReqLeg!St, RL!St, SL!vars, svars
  <2>. QED
    BY <2>1, ReqLegSteps, RespLegSteps
<1>5. CASE RespChain
  <2>1. SL!AnyStep /\ RL!vars' = RL!vars
    BY Zenon, <1>5 DEF RespChain, SL!AnyStep, RespLeg!NodeStep, SL!NodeStep,
       RespLeg!Callback, SL!Callback, RespLeg!Supersede, SL!Supersede,
       RespLeg!Include, SL!Include, RespLeg!Retract, SL!Retract,
       RespLeg!Finalize, SL!Finalize, RespLeg!Error, SL!Error, RespLeg!Fetched,
       SL!Fetched, RespLeg!ErrorKinds, SL!ErrorKinds, RespLeg!Settle, SL!Settle,
       RespLeg!St, SL!St, RL!vars, rvars
  <2>. QED
    BY <2>1, ReqLegSteps, RespLegSteps
<1>6. CASE Orchestrator /\ ~SubmitGet /\ ~Respond
  BY Zenon, <1>6, <1>1, OrchestratorSteps DEF Fund, AddPara, ReadHeight, AwaitGet,
     FindCommitment, ReadFirstRequest, QueryRequest, BlockHash,
     RtMakeResponse, ReadProof, AwaitResp, Crash
<1>7. CASE AhProduce \/ PopLearn \/ XcmArrive \/ UNCHANGED vars
  BY <1>7, <1>1 DEF AhProduce, PopLearn, XcmArrive, vars
<1>. QED
  BY <1>2, <1>3, <1>4, <1>5, <1>6, <1>7 DEF Next

-----------------------------------------------------------------------------
(* The orchestrator's types.                                               *)

(* A CHOOSE of the largest element names one whenever there is one.       *)
LEMMA ChooseLargest ==
  ASSUME NEW S, NEW h \in S, \A k \in S : k <= h
  PROVE  LET m == CHOOSE x \in S : \A k \in S : k <= x
         IN  m \in S /\ \A k \in S : k <= m
<1>1. \E x \in S : \A k \in S : k <= x
  OBVIOUS
<1>. QED
  BY <1>1, Zenon

(* Pop's latest_height is a height it knows, or 0.                         *)
LEMMA LatestKnownRange ==
  ASSUME known \subseteq 1..MaxHeight, KnownInv
  PROVE  LatestKnown \in 0..MaxHeight
<1>1. CASE known = {}
  BY <1>1, IsmpGetAssumption DEF LatestKnown
<1>2. CASE known # {}
  <2>1. LatestKnown \in known
    BY <1>2 DEF KnownInv
  <2>2. MaxHeight \in Nat
    BY IsmpGetAssumption
  <2>. QED
    BY <2>1, <2>2
<1>. QED
  BY <1>1, <1>2

(* A consensus update adds a height above the latest known: it becomes   *)
(* the latest.                                                            *)
LEMMA PopLearnKnown ==
  ASSUME TypeOK, KnownInv, PopLearn
  PROVE  KnownInv'
<1>1. PICK h \in 1..ahHead : h > LatestKnown /\ known' = known \cup {h}
  BY DEF PopLearn
<1>2. \A k \in known' : k <= h
  <2>1. CASE known = {}
    BY <1>1, <2>1
  <2>2. CASE known # {}
    <3>1. LatestKnown \in 1..MaxHeight /\ \A k \in known : k <= LatestKnown
      BY Zenon, <2>2 DEF KnownInv, TypeOK
    <3>2. known \subseteq 1..MaxHeight /\ h \in Nat
      BY <1>1 DEF TypeOK
    <3>. QED
      BY <1>1, <3>1, <3>2
  <2>. QED
    BY <2>1, <2>2
<1>3. LatestKnown' = CHOOSE x \in known' : \A k \in known' : k <= x
  BY <1>1 DEF LatestKnown
<1>. QED
  BY <1>1, <1>2, <1>3, ChooseLargest DEF KnownInv

(* Decoding a stored request and overwriting a Get's source and dest keep *)
(* its kind and height.                                                   *)
LEMMA OverwriteDecode ==
  ASSUME NEW r, DOMAIN r = {"kind", "src", "dst", "height", "keys"}
  PROVE  /\ Overwrite(Decode(r)).kind = r.kind
         /\ Overwrite(Decode(r)).height = r.height
  BY DEF Overwrite, Decode

(* queryRequest returns, for a stored commitment, a request whose height  *)
(* is a number when it is a Get.                                          *)
LEMMA QueriedShape ==
  ASSUME TypeOK, NEW c \in StoreDom
  PROVE  LET r == Overwrite(Decode(Stored(c)))
         IN  r.kind = "get" => r.height \in Nat
<1>1. CASE c = OwnComm
  BY <1>1, OverwriteDecode DEF Stored, OwnRequest, TypeOK
<1>2. CASE c # OwnComm
  <2>1. c \in PriorComms
    BY <1>2 DEF StoreDom
  <2>2. \E i \in 1..Len(prior) : prior[i].c = c
    BY <2>1 DEF PriorComms
  <2>. DEFINE j == CHOOSE i \in 1..Len(prior) : prior[i].c = c
  <2>3. j \in 1..Len(prior) /\ Stored(c) = prior[j].req
    BY <1>2, <2>2 DEF Stored
  <2>4. RequestShape(prior[j].req)
    BY <2>3, IsmpGetAssumption DEF TypeOK
  <2>. QED
    BY Zenon, <2>3, <2>4, OverwriteDecode DEF RequestShape
<1>. QED
  BY <1>1, <1>2

(* system.blockHash of a block number is that number or the zero hash.    *)
LEMMA AhBlockHashRange ==
  ASSUME MaxHeight \in Nat, ahHead \in 0..MaxHeight, NEW h \in Nat
  PROVE  AhBlockHash(h) \in (0..MaxHeight) \cup {NoHash}
  BY DEF AhBlockHash

LEMMA KnownKept ==
  ASSUME KnownInv, known' = known
  PROVE  KnownInv'
  BY DEF KnownInv, LatestKnown

LEMMA ReqKept ==
  ASSUME ReqInv, pc' # "blockhash" \/ (pc' = pc /\ req' = req)
  PROVE  ReqInv'
  BY DEF ReqInv

LEMMA LegTypes ==
  RL!IInv /\ SL!IInv => ReqLeg!TypeOK /\ RespLeg!TypeOK
  BY DEF RL!IInv, SL!IInv, RL!TypeOK, SL!TypeOK, ReqLeg!TypeOK, RespLeg!TypeOK,
     ReqLeg!Status, RL!Status, RespLeg!Status, SL!Status, ReqLeg!StatusKinds,
     RL!StatusKinds, RespLeg!StatusKinds, SL!StatusKinds, ReqLeg!ErrorKinds,
     RL!ErrorKinds, RespLeg!ErrorKinds, SL!ErrorKinds, ReqLeg!Settled,
     RL!Settled, RespLeg!Settled, SL!Settled

LEMMA InitTInv == Init => TInv
<1> SUFFICES ASSUME Init PROVE TInv
  OBVIOUS
<1>1. RL!Init /\ SL!Init
  BY DEF Init, ReqLeg!Init, RL!Init, RespLeg!Init, SL!Init
<1>2. RL!IInv /\ SL!IInv
  BY <1>1, LegAssumptions, RL!InitIInv, SL!InitIInv
<1>. QED
  BY <1>2, LegTypes, IsmpGetAssumption
  DEF Init, TInv, TypeOK, KnownInv, ReqInv, NoDgram

(* Every step keeps TInv: the legs by LegsKeep, the orchestrator and the  *)
(* chains one action at a time.                                           *)
LEMMA NextTInv == TInv /\ [Next]_vars => TInv'
<1> SUFFICES ASSUME TInv, [Next]_vars PROVE TInv'
  OBVIOUS
<1>1. RL!IInv' /\ SL!IInv'
  BY LegsKeep DEF TInv
<1>2. ReqLeg!TypeOK' /\ RespLeg!TypeOK'
  BY <1>1, LegTypes, PTL
<1>3. TypeOK /\ KnownInv /\ ReqInv /\ MaxHeight \in Nat
  BY IsmpGetAssumption DEF TInv
<1> SUFFICES (TypeOK /\ KnownInv /\ ReqInv)'
  BY <1>1 DEF TInv
<1>. USE DEF TypeOK, env
<1>4. CASE Fund
  BY <1>2, <1>3, <1>4, KnownKept, ReqKept DEF Fund
<1>5. CASE AddPara
  BY Zenon, <1>2, <1>3, <1>5, KnownKept, ReqKept DEF AddPara
<1>6. CASE ReadHeight
  BY <1>2, <1>3, <1>6, KnownKept, ReqKept, LatestKnownRange DEF ReadHeight, Goto
<1>7. CASE SubmitGet
  BY <1>2, <1>3, <1>7, KnownKept, ReqKept DEF SubmitGet, Goto
<1>8. CASE AwaitGet
  BY <1>2, <1>3, <1>8, KnownKept, ReqKept DEF AwaitGet
<1>9. CASE FindCommitment
  BY <1>2, <1>3, <1>9, KnownKept, ReqKept DEF FindCommitment
<1>10. CASE ReadFirstRequest
  BY <1>2, <1>3, <1>10, KnownKept, ReqKept DEF ReadFirstRequest
<1>11. CASE QueryRequest
  <2>1. ReqInv'
    BY <1>3, <1>11, QueriedShape DEF QueryRequest, ReqInv
  <2>. QED
    BY <1>2, <1>3, <1>11, <2>1, KnownKept DEF QueryRequest
<1>12. CASE BlockHash \/ RtMakeResponse
  <2>1. req.kind = "get" => AhBlockHash(req.height) \in (0..MaxHeight) \cup {NoHash}
    BY <1>3, <1>12, AhBlockHashRange DEF BlockHash, RtMakeResponse, ReqInv
  <2>. QED
    BY Zenon, <1>2, <1>3, <1>12, <2>1, KnownKept, ReqKept
    DEF BlockHash, RtMakeResponse, BlockHashAt, IsGetRequest
<1>13. CASE ReadProof
  BY <1>2, <1>3, <1>13, KnownKept, ReqKept DEF ReadProof
<1>14. CASE Respond
  BY <1>2, <1>3, <1>14, KnownKept, ReqKept DEF Respond, Goto
<1>15. CASE AwaitResp
  BY <1>2, <1>3, <1>15, KnownKept, ReqKept DEF AwaitResp
<1>16. CASE Crash
  BY <1>2, <1>3, <1>16, KnownKept, ReqKept DEF Crash
<1>17. CASE AhProduce
  BY <1>2, <1>3, <1>17, KnownKept, ReqKept DEF AhProduce, orch
<1>18. CASE PopLearn
  <2>1. known' \subseteq 1..MaxHeight
    BY <1>3, <1>18 DEF PopLearn
  <2>. QED
    BY <1>2, <1>3, <1>18, <2>1, PopLearnKnown, ReqKept DEF PopLearn, orch
<1>19. CASE XcmArrive
  BY <1>2, <1>3, <1>19, KnownKept, ReqKept DEF XcmArrive, orch
<1>20. CASE ReqChain \/ RespChain
  BY Zenon, <1>2, <1>3, <1>20, KnownKept, ReqKept DEF ReqChain, RespChain, orch, env
<1>21. CASE UNCHANGED vars
  BY <1>2, <1>3, <1>21, KnownKept, ReqKept DEF vars, orch, env
<1>. QED
  BY Zenon, <1>1, <1>4, <1>5, <1>6, <1>7, <1>8, <1>9, <1>10, <1>11, <1>12, <1>13,
     <1>14, <1>15, <1>16, <1>17, <1>18, <1>19, <1>20, <1>21, OrchestratorSteps
  DEF Next, TInv

(* Type correctness of both scripts' run(), with its two submissions and *)
(* the chains, for every value of the constants.                         *)
THEOREM TypeCorrect == Spec => []TypeOK
<1>1. Init => TInv
  BY InitTInv
<1>2. TInv /\ [Next]_vars => TInv'
  BY NextTInv
<1>3. TInv => TypeOK
  BY DEF TInv
<1>. QED
  BY <1>1, <1>2, <1>3, PTL DEF Spec

-----------------------------------------------------------------------------
(* What ismp-get.ts's run() relies on once a promise has settled.         *)

(* A resolved get-request is final on Pop: no later status, retraction or *)
(* reinclusion changes its block or its events, and the promise stays     *)
(* resolved.                                                              *)
LEMMA ReqResolvedKept ==
  ASSUME TInv, [Next]_vars, rPromise = "resolved"
  PROVE  /\ rPromise' = "resolved"
         /\ rIncl' = rIncl /\ rEvOf' = rEvOf /\ prior' = prior
<1>1. rNode = "final"
  BY DEF TInv, RL!IInv, RL!ResolvedInv
<1>2. CASE UNCHANGED rvars /\ prior' = prior
  BY <1>2 DEF rvars
<1>3. CASE SubmitGet
  BY <1>3 DEF SubmitGet, ReqLeg!Submit
<1>4. CASE ReqChain
  BY <1>1, <1>4 DEF ReqChain, ReqLeg!NodeStep, ReqLeg!Callback,
     ReqLeg!Supersede, ReqLeg!Include, ReqLeg!Retract, ReqLeg!Finalize,
     ReqLeg!Error, ReqLeg!Settle, env
<1>5. CASE Orchestrator /\ ~SubmitGet
  BY Zenon, <1>5, <1>2, OrchestratorSteps DEF Fund, AddPara, ReadHeight, AwaitGet,
     FindCommitment, ReadFirstRequest, QueryRequest, BlockHash,
     RtMakeResponse, ReadProof, Respond, AwaitResp, Crash, env
<1>6. CASE AhProduce \/ PopLearn \/ XcmArrive \/ RespChain \/ UNCHANGED vars
  BY <1>6, <1>2 DEF AhProduce, PopLearn, XcmArrive, RespChain, vars, env
<1>. QED
  BY <1>3, <1>4, <1>5, <1>6 DEF Next

(* A resolved response stays resolved.                                    *)
LEMMA RespResolvedKept ==
  ASSUME TInv, [Next]_vars, sPromise = "resolved"
  PROVE  sPromise' = "resolved"
<1>1. CASE UNCHANGED svars
  BY <1>1 DEF svars
<1>2. CASE Respond
  BY <1>2 DEF Respond, RespLeg!Submit
<1>3. CASE RespChain
  BY <1>3 DEF RespChain, RespLeg!NodeStep, RespLeg!Callback,
     RespLeg!Supersede, RespLeg!Include, RespLeg!Retract, RespLeg!Finalize,
     RespLeg!Error, RespLeg!Settle
<1>4. CASE Orchestrator /\ ~Respond
  BY Zenon, <1>4, <1>1, OrchestratorSteps DEF Fund, AddPara, ReadHeight, SubmitGet,
     AwaitGet, FindCommitment, ReadFirstRequest, QueryRequest, BlockHash,
     RtMakeResponse, ReadProof, AwaitResp, Crash
<1>5. CASE AhProduce \/ PopLearn \/ XcmArrive \/ ReqChain \/ UNCHANGED vars
  BY <1>5, <1>1 DEF AhProduce, PopLearn, XcmArrive, ReqChain, vars
<1>. QED
  BY <1>2, <1>3, <1>4, <1>5 DEF Next

(* The request and the commitment of our get-request are functions of    *)
(* its block, its events and the height run() read.                       *)
LEMMA OwnKept ==
  ASSUME rIncl' = rIncl, rEvOf' = rEvOf, prior' = prior, height' = height
  PROVE  /\ OwnComm' = OwnComm /\ OwnRequest' = OwnRequest
         /\ StoreDom' = StoreDom
         /\ \A c \in StoreDom : Stored(c)' = Stored(c)
  BY DEF OwnComm, OwnRequest, StoreDom, PriorComms, Stored, FindEvent

(* findEvent(events, "ismp", "Request") on the events the get-request may *)
(* emit finds one of its own commitments, if anything.                    *)
LEMMA FindOwnCommitment ==
  ASSUME NEW e \in ReqEventLists, FindEvent(e, "ismp", "Request") # 0
  PROVE  e[FindEvent(e, "ismp", "Request")].c \in OwnCommitments
<1>1. CASE e = <<>> \/ e = <<Fee, Ev("system", "ExtrinsicFailed", NoComm)>>
  <2>1. {i \in 1..Len(e) : e[i].section = "ismp" /\ e[i].method = "Request"} = {}
    BY <1>1 DEF Fee, Ev
  <2>. QED
    BY <2>1 DEF FindEvent
<1>2. CASE \E c \in OwnCommitments : e = <<Fee, ReqEvent(c)>>
  <2>1. PICK c \in OwnCommitments : e = <<Fee, ReqEvent(c)>>
    BY <1>2
  <2>2. {i \in 1..Len(e) : e[i].section = "ismp" /\ e[i].method = "Request"} = {2}
    BY <2>1 DEF Fee, Ev, ReqEvent
  <2>3. FindEvent(e, "ismp", "Request") = 2
    BY <2>2 DEF FindEvent
  <2>. QED
    BY <2>1, <2>3 DEF ReqEvent, Ev
<1>. QED
  BY <1>1, <1>2 DEF ReqEventLists

(* A commitment queryRequest finds that is one our get-request may get is *)
(* ours: earlier requests have other commitments.                         *)
LEMMA StoredOwn ==
  ASSUME TypeOK, NEW c \in StoreDom, c \in OwnCommitments
  PROVE  c = OwnComm /\ OwnComm # NoComm
<1>1. c \notin PriorComms
  BY IsmpGetAssumption DEF PriorComms, TypeOK
<1>. QED
  BY <1>1 DEF StoreDom

(* Decoding our own request and overwriting its source and dest gives it *)
(* back.                                                                  *)
LEMMA OwnRoundTrip == Overwrite(Decode(OwnRequest)) = OwnRequest
  BY Zenon DEF Overwrite, Decode, OwnRequest

(* A step before run() awaits the get-request keeps GInv trivially.       *)
LEMMA EarlyStep ==
  ASSUME pc' \notin AfterAwait \cup {"awaitResp", "done"}, dgram' = NoDgram
  PROVE  GInv'
  BY DEF GInv, AfterAwait, AfterQuery

LEMMA NextGInv ==
  ASSUME CommitmentSource = "event", TInv, GInv, [Next]_vars
  PROVE  GInv'
<1>. USE DEF AfterAwait, AfterQuery
<1>1. rPromise = "resolved" =>
        /\ rPromise' = "resolved"
        /\ rIncl' = rIncl /\ rEvOf' = rEvOf /\ prior' = prior
  BY ReqResolvedKept
<1>2. sPromise = "resolved" => sPromise' = "resolved"
  BY RespResolvedKept
<1>3. ASSUME UNCHANGED orch PROVE GInv'
  <2>1. CASE rPromise = "resolved"
    <3>1. OwnComm' = OwnComm /\ OwnRequest' = OwnRequest
      BY <1>1, <2>1, <1>3, OwnKept DEF orch
    <3>. QED
      BY <1>1, <1>2, <1>3, <2>1, <3>1 DEF orch, GInv
  <2>2. CASE rPromise # "resolved"
    BY <1>3, <2>2 DEF orch, GInv
  <2>. QED
    BY <2>1, <2>2
<1>4. CASE Fund \/ AddPara \/ ReadHeight \/ SubmitGet
  <2>1. dgram = NoDgram
    BY Zenon, <1>4 DEF Fund, AddPara, ReadHeight, SubmitGet, Goto, GInv
  <2>. QED
    BY Zenon, <1>4, <2>1, EarlyStep DEF Fund, AddPara, ReadHeight, SubmitGet, Goto
<1>5. CASE AwaitGet
  <2>1. dgram = NoDgram
    BY <1>5 DEF AwaitGet, GInv
  <2>. QED
    BY <1>5, <2>1 DEF AwaitGet, GInv, rvars, svars
<1>6. CASE FindCommitment
  <2>1. rEvents \in ReqEventLists /\ dgram = NoDgram
    BY <1>6 DEF FindCommitment, TInv, TypeOK, ReqLeg!TypeOK, GInv
  <2>2. pc' = "query" => comm' \in OwnCommitments
    BY <1>6, <2>1, FindOwnCommitment DEF FindCommitment
  <2>. QED
    BY <1>6, <2>1, <2>2 DEF FindCommitment, GInv, rvars, svars
<1>7. CASE QueryRequest
  <2>1. dgram = NoDgram /\ rPromise = "resolved"
    BY <1>7 DEF QueryRequest, GInv
  <2>2. OwnComm' = OwnComm /\ OwnRequest' = OwnRequest
    BY <1>7, <2>1, <1>1, OwnKept DEF QueryRequest
  <2>3. CASE comm \in StoreDom
    <3>1. comm = OwnComm /\ OwnComm # NoComm
      BY <1>7, <2>3, StoredOwn DEF QueryRequest, GInv, TInv
    <3>2. req' = OwnRequest
      BY <1>7, <2>3, <3>1, OwnRoundTrip DEF QueryRequest, Stored
    <3>. QED
      BY <1>7, <2>1, <2>2, <2>3, <3>1, <3>2 DEF QueryRequest, GInv, rvars, svars
  <2>4. CASE comm \notin StoreDom
    BY <1>7, <2>1, <2>4 DEF QueryRequest, GInv, rvars, svars
  <2>. QED
    BY <2>3, <2>4
<1>8. CASE BlockHash \/ ReadProof \/ AwaitResp \/ Crash
  <2>1. pc \in AfterAwait \/ dgram # NoDgram => rPromise = "resolved"
    BY DEF GInv
  <2>2. pc \in AfterAwait \/ dgram # NoDgram =>
          OwnComm' = OwnComm /\ OwnRequest' = OwnRequest
    BY Zenon, <1>8, <2>1, <1>1, OwnKept DEF BlockHash, BlockHashAt, ReadProof,
       AwaitResp, Crash
  <2>. QED
    BY <1>8, <2>1, <2>2 DEF BlockHash, BlockHashAt, ReadProof, AwaitResp,
       Crash, GInv, rvars, svars
<1>9. CASE Respond
  <2>1. rPromise = "resolved"
    BY <1>9 DEF Respond, Goto, GInv
  <2>2. OwnComm' = OwnComm /\ OwnRequest' = OwnRequest
    BY <1>9, <2>1, <1>1, OwnKept DEF Respond
  <2>. QED
    BY <1>9, <2>1, <2>2 DEF Respond, Goto, GInv, NoDgram, rvars
<1>10. CASE ReadFirstRequest \/ RtMakeResponse
  BY <1>10 DEF ReadFirstRequest, RtMakeResponse
<1>. QED
  BY <1>3, <1>4, <1>5, <1>6, <1>7, <1>8, <1>9, <1>10, OrchestratorSteps
  DEF Next, AhProduce, PopLearn, XcmArrive, ReqChain, RespChain, vars

LEMMA InitGInv == Init => GInv
  BY DEF Init, GInv, AfterAwait, AfterQuery

(* In ismp-get.ts, TInv /\ GInv holds in every reachable state.            *)
LEMMA GInvHolds ==
  ASSUME CommitmentSource = "event"
  PROVE  Spec => [](TInv /\ GInv)
<1>1. Init => TInv /\ GInv
  BY InitTInv, InitGInv
<1>2. TInv /\ GInv /\ [Next]_vars => (TInv /\ GInv)'
  BY NextTInv, NextGInv
<1>. QED
  BY <1>1, <1>2, PTL DEF Spec

(* ismp-get.ts submits a response only to the request its own get-request *)
(* stored on Pop: the commitment taken from the (possibly stale or lost)  *)
(* events of submitExtrinsic is the one of the final block, and the       *)
(* request queryRequest returns, after the source/dest overwrite, is the  *)
(* one the get-request made -- for every number of blocks, reorgs,        *)
(* commitments and prior requests.                                        *)
THEOREM ResponseOwnRequest ==
  ASSUME CommitmentSource = "event"
  PROVE  Spec => []ResponseAnswersOwnRequest
<1>1. GInv => ResponseAnswersOwnRequest
  BY DEF GInv, ResponseAnswersOwnRequest
<1>. QED
  BY <1>1, GInvHolds, PTL

(* When ismp-get.ts's run() completes, Pop's ISMP handler has recorded a  *)
(* response to the run's own request: the resolved response was accepted *)
(* into a block and answers the request stored under our commitment.      *)
THEOREM DoneAnswered ==
  ASSUME CommitmentSource = "event"
  PROVE  Spec => []DoneMeansAnswered
<1>1. TInv /\ GInv => DoneMeansAnswered
  <2> SUFFICES ASSUME TInv, GInv, pc = "done" PROVE OwnComm \in Answered
    BY DEF DoneMeansAnswered
  <2>1. sIncl # NoBlock
    <3>1. sIncl \in RespBlocks
      BY DEF GInv, TInv, SL!IInv, SL!ResolvedInv, SL!TypeOK
    <3>. QED
      BY <3>1, IsmpGetAssumption
  <2>2. OwnComm # NoComm /\ dgram.request = OwnRequest
    BY DEF GInv, AfterQuery
  <2>3. OwnComm \in StoreDom /\ Stored(OwnComm) = dgram.request
    BY <2>2 DEF StoreDom, Stored
  <2>. QED
    BY <2>1, <2>3 DEF Answered
<1>. QED
  BY <1>1, GInvHolds, PTL

LEMMA InitPInv == Init => PInv
  BY DEF Init, PInv, ProofAtRequestHeight, NoDgram

(* A step that moves run() neither to "proof" nor to "respond" and leaves *)
(* the datagram alone keeps PInv.                                         *)
LEMMA OtherStep ==
  ASSUME PInv, pc' \notin {"proof", "respond"}, dgram' = dgram
  PROVE  PInv'
  BY DEF PInv, ProofAtRequestHeight

LEMMA NextPInv == PInv /\ [Next]_vars => PInv'
<1> SUFFICES ASSUME PInv, [Next]_vars PROVE PInv'
  OBVIOUS
<1>1. ASSUME UNCHANGED orch PROVE PInv'
  BY <1>1 DEF orch, PInv, ProofAtRequestHeight
<1>2. CASE Fund
  BY <1>2, OtherStep DEF Fund
<1>3. CASE AddPara
  BY Zenon, <1>3, OtherStep DEF AddPara
<1>4. CASE ReadHeight
  BY <1>4, OtherStep DEF ReadHeight, Goto
<1>5. CASE SubmitGet
  BY <1>5, OtherStep DEF SubmitGet, Goto
<1>6. CASE AwaitGet
  BY <1>6, OtherStep DEF AwaitGet
<1>7. CASE FindCommitment
  BY <1>7, OtherStep DEF FindCommitment
<1>8. CASE ReadFirstRequest
  BY <1>8, OtherStep DEF ReadFirstRequest
<1>9. CASE QueryRequest
  BY <1>9, OtherStep DEF QueryRequest
<1>10. CASE BlockHash
  BY <1>10 DEF BlockHash, BlockHashAt, AhBlockHash, PInv, ProofAtRequestHeight
<1>11. CASE RtMakeResponse
  BY <1>11 DEF RtMakeResponse, BlockHashAt, AhBlockHash, PInv, ProofAtRequestHeight
<1>12. CASE ReadProof
  BY <1>12 DEF ReadProof, PInv, ProofAtRequestHeight
<1>13. CASE Respond
  BY <1>13 DEF Respond, Goto, PInv, ProofAtRequestHeight
<1>14. CASE AwaitResp
  BY <1>14, OtherStep DEF AwaitResp
<1>15. CASE Crash
  BY <1>15, OtherStep DEF Crash
<1>16. CASE UNCHANGED vars
  BY <1>16, <1>1 DEF vars
<1>17. CASE AhProduce \/ PopLearn \/ XcmArrive \/ ReqChain \/ RespChain
  BY <1>17, <1>1 DEF AhProduce, PopLearn, XcmArrive, ReqChain, RespChain
<1> QED
  BY <1>2, <1>3, <1>4, <1>5, <1>6, <1>7, <1>8, <1>9, <1>10, <1>11, <1>12,
     <1>13, <1>14, <1>15, <1>16, <1>17, OrchestratorSteps DEF Next

(* The response datagram run() submits, in either script, carries a proof *)
(* read at the request's height and claims that height for Asset Hub      *)
(* (makeIsmpResponse: blockHash(request.get.height), getReadProof at that *)
(* hash, proof.height = request.get.height), whatever the constants.     *)
THEOREM ProofHeightHolds == Spec => []ProofAtRequestHeight
<1>1. Init => PInv
  BY InitPInv
<1>2. PInv /\ [Next]_vars => PInv'
  BY NextPInv
<1>3. PInv => ProofAtRequestHeight
  BY DEF PInv
<1> QED
  BY <1>1, <1>2, <1>3, PTL DEF Spec

=============================================================================
