------------------------------ MODULE IsmpGet ------------------------------
(***************************************************************************)
(* The end-to-end ISMP get flow of run() in src/scripts/ismp-get/         *)
(* ismp-get.ts (CommitmentSource = "event") and of its e2e copy in        *)
(* src/scripts/e2e_tests/xc-transfer/region-transfer.ts, which reads the  *)
(* commitment from ismpDemo.requests(0) (CommitmentSource = "index0").    *)
(*                                                                         *)
(* The orchestrator submits a get-request on Pop, extracts the request's  *)
(* commitment, resolves the pending request, reads a proof of its keys on *)
(* Asset Hub (AH) at its height and submits the response to Pop.  Both    *)
(* submissions are instances of SubmitExtrinsic.  The chains are the      *)
(* environment: AH produces blocks and prunes old block hashes and state, *)
(* Pop learns AH heights (state commitments), Pop's request store holds   *)
(* earlier requests and the one our transaction makes in its best block,  *)
(* and Pop's ISMP handler accepts a response only if it answers a stored, *)
(* unanswered request with a proof at a height Pop has a commitment for.  *)
(***************************************************************************)
EXTENDS Naturals, Sequences, FiniteSets

CONSTANTS
  PopBlocks,        \* blocks that may include the get-request
  RespBlocks,       \* blocks that may include the response
  NoBlock,
  OwnCommitments,   \* commitments the get-request may be given
  NoComm,           \* an absent commitment (a zero H256)
  NoHash,           \* the zero H256 system.blockHash returns for no block
  Opaque,           \* a Get's source/dest as decoded: an opaque String
  PriorStores,      \* the request stores Pop may hold before this run:
                    \* sequences <<[c, req]>> in the order of ismpDemo.requests
  PriorAnswered,    \* commitments of prior requests already answered
  GetKeys,          \* keys of the getRequest call
  PopId, AhId,      \* POP_ID and AH_ID
  MaxHeight,        \* bound on AH's block number
  BlockHashCount,   \* AH keeps system.blockHash for this many blocks
  StateWindow,      \* AH's node keeps the state of this many blocks
  CommitmentSource, \* "event" (ismp-get.ts) or "index0" (region-transfer.ts)
  ReliableEvents,
  NodeMayRefuse

(* A request as ismpDemo's storage decodes it: a Get or a Post with a     *)
(* numeric height.                                                        *)
RequestShape(r) ==
  /\ DOMAIN r = {"kind", "src", "dst", "height", "keys"}
  /\ r.kind \in {"get", "post"}
  /\ r.height \in Nat

(* A request stored before this run has another commitment than any our   *)
(* get-request may get: the commitment hashes the request with its nonce. *)
ASSUME IsmpGetAssumption ==
  /\ CommitmentSource \in {"event", "index0"}
  /\ MaxHeight \in Nat /\ BlockHashCount \in Nat \ {0}
  /\ StateWindow \in Nat \ {0}
  /\ Len(GetKeys) >= 1
  /\ NoBlock \notin PopBlocks \cup RespBlocks
  /\ ReliableEvents \in BOOLEAN /\ NodeMayRefuse \in BOOLEAN
  /\ \A s \in PriorStores : \A i \in 1..Len(s) :
       /\ s[i].c \notin OwnCommitments
       /\ RequestShape(s[i].req)

VARIABLES
  pc,         \* where run() is
  height,     \* latest_height read from Pop
  comm,       \* commitmentRequest
  req,        \* the request returned by queryRequest
  hashAt,     \* AH block hash at request.get.height
  proof,      \* [at, keys] of the read proof
  dgram,      \* the response datagram submitted
  ahHead,     \* AH's block number
  known,      \* AH heights Pop has state commitments for
  prior,      \* requests Pop stored before this run, one of PriorStores
  fee,        \* Alice's fee funds on Pop: "none", "inflight" (XCM), "arrived"
  rNode, rIncl, rUsed, rEvOf, rOut, rPromise, rEvents, rSub,
  sNode, sIncl, sUsed, sEvOf, sOut, sPromise, sEvents, sSub

orch == <<pc, height, comm, req, hashAt, proof, dgram>>
env == <<ahHead, known, fee, prior>>
rvars == <<rNode, rIncl, rUsed, rEvOf, rOut, rPromise, rEvents, rSub>>
svars == <<sNode, sIncl, sUsed, sEvOf, sOut, sPromise, sEvents, sSub>>
vars == <<orch, env, rvars, svars>>

-----------------------------------------------------------------------------
(* Data.                                                                   *)

SM(fam, n) == [fam |-> fam, num |-> n]
NoDgram == [none |-> TRUE]

Ev(sec, meth, c) == [section |-> sec, method |-> meth, c |-> c]
Fee == Ev("balances", "Withdraw", NoComm)
ReqEvent(c) == Ev("ismp", "Request", c)
ReqEventLists ==
  {<<>>, <<Fee, Ev("system", "ExtrinsicFailed", NoComm)>>} \cup
  {<<Fee, ReqEvent(c)>> : c \in OwnCommitments}

(* convertToStateMachine(`POLKADOT-${id}`) *)
PopSM == SM("Polkadot", PopId)
AhSM == SM("Polkadot", AhId)

ReqLeg == INSTANCE SubmitExtrinsic WITH
  node <- rNode, incl <- rIncl, used <- rUsed, evOf <- rEvOf, out <- rOut,
  promise <- rPromise, events <- rEvents, sub <- rSub,
  Blocks <- PopBlocks, EventLists <- ReqEventLists,
  CaptureEvents <- (CommitmentSource = "event")

RespLeg == INSTANCE SubmitExtrinsic WITH
  node <- sNode, incl <- sIncl, used <- sUsed, evOf <- sEvOf, out <- sOut,
  promise <- sPromise, events <- sEvents, sub <- sSub,
  Blocks <- RespBlocks, EventLists <- {<<>>}, CaptureEvents <- FALSE

-----------------------------------------------------------------------------
(* Pop and AH as the code observes them.                                   *)

(* findEvent: index of the first event with this section and method, or 0 *)
FindEvent(evs, sec, meth) ==
  LET hits == {i \in 1..Len(evs) : evs[i].section = sec /\ evs[i].method = meth}
  IN IF hits = {} THEN 0 ELSE CHOOSE i \in hits : \A j \in hits : i <= j

(* The commitment our get-request has in Pop's best chain, if any.        *)
OwnComm ==
  IF rIncl = NoBlock THEN NoComm
  ELSE LET i == FindEvent(rEvOf[rIncl], "ismp", "Request")
       IN IF i = 0 THEN NoComm ELSE rEvOf[rIncl][i].c

OwnRequest ==
  [kind |-> "get", src |-> PopSM, dst |-> AhSM, height |-> height,
   keys |-> GetKeys]

PriorComms == {prior[i].c : i \in 1..Len(prior)}
StoreDom == PriorComms \cup (IF OwnComm = NoComm THEN {} ELSE {OwnComm})
Stored(c) ==
  IF c = OwnComm THEN OwnRequest
  ELSE LET i == CHOOSE i \in 1..Len(prior) : prior[i].c = c
       IN prior[i].req

(* ismpDemo.requests: commitments in the order they were made.            *)
DemoRequests ==
  [i \in 1..Len(prior) |-> prior[i].c] \o
  (IF OwnComm = NoComm THEN <<>> ELSE <<OwnComm>>)

LatestKnown == IF known = {} THEN 0 ELSE CHOOSE h \in known : \A k \in known : k <= h

(* Mutant: the hash of the block before the request's height.            *)
AhBlockHashPrev(h) ==
  IF h - 1 = 0 \/ (h - 1 < ahHead /\ ahHead <= h - 1 + BlockHashCount)
    THEN h - 1 ELSE NoHash

(* system.blockHash(h) read at AH's head block N: frame_system stores the *)
(* hash of block N - 1 when block N starts and prunes the entry           *)
(* BlockHashCount + 1 blocks back when it ends, so the map holds          *)
(* N - BlockHashCount .. N - 1 and the genesis hash; any other height,    *)
(* N itself included, reads as the default zero hash.                     *)
AhBlockHash(h) ==
  IF h = 0 \/ (h < ahHead /\ ahHead <= h + BlockHashCount) THEN h ELSE NoHash

(* Requests the ISMP handler on Pop has recorded a response for.          *)
Answered ==
  PriorAnswered \cup
  (IF sIncl = NoBlock THEN {} ELSE {c \in StoreDom : Stored(c) = dgram.request})

(* The handler's acceptance of a response datagram (validate_unsigned).   *)
Accepts(d) ==
  \E c \in StoreDom \ Answered :
    /\ Stored(c) = d.request
    /\ d.id = Stored(c).dst
    /\ d.height \in known
    /\ d.proofAt = d.height
    /\ {Stored(c).keys[i] : i \in 1..Len(Stored(c).keys)} \subseteq d.keys

-----------------------------------------------------------------------------
(* run().                                                                  *)

TypeOK ==
  /\ pc \in {"fund", "addPara", "height", "submit", "await", "find", "query",
             "blockhash", "proof", "respond", "awaitResp", "done", "failed"}
  /\ height \in 0..MaxHeight
  /\ ahHead \in 0..MaxHeight
  /\ known \subseteq 1..MaxHeight
  /\ hashAt \in (0..MaxHeight) \cup {NoHash}
  /\ fee \in {"none", "inflight", "arrived"}
  /\ prior \in PriorStores
  /\ ReqLeg!TypeOK
  /\ RespLeg!TypeOK

Init ==
  /\ pc = "fund"
  /\ height = 0 /\ comm = NoComm /\ req = NoDgram /\ hashAt = NoHash
  /\ proof = NoDgram /\ dgram = NoDgram
  /\ ahHead = 0 /\ known = {} /\ fee = "none"
  /\ prior \in PriorStores
  /\ ReqLeg!Init
  /\ RespLeg!Init

Goto(from, to) == pc = from /\ pc' = to

(* Pop accepts a call signed by Alice only while she can pay its fee,    *)
(* which the code funds with the relay asset ("Needed for fee payment").  *)
PopSubmitOk ==
  IF fee # "arrived" THEN {FALSE}
  ELSE IF NodeMayRefuse THEN BOOLEAN ELSE {TRUE}

(* transferRelayAssetToPara(.., POP_ID, ..): a reserve transfer (POP_ID   *)
(* >= 2000) submitted on the relay chain and awaited until finalized      *)
(* there; the XCM message that credits Pop is delivered later.  Its       *)
(* rejection rejects run(), a refusal ends the process.                   *)
Fund ==
  /\ pc = "fund"
  /\ \/ pc' = "addPara" /\ fee' = "inflight"
     \/ pc' = "failed" /\ fee' = fee
  /\ UNCHANGED <<height, comm, req, hashAt, proof, dgram, ahHead, known,
                 prior, rvars, svars>>

(* ismpAddParachain: sudo(ismpParachain.addParachain([{id: AH_ID}])) on   *)
(* Pop, signed by Alice and awaited; refused (the process ends) while    *)
(* she cannot pay the fee.                                                *)
AddPara ==
  /\ pc = "addPara"
  /\ pc' \in IF TRUE \in PopSubmitOk THEN {"height", "failed"} ELSE {"failed"}
  /\ UNCHANGED <<height, comm, req, hashAt, proof, dgram, env, rvars, svars>>

ReadHeight ==
  /\ Goto("height", "submit")
  /\ height' = LatestKnown
  /\ UNCHANGED <<comm, req, hashAt, proof, dgram, env, rvars, svars>>

SubmitGet ==
  /\ Goto("submit", "await")
  /\ \E ok \in PopSubmitOk : ReqLeg!Submit(ok)
  /\ UNCHANGED <<height, comm, req, hashAt, proof, dgram, env, svars>>

(* await submitExtrinsic(...): a rejection rejects run().                 *)
AwaitGet ==
  /\ pc = "await"
  /\ rPromise \in ReqLeg!Settled
  /\ pc' = IF rPromise = "resolved" THEN "find" ELSE "failed"
  /\ UNCHANGED <<height, comm, req, hashAt, proof, dgram, env, rvars, svars>>

(* findEvent(events.events, "ismp", "Request").toHuman() throws on       *)
(* undefined.                                                             *)
FindCommitment ==
  /\ pc = "find" /\ CommitmentSource = "event"
  /\ LET i == FindEvent(rEvents, "ismp", "Request") IN
       IF i = 0 THEN pc' = "failed" /\ comm' = comm
                ELSE pc' = "query" /\ comm' = rEvents[i].c
  /\ UNCHANGED <<height, req, hashAt, proof, dgram, env, rvars, svars>>

(* region-transfer.ts: await ismpDemo.requests(0), the zero hash when     *)
(* the storage map holds no entry at index 0.                             *)
ReadFirstRequest ==
  /\ pc = "find" /\ CommitmentSource = "index0"
  /\ pc' = "query"
  /\ comm' = IF DemoRequests = <<>> THEN NoComm ELSE DemoRequests[1]
  /\ UNCHANGED <<height, req, hashAt, proof, dgram, env, rvars, svars>>

(* queryRequest: requests.toJSON()[0]; `"get" in undefined` throws; a Get  *)
(* gets source and dest overwritten with POLKADOT-POP_ID / POLKADOT-AH_ID. *)
(* Mutant: source and dest overwritten the wrong way round.               *)
OverwriteSwapped(r) ==
  IF r.kind = "get" THEN [r EXCEPT !.src = AhSM, !.dst = PopSM] ELSE r

Decode(r) == IF r.kind = "get" THEN [r EXCEPT !.src = Opaque, !.dst = Opaque] ELSE r
Overwrite(r) == IF r.kind = "get" THEN [r EXCEPT !.src = PopSM, !.dst = AhSM] ELSE r

QueryRequest ==
  /\ pc = "query"
  /\ IF comm \in StoreDom
       THEN pc' = "blockhash" /\ req' = Overwrite(Decode(Stored(comm)))
       ELSE pc' = "failed" /\ req' = req
  /\ UNCHANGED <<height, comm, hashAt, proof, dgram, env, rvars, svars>>

(* system.blockHash(Number(request.get.height)) on AH: request.get of a  *)
(* Post is undefined and reading its height throws.                       *)
BlockHashAt ==
  IF req.kind = "get"
    THEN pc' = "proof" /\ hashAt' = AhBlockHash(req.height)
    ELSE pc' = "failed" /\ hashAt' = hashAt

(* makeIsmpResponse of ismp-get.ts.                                       *)
BlockHash ==
  /\ pc = "blockhash" /\ CommitmentSource = "event"
  /\ BlockHashAt
  /\ UNCHANGED <<height, comm, req, proof, dgram, env, rvars, svars>>

(* Mutant: a type guard that really tests for a Get.                      *)
IsGetRequestByKind(r) == r.kind = "get"

(* region-transfer.ts: the type guard isGetRequest returns true for every *)
(* request.                                                               *)
IsGetRequest(r) == TRUE

(* makeIsmpResponse of region-transfer.ts: `if (isGetRequest(request))`;  *)
(* its else branch creates an Error without throwing it, so the function *)
(* returns and run() completes.                                           *)
RtMakeResponse ==
  /\ pc = "blockhash" /\ CommitmentSource = "index0"
  /\ IF IsGetRequest(req) THEN BlockHashAt
                          ELSE pc' = "done" /\ hashAt' = hashAt
  /\ UNCHANGED <<height, comm, req, proof, dgram, env, rvars, svars>>

(* Mutant: the proof read at AH's best block (no `at` argument).          *)
ReadProofLatest ==
  /\ pc = "proof"
  /\ IF hashAt # NoHash /\ ahHead < hashAt + StateWindow
       THEN pc' = "respond" /\ proof' = [at |-> ahHead, keys |-> {req.keys[1]}]
       ELSE pc' = "failed" /\ proof' = proof
  /\ UNCHANGED <<height, comm, req, hashAt, dgram, env, rvars, svars>>

(* state.getReadProof([request.get.keys[0]], hashAt): fails on the zero   *)
(* hash and on a block whose state is pruned.                             *)
ReadProof ==
  /\ pc = "proof"
  /\ IF hashAt # NoHash /\ ahHead < hashAt + StateWindow
       THEN pc' = "respond" /\ proof' = [at |-> hashAt, keys |-> {req.keys[1]}]
       ELSE pc' = "failed" /\ proof' = proof
  /\ UNCHANGED <<height, comm, req, hashAt, dgram, env, rvars, svars>>

(* ismp.handleUnsigned([{Response: ...}]).send(callback)                   *)
Respond ==
  /\ Goto("respond", "awaitResp")
  /\ dgram' = [request |-> req, id |-> AhSM, height |-> req.height,
               proofAt |-> proof.at, keys |-> proof.keys]
  /\ RespLeg!Submit(Accepts(dgram'))
  /\ UNCHANGED <<height, comm, req, hashAt, proof, env, rvars>>

(* Mutant: a rejected response swallowed (`.catch(() => {})`).           *)
AwaitRespIgnoreReject ==
  /\ pc = "awaitResp"
  /\ sPromise \in RespLeg!Settled
  /\ pc' = "done"
  /\ UNCHANGED <<height, comm, req, hashAt, proof, dgram, env, rvars, svars>>

AwaitResp ==
  /\ pc = "awaitResp"
  /\ sPromise \in RespLeg!Settled
  /\ pc' = IF sPromise = "resolved" THEN "done" ELSE "failed"
  /\ UNCHANGED <<height, comm, req, hashAt, proof, dgram, env, rvars, svars>>

(* A refused submission rejects signAndSend's own promise, which nobody   *)
(* handles: Node.js ends the process on the unhandled rejection.          *)
(* Mutant: the rejection of signAndSend's promise handled silently.       *)
CrashNever == FALSE

Crash ==
  /\ \/ pc = "await" /\ rNode = "refused"
     \/ pc = "awaitResp" /\ sNode = "refused"
  /\ pc' = "failed"
  /\ UNCHANGED <<height, comm, req, hashAt, proof, dgram, env, rvars, svars>>

(* run() of ismp-get.ts: the commitment from the get-request's events.     *)
IsmpGetRun ==
  \/ Fund \/ AddPara \/ ReadHeight \/ SubmitGet \/ AwaitGet
  \/ FindCommitment \/ QueryRequest
  \/ BlockHash \/ ReadProof \/ Respond \/ AwaitResp \/ Crash

(* run() of region-transfer.ts: the same flow through the e2e copy of     *)
(* submitExtrinsic (no events captured), with the commitment read from    *)
(* ismpDemo.requests(0) and its own makeIsmpResponse.                     *)
RegionTransferRun ==
  \/ Fund \/ AddPara \/ ReadHeight \/ SubmitGet \/ AwaitGet
  \/ ReadFirstRequest \/ QueryRequest
  \/ RtMakeResponse \/ ReadProof \/ Respond \/ AwaitResp \/ Crash

Orchestrator ==
  IF CommitmentSource = "event" THEN IsmpGetRun ELSE RegionTransferRun

-----------------------------------------------------------------------------
(* The chains.                                                             *)

AhProduce ==
  /\ ahHead < MaxHeight
  /\ ahHead' = ahHead + 1
  /\ UNCHANGED <<orch, known, fee, prior, rvars, svars>>

(* Once AH is added as a parachain on Pop, a consensus update gives Pop a *)
(* newer AH state commitment.                                             *)
PopLearn ==
  /\ pc \notin {"fund", "addPara"}
  /\ \E h \in 1..ahHead : h > LatestKnown /\ known' = known \cup {h}
  /\ UNCHANGED <<orch, ahHead, fee, prior, rvars, svars>>

(* The reserve transfer's XCM message is executed on Pop.                 *)
XcmArrive ==
  /\ fee = "inflight" /\ fee' = "arrived"
  /\ UNCHANGED <<orch, ahHead, known, prior, rvars, svars>>

ReqChain ==
  /\ ReqLeg!NodeStep \/ ReqLeg!Callback \/ ReqLeg!Supersede
  /\ UNCHANGED <<orch, env, svars>>

RespChain ==
  /\ RespLeg!NodeStep \/ RespLeg!Callback \/ RespLeg!Supersede
  /\ UNCHANGED <<orch, env, rvars>>

Next == Orchestrator \/ AhProduce \/ PopLearn \/ XcmArrive \/ ReqChain \/ RespChain

(* run() is a chain of awaits: each continuation runs once its result is  *)
(* in; the legs are fair as in SubmitExtrinsic.                           *)
Fairness ==
  /\ WF_vars(Orchestrator)
  /\ WF_vars(ReqLeg!Callback /\ UNCHANGED <<orch, env, svars>>)
  /\ WF_vars(RespLeg!Callback /\ UNCHANGED <<orch, env, rvars>>)
  /\ WF_vars((ReqLeg!Finalize \/ \E k \in ReqLeg!ErrorKinds : ReqLeg!Error(k))
             /\ UNCHANGED <<orch, env, svars>>)
  /\ WF_vars((RespLeg!Finalize \/ \E k \in RespLeg!ErrorKinds : RespLeg!Error(k))
             /\ UNCHANGED <<orch, env, rvars>>)

Spec == Init /\ [][Next]_vars /\ Fairness

-----------------------------------------------------------------------------
(* Properties.                                                             *)

(* The response this run submits answers the request this run made: the   *)
(* datagram carries, with source and dest restored, exactly the request   *)
(* our get-request stored under its commitment in Pop's best chain.       *)
ResponseAnswersOwnRequest ==
  dgram # NoDgram =>
    /\ OwnComm # NoComm
    /\ comm = OwnComm
    /\ dgram.request = OwnRequest

(* The proof is read at AH's block of the request's height, and the       *)
(* datagram claims that height for AH.                                    *)
ProofAtRequestHeight ==
  dgram # NoDgram =>
    /\ dgram.proofAt = dgram.request.height
    /\ dgram.height = dgram.request.height
    /\ dgram.id = AhSM

(* §4.5/§4.7: the proof is fetched for the resolved request's keys.        *)
ProofCoversKeys ==
  dgram # NoDgram =>
    {dgram.request.keys[i] : i \in 1..Len(dgram.request.keys)} \subseteq dgram.keys

(* A run that completes has its own request answered on Pop.              *)
DoneMeansAnswered ==
  pc = "done" => OwnComm \in Answered

(* makeIsmpResponse answers only a Get (§4.6): run() completes only when  *)
(* Pop has recorded a response to the request it resolved, whichever      *)
(* request that is.  A request it cannot answer, a Post read from index 0 *)
(* in region-transfer.ts, must make run() fail, not complete silently    *)
(* through the else branch that creates an Error without throwing it.     *)
DoneMeansResolvedAnswered ==
  pc = "done" => \E c \in Answered : Stored(c) = req

(* The comment "Needed for fee payment": Alice's fee funds have reached   *)
(* Pop before run() makes its first signed call there (addParachain).     *)
FeesBeforePopCalls ==
  [][pc = "addPara" /\ pc' # "addPara" => fee = "arrived"]_vars

-----------------------------------------------------------------------------
(* Refinement: run() as the §4.7 state machine.  Every await of run() is a *)
(* phase: the setup and the get-request's submission are Idle, a finalized *)
(* get-request is RequestSubmitted, a known commitment CommitmentKnown, a  *)
(* resolved request RequestResolved until the proof is read (blockHash is *)
(* part of fetching it), a read proof ProofFetched until the response is  *)
(* finalized.                                                             *)
PhaseOf ==
  CASE pc \in {"fund", "addPara", "height", "submit", "await"} -> "Idle"
    [] pc = "find"                         -> "RequestSubmitted"
    [] pc = "query"                        -> "CommitmentKnown"
    [] pc \in {"blockhash", "proof"}       -> "RequestResolved"
    [] pc \in {"respond", "awaitResp"}     -> "ProofFetched"
    [] pc = "done"                         -> "ResponseSubmitted"
    [] OTHER                               -> "Failed"

ProofOf == IF proof = NoDgram THEN NoDgram ELSE [at |-> proof.at]

ResponseOf ==
  IF pc = "done"
    THEN [request |-> dgram.request, id |-> dgram.id,
          height |-> dgram.height, proofAt |-> dgram.proofAt]
    ELSE NoDgram

Flow == INSTANCE OrchestratorFlow WITH
  phase <- PhaseOf, commitment <- comm, request <- req, proof <- ProofOf,
  response <- ResponseOf, Commitments <- OwnCommitments, None <- NoDgram,
  Source <- PopSM, Dest <- AhSM

(* §4.7: run() of ismp-get.ts goes through the orchestrator's phases in   *)
(* order, each with what its component must return: the commitment of    *)
(* its own get-request, a request with the known source and dest, a proof *)
(* at the request's height, a response built from both.                   *)
ImplementsOrchestratorFlow == Flow!Spec

(* run() ends: it completes or fails, it never hangs.                     *)
Termination == <>(pc \in {"done", "failed"})

=============================================================================
