-------------------------- MODULE SubmitExtrinsic --------------------------
(***************************************************************************)
(* One submission of an extrinsic and the promise that waits for it:      *)
(* submitExtrinsic in src/scripts/ismp-get/common.ts (and its copies in   *)
(* e2e_tests/common.ts and the unsigned send of makeIsmpResponse).        *)
(*                                                                         *)
(* The node's transaction watcher is the environment: it emits the        *)
(* status stream of the transaction (InBlock, Retracted, Finalized and    *)
(* the error statuses) into an ordered channel `out`.  The status         *)
(* callback is the code: it handles the head of the channel, captures the *)
(* events of an InBlock block into tx_events, resolves on Finalized and   *)
(* rejects on an error status.  A reorganisation retracts the block that  *)
(* included the transaction and may include it in another block, whose    *)
(* events may differ (another nonce, hence another commitment).           *)
(*                                                                         *)
(* Unless ReliableEvents holds, the client may lose the events of an      *)
(* InBlock status: the result is dropped when a later status arrives      *)
(* before its events are fetched, or its events fetch fails and the       *)
(* callback is given the default `events = []`.                           *)
(***************************************************************************)
EXTENDS Naturals, Sequences

CONSTANTS
  Blocks,         \* hashes of the blocks that may include the transaction
  NoBlock,        \* "not in the best chain"
  EventLists,     \* the event lists the transaction may emit in a block
  CaptureEvents,  \* the callback stores InBlock events (ismp-get/common.ts)
  ReliableEvents, \* every InBlock status reaches the callback with its events
  NodeMayRefuse   \* the RPC may refuse the extrinsic at submission

ASSUME ConstAssumption ==
  /\ NoBlock \notin Blocks
  /\ <<>> \in EventLists
  /\ CaptureEvents \in BOOLEAN
  /\ ReliableEvents \in BOOLEAN
  /\ NodeMayRefuse \in BOOLEAN

VARIABLES
  node,     \* watcher state of the transaction on the node
  incl,     \* block of the best chain that includes it, or NoBlock
  used,     \* blocks that have included it (a block hash is never reused)
  evOf,     \* evOf[b]: events the transaction emitted in block b
  out,      \* statuses emitted by the node, not yet handled by the callback
  promise,  \* the Promise returned by submitExtrinsic
  events,   \* tx_events.events
  sub       \* the client-side status subscription

vars == <<node, incl, used, evOf, out, promise, events, sub>>

ErrorKinds == {"Invalid", "Dropped", "Usurped", "FinalityTimeout"}
StatusKinds == {"InBlock", "Retracted", "Finalized"} \cup ErrorKinds
Status == [kind : StatusKinds, block : Blocks \cup {NoBlock}]
St(k, b) == [kind |-> k, block |-> b]
Settled == {"resolved", "rejected"}

(* resolve() and reject() of a Promise that is already settled do nothing *)
Settle(p, v) == IF p = "pending" THEN v ELSE p

TypeOK ==
  /\ node \in {"idle", "refused", "pool", "inblock", "final", "failed"}
  /\ incl \in Blocks \cup {NoBlock}
  /\ used \subseteq Blocks
  /\ evOf \in [Blocks -> EventLists]
  /\ out \in Seq(Status)
  /\ promise \in {"none", "pending"} \cup Settled
  /\ events \in EventLists
  /\ sub \in {"none", "live", "closed"}

Init ==
  /\ node = "idle"
  /\ incl = NoBlock
  /\ used = {}
  /\ evOf = [b \in Blocks |-> <<>>]
  /\ out = <<>>
  /\ promise = "none"
  /\ events = <<>>
  /\ sub = "none"

-----------------------------------------------------------------------------
(* The code.                                                               *)

(* new Promise(...) calls signAndSend(signer, options, callback).  If the  *)
(* node accepts the extrinsic (ok) the subscription is live; otherwise    *)
(* signAndSend's own promise (`unsub`) rejects, the callback is never     *)
(* called and nothing settles the outer Promise.                          *)
Submit(ok) ==
  /\ promise = "none"
  /\ promise' = "pending"
  /\ node' = IF ok THEN "pool" ELSE "refused"
  /\ sub' = IF ok THEN "live" ELSE "none"
  /\ UNCHANGED <<incl, used, evOf, out, events>>

(* The events the client hands the callback with an InBlock status.        *)
Fetched(s) ==
  {evOf[s.block]} \cup (IF ReliableEvents THEN {} ELSE {<<>>})

(* Mutants of Callback: InBlock events pushed onto tx_events (not set);    *)
(* tx_events set only by the first InBlock; the isError branch missing;   *)
(* the promise resolved already on InBlock.                               *)
CallbackPushEvents ==
  /\ out # <<>>
  /\ IF Head(out).kind = "InBlock" /\ CaptureEvents
       THEN events' \in {events \o x : x \in Fetched(Head(out))}
       ELSE events' = events
  /\ promise' = IF Head(out).kind = "Finalized" THEN Settle(promise, "resolved")
                ELSE IF Head(out).kind \in ErrorKinds THEN Settle(promise, "rejected")
                ELSE promise
  /\ out' = Tail(out)
  /\ UNCHANGED <<node, incl, used, evOf, sub>>

CallbackKeepFirst ==
  /\ out # <<>>
  /\ IF Head(out).kind = "InBlock" /\ CaptureEvents /\ events = <<>>
       THEN events' \in Fetched(Head(out)) ELSE events' = events
  /\ promise' = IF Head(out).kind = "Finalized" THEN Settle(promise, "resolved")
                ELSE IF Head(out).kind \in ErrorKinds THEN Settle(promise, "rejected")
                ELSE promise
  /\ out' = Tail(out)
  /\ UNCHANGED <<node, incl, used, evOf, sub>>

CallbackIgnoreErrors ==
  /\ out # <<>>
  /\ IF Head(out).kind = "InBlock" /\ CaptureEvents
       THEN events' \in Fetched(Head(out)) ELSE events' = events
  /\ promise' = IF Head(out).kind = "Finalized" THEN Settle(promise, "resolved")
                ELSE promise
  /\ out' = Tail(out)
  /\ UNCHANGED <<node, incl, used, evOf, sub>>

CallbackResolveInBlock ==
  /\ out # <<>>
  /\ IF Head(out).kind = "InBlock" /\ CaptureEvents
       THEN events' \in Fetched(Head(out)) ELSE events' = events
  /\ promise' = IF Head(out).kind \in {"InBlock", "Finalized"}
                  THEN Settle(promise, "resolved")
                ELSE IF Head(out).kind \in ErrorKinds THEN Settle(promise, "rejected")
                ELSE promise
  /\ out' = Tail(out)
  /\ UNCHANGED <<node, incl, used, evOf, sub>>

(* The status callback on the status at the head of the channel.  InBlock *)
(* stores the block's events (when this copy captures them); Finalized    *)
(* calls unsub.then() -- which never invokes the unsubscribe function --  *)
(* and resolves; an error status does the same and rejects; any other    *)
(* status only logs.                                                      *)
Callback ==
  /\ out # <<>>
  /\ LET s == Head(out) IN
     /\ IF s.kind = "InBlock" /\ CaptureEvents
          THEN events' \in Fetched(s)
          ELSE events' = events
     /\ promise' = CASE s.kind = "Finalized" -> Settle(promise, "resolved")
                     [] s.kind \in ErrorKinds -> Settle(promise, "rejected")
                     [] OTHER -> promise
  /\ out' = Tail(out)
  /\ UNCHANGED <<node, incl, used, evOf, sub>>

-----------------------------------------------------------------------------
(* The node's watcher (environment).                                       *)

Include(b, e) ==
  /\ node = "pool"
  /\ b \notin used
  /\ node' = "inblock"
  /\ incl' = b
  /\ used' = used \cup {b}
  /\ evOf' = [evOf EXCEPT ![b] = e]
  /\ out' = Append(out, St("InBlock", b))
  /\ UNCHANGED <<promise, events, sub>>

Retract ==
  /\ node = "inblock"
  /\ node' = "pool"
  /\ incl' = NoBlock
  /\ out' = Append(out, St("Retracted", incl))
  /\ UNCHANGED <<used, evOf, promise, events, sub>>

Finalize ==
  /\ node = "inblock"
  /\ node' = "final"
  /\ out' = Append(out, St("Finalized", incl))
  /\ UNCHANGED <<incl, used, evOf, promise, events, sub>>

(* Invalid, Dropped and Usurped leave the pool; FinalityTimeout gives up   *)
(* on a transaction that stays in its block.                              *)
Error(k) ==
  /\ \/ node = "pool" /\ k \in ErrorKinds \ {"FinalityTimeout"}
     \/ node = "inblock" /\ k = "FinalityTimeout"
  /\ node' = "failed"
  /\ out' = Append(out, St(k, NoBlock))
  /\ UNCHANGED <<incl, used, evOf, promise, events, sub>>

(* A later status arrives before the events of an InBlock are fetched:    *)
(* the InBlock result never reaches the callback.                         *)
Supersede ==
  /\ ~ReliableEvents
  /\ Len(out) >= 2
  /\ Head(out).kind = "InBlock"
  /\ out' = Tail(out)
  /\ UNCHANGED <<node, incl, used, evOf, promise, events, sub>>

NodeStep ==
  \/ \E b \in Blocks, e \in EventLists : Include(b, e)
  \/ Retract
  \/ Finalize
  \/ \E k \in ErrorKinds : Error(k)

Next ==
  \/ \E ok \in IF NodeMayRefuse THEN BOOLEAN ELSE {TRUE} : Submit(ok)
  \/ Callback
  \/ NodeStep
  \/ Supersede

(* The event loop runs the callback of every status that arrives; the     *)
(* node is assumed to end the status stream of an accepted transaction.   *)
(* The code itself does not guarantee the latter: it has no timeout.      *)
Fairness ==
  /\ WF_vars(Callback)
  /\ WF_vars(Finalize \/ \E k \in ErrorKinds : Error(k))

Spec == Init /\ [][Next]_vars /\ Fairness

-----------------------------------------------------------------------------
(* Properties.                                                             *)

(* When the promise resolves, tx_events holds the events the transaction  *)
(* emitted in the block it was finalized in, even after a reorganisation  *)
(* moved it from one block to another (submitExtrinsic's InBlock branch   *)
(* overwrites tx_events on every inclusion).                              *)
EventsOfFinalBlock ==
  promise = "resolved" =>
    /\ incl # NoBlock
    /\ events = evOf[incl]

(* §3: the promise never treats InBlock as final: it resolves only when   *)
(* the node has finalized a block of the best chain that includes the     *)
(* transaction, whatever reorganisations and lost statuses came before.   *)
ResolvedOnlyWhenFinal ==
  promise = "resolved" => node = "final" /\ incl \in used

(* The caller reads the tx_events object after `await submitExtrinsic`,  *)
(* while the subscription stays live (unsub.then() cancels nothing): once *)
(* the promise has resolved, no later status callback changes tx_events   *)
(* or the promise.                                                        *)
EventsFrozen ==
  [][promise = "resolved" => UNCHANGED <<promise, events>>]_vars

(* §4.1: the subscription is cancelled on every terminal state.            *)
SubscriptionReleased ==
  promise \in Settled => sub # "live"

(* §4.1: submit settles once the call reaches a terminal state: a pending *)
(* promise is eventually resolved or rejected.                            *)
SubmitSettles ==
  promise = "pending" ~> promise \in Settled


-----------------------------------------------------------------------------
(* Refinement: the outcome the caller sees is the state of the Promise.   *)
OutcomeOf ==
  CASE promise = "none"     -> "Idle"
    [] promise = "pending"  -> "Submitted"
    [] promise = "resolved" -> "Finalized"
    [] OTHER                -> "Errored"

ResultOf == IF promise = "resolved" THEN events ELSE <<>>

Outcome == INSTANCE TxOutcome WITH outcome <- OutcomeOf, result <- ResultOf

(* §3/§4.1: submitExtrinsic implements the TransactionOutcome contract:   *)
(* its promise resolves only on finality, with the events of the final   *)
(* block, rejects only once the node gave the transaction up, and        *)
(* settles once the node reached a terminal state.                       *)
ImplementsTxOutcome == Outcome!Spec
=============================================================================
