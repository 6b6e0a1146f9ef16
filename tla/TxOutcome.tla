----------------------------- MODULE TxOutcome ------------------------------
(***************************************************************************)
(* What a submission promises its caller (spec §3 TransactionOutcome and  *)
(* §4.1): Idle -> Submitted -> Finalized | Errored.  The outcome moves to *)
(* Finalized only once the node has finalized a block of the best chain   *)
(* that includes the transaction, and then carries the events the        *)
(* transaction emitted in that block; it moves to Errored only once the   *)
(* node has given the transaction up (or refused it).  The node's view   *)
(* of the transaction (node, incl, used, evOf) is the same environment as *)
(* in SubmitExtrinsic; the outcome observes it atomically, with no status *)
(* channel in between.                                                    *)
(***************************************************************************)
EXTENDS Naturals, Sequences

CONSTANTS Blocks, NoBlock, EventLists

VARIABLES
  node, incl, used, evOf, \* the node's watcher, as in SubmitExtrinsic
  outcome,                \* the TransactionOutcome the caller sees
  result                  \* the events it carries once Finalized

avars == <<node, incl, used, evOf, outcome, result>>

Outcomes == {"Idle", "Submitted", "Finalized", "Errored"}

Init ==
  /\ node = "idle" /\ incl = NoBlock /\ used = {}
  /\ evOf = [b \in Blocks |-> <<>>]
  /\ outcome = "Idle"
  /\ result = <<>>

Submit(ok) ==
  /\ outcome = "Idle"
  /\ outcome' = "Submitted"
  /\ node' = IF ok THEN "pool" ELSE "refused"
  /\ UNCHANGED <<incl, used, evOf, result>>

(* The node includes, retracts, finalizes or gives up the transaction.    *)
Include(b, e) ==
  /\ node = "pool" /\ b \notin used
  /\ node' = "inblock" /\ incl' = b /\ used' = used \cup {b}
  /\ evOf' = [evOf EXCEPT ![b] = e]
  /\ UNCHANGED <<outcome, result>>

Retract ==
  /\ node = "inblock"
  /\ node' = "pool" /\ incl' = NoBlock
  /\ UNCHANGED <<used, evOf, outcome, result>>

Finalize ==
  /\ node = "inblock" /\ node' = "final"
  /\ UNCHANGED <<incl, used, evOf, outcome, result>>

Fail ==
  /\ node \in {"pool", "inblock"} /\ node' = "failed"
  /\ UNCHANGED <<incl, used, evOf, outcome, result>>

(* The caller learns the terminal state.                                  *)
Resolve ==
  /\ outcome = "Submitted" /\ node = "final"
  /\ outcome' = "Finalized"
  /\ result' = evOf[incl]
  /\ UNCHANGED <<node, incl, used, evOf>>

Reject ==
  /\ outcome = "Submitted" /\ node \in {"failed", "refused"}
  /\ outcome' = "Errored"
  /\ UNCHANGED <<node, incl, used, evOf, result>>

Next ==
  \/ \E ok \in BOOLEAN : Submit(ok)
  \/ \E b \in Blocks, e \in EventLists : Include(b, e)
  \/ Retract \/ Finalize \/ Fail
  \/ Resolve \/ Reject

(* The safety part, which a refinement proof establishes.                 *)
SafeSpec == Init /\ [][Next]_avars

(* A submitted call reaches a terminal outcome once the node has reached  *)
(* a terminal state (§4.1: "resolves once the call reaches a terminal     *)
(* state").                                                               *)
Spec ==
  /\ SafeSpec
  /\ WF_avars(Resolve) /\ WF_avars(Reject)
  /\ WF_avars(Finalize \/ Fail)

=============================================================================
