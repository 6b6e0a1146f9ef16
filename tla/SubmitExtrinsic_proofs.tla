----------------------- MODULE SubmitExtrinsic_proofs -----------------------
(***************************************************************************)
(* Proofs about one submission (SubmitExtrinsic), for every set of blocks *)
(* and event lists.                                                       *)
(*                                                                         *)
(* EventsOfFinalBlock is not inductive by itself: it speaks of the state  *)
(* after the Finalized status is handled, and whether that state is right *)
(* depends on the statuses still queued in `out`.  The strengthening      *)
(* IInv says what the queue may hold: a Finalized status only last and    *)
(* only for the block that includes the transaction, and -- when InBlock  *)
(* events are captured reliably -- that the last InBlock status queued is *)
(* for that block, or, if none is queued, tx_events already holds its     *)
(* events.                                                                *)
(***************************************************************************)
EXTENDS SubmitExtrinsic, SequenceTheorems, TLAPS

(* No InBlock status is queued at positions from..Len(out).               *)
NoInBlockFrom(q, from) ==
  \A j \in from..Len(q) : q[j].kind # "InBlock"

(* The last InBlock status queued is for block b.                          *)
LastInBlockIs(q, b) ==
  \E i \in 1..Len(q) : q[i] = St("InBlock", b) /\ NoInBlockFrom(q, i + 1)

Reliable == CaptureEvents /\ ReliableEvents

IdleInv ==
  /\ node = "idle" <=> promise = "none"
  /\ node = "idle" => out = <<>>

InclInv == node \in {"inblock", "final"} => incl \in used

QueueInv ==
  \A i \in 1..Len(out) :
    /\ out[i].kind = "InBlock" => out[i].block \in used
    /\ out[i].kind = "Finalized" =>
         i = Len(out) /\ node = "final" /\ out[i].block = incl

ResolvedInv == promise = "resolved" => node = "final" /\ incl \in used /\ out = <<>>

CaptureInv ==
  Reliable /\ node \in {"inblock", "final"} =>
    \/ LastInBlockIs(out, incl)
    \/ NoInBlockFrom(out, 1) /\ events = evOf[incl]

ResolvedEventsInv == Reliable /\ promise = "resolved" => events = evOf[incl]

IInv ==
  /\ TypeOK
  /\ IdleInv
  /\ InclInv
  /\ QueueInv
  /\ ResolvedInv
  /\ CaptureInv
  /\ ResolvedEventsInv

-----------------------------------------------------------------------------
USE ConstAssumption

THEOREM InitIInv == Init => IInv
  BY DEF Init, IInv, TypeOK, IdleInv, InclInv, QueueInv, ResolvedInv,
         CaptureInv, ResolvedEventsInv


(* The queue facts the steps below rely on: what Tail and Append keep.    *)
LEMMA TailQueue ==
  ASSUME NEW q \in Seq(Status), q # <<>>
  PROVE  /\ Tail(q) \in Seq(Status)
         /\ Len(Tail(q)) = Len(q) - 1
         /\ \A i \in 1..Len(Tail(q)) : Tail(q)[i] = q[i + 1]
         /\ Head(q) = q[1] /\ Head(q) \in Status
         /\ Len(q) \in Nat \ {0}
  BY HeadTailProperties, EmptySeq

LEMMA TailLast ==
  ASSUME NEW q \in Seq(Status), q # <<>>, NEW i \in 1..Len(Tail(q)),
         i + 1 = Len(q)
  PROVE  i = Len(Tail(q))
  BY HeadTailProperties

LEMMA AppendQueue ==
  ASSUME NEW q \in Seq(Status), NEW st \in Status
  PROVE  /\ Append(q, st) \in Seq(Status)
         /\ Len(q) \in Nat
         /\ Len(Append(q, st)) = Len(q) + 1
         /\ \A i \in 1..Len(q) : Append(q, st)[i] = q[i]
         /\ Append(q, st)[Len(q) + 1] = st
  BY AppendProperties, LenProperties

LEMMA StStatus ==
  ASSUME NEW k \in StatusKinds, NEW b \in Blocks \cup {NoBlock}
  PROVE  St(k, b) \in Status
  BY DEF St, Status


(* A step of the submission whatever the node answers to submit: the       *)
(* modules that compose a submission decide that answer themselves (Pop's  *)
(* fee check, the response handler's verdict).                            *)
AnyStep ==
  \/ \E ok \in BOOLEAN : Submit(ok)
  \/ Callback
  \/ NodeStep
  \/ Supersede

(* Every step keeps IInv, whether or not the node accepts the              *)
(* transaction: one case per action.                                      *)
THEOREM StepIInv == IInv /\ [AnyStep]_vars => IInv'
<1> SUFFICES ASSUME IInv, [AnyStep]_vars PROVE IInv'
  OBVIOUS
<1>. USE DEF IInv
<1>1. ASSUME NEW ok \in BOOLEAN, Submit(ok) PROVE IInv'
  <2>1. node = "idle" /\ out = <<>> /\ promise = "none"
    BY <1>1 DEF Submit, IdleInv
  <2>2. TypeOK'
    BY <1>1 DEF Submit, TypeOK
  <2>. QED
    BY <1>1, <2>1, <2>2 DEF Submit, IdleInv, InclInv, QueueInv, ResolvedInv,
       CaptureInv, ResolvedEventsInv
<1>2. CASE Retract
  <2>1. node = "inblock" /\ promise # "resolved" /\ out \in Seq(Status)
    BY <1>2 DEF Retract, ResolvedInv, TypeOK
  <2>2. St("Retracted", incl) \in Status
    BY StStatus DEF TypeOK, StatusKinds
  <2>3. \A i \in 1..Len(out) : out[i].kind # "Finalized"
    BY <2>1 DEF QueueInv
  <2>4. QueueInv'
    BY <1>2, <2>1, <2>2, <2>3, AppendQueue DEF Retract, QueueInv, St
  <2>5. TypeOK'
    BY <1>2, <2>1, <2>2, AppendQueue DEF Retract, TypeOK
  <2>. QED
    BY <1>2, <2>1, <2>4, <2>5 DEF Retract, IdleInv, InclInv, ResolvedInv,
       CaptureInv, ResolvedEventsInv
<1>3. CASE Finalize
  <2>1. node = "inblock" /\ promise # "resolved" /\ out \in Seq(Status)
        /\ incl \in used
    BY <1>3 DEF Finalize, ResolvedInv, TypeOK, InclInv
  <2>2. St("Finalized", incl) \in Status
    BY StStatus DEF TypeOK, StatusKinds
  <2>3. \A i \in 1..Len(out) : out[i].kind # "Finalized"
    BY <2>1 DEF QueueInv
  <2>4. QueueInv'
    BY <1>3, <2>1, <2>2, <2>3, AppendQueue DEF Finalize, QueueInv, St
  <2>5. TypeOK'
    BY <1>3, <2>1, <2>2, AppendQueue DEF Finalize, TypeOK
  <2>6. CaptureInv'
    <3>. DEFINE q == Append(out, St("Finalized", incl))
    <3>1. /\ Len(q) = Len(out) + 1
          /\ \A i \in 1..Len(out) : q[i] = out[i]
          /\ q[Len(out) + 1].kind = "Finalized"
          /\ Len(out) \in Nat
      BY <2>1, <2>2, AppendQueue DEF St
    <3>2. ASSUME NEW b, LastInBlockIs(out, b) PROVE LastInBlockIs(q, b)
      BY <3>1, <3>2 DEF LastInBlockIs, NoInBlockFrom
    <3>3. ASSUME NoInBlockFrom(out, 1) PROVE NoInBlockFrom(q, 1)
      <4> SUFFICES ASSUME NEW j \in 1..Len(q) PROVE q[j].kind # "InBlock"
        BY DEF NoInBlockFrom
      <4>1. CASE j <= Len(out)
        BY <3>1, <3>3, <4>1 DEF NoInBlockFrom
      <4>2. CASE j = Len(out) + 1
        BY <3>1, <4>2
      <4>. QED
        BY <3>1, <4>1, <4>2
    <3>. QED
      BY <1>3, <3>2, <3>3 DEF Finalize, CaptureInv
  <2>. QED
    BY <1>3, <2>1, <2>4, <2>5, <2>6 DEF Finalize, IdleInv, InclInv,
       ResolvedInv, ResolvedEventsInv
<1>4. ASSUME NEW k \in ErrorKinds, Error(k) PROVE IInv'
  <2>1. node \in {"pool", "inblock"} /\ promise # "resolved"
        /\ out \in Seq(Status)
    BY <1>4 DEF Error, ResolvedInv, TypeOK
  <2>2. St(k, NoBlock) \in Status
    BY StStatus DEF StatusKinds
  <2>3. \A i \in 1..Len(out) : out[i].kind # "Finalized"
    BY <2>1 DEF QueueInv
  <2>4. QueueInv'
    BY <1>4, <2>1, <2>2, <2>3, AppendQueue DEF Error, QueueInv, St, ErrorKinds
  <2>5. TypeOK'
    BY <1>4, <2>1, <2>2, AppendQueue DEF Error, TypeOK
  <2>. QED
    BY <1>4, <2>1, <2>4, <2>5 DEF Error, IdleInv, InclInv, ResolvedInv,
       CaptureInv, ResolvedEventsInv
<1>5. ASSUME NEW b \in Blocks, NEW e \in EventLists, Include(b, e) PROVE IInv'
  <2>1. node = "pool" /\ promise # "resolved" /\ out \in Seq(Status)
    BY <1>5 DEF Include, ResolvedInv, TypeOK
  <2>2. St("InBlock", b) \in Status
    BY StStatus DEF StatusKinds
  <2>3. \A i \in 1..Len(out) : out[i].kind # "Finalized"
    BY <2>1 DEF QueueInv
  <2>. DEFINE q == Append(out, St("InBlock", b))
  <2>4. /\ Len(q) = Len(out) + 1
        /\ \A i \in 1..Len(out) : q[i] = out[i]
        /\ q[Len(out) + 1] = St("InBlock", b)
        /\ q \in Seq(Status)
        /\ Len(out) \in Nat
    BY <2>1, <2>2, AppendQueue
  <2>5. QueueInv'
    BY <1>5, <2>1, <2>3, <2>4 DEF Include, QueueInv, St
  <2>6. TypeOK'
    <3>1. evOf' \in [Blocks -> EventLists]
      BY <1>5 DEF Include, TypeOK
    <3>2. used' \subseteq Blocks /\ incl' \in Blocks
      BY <1>5 DEF Include, TypeOK
    <3>. QED
      BY <1>5, <2>4, <3>1, <3>2 DEF Include, TypeOK, q
  <2>7. LastInBlockIs(q, b)
    BY <2>1, <2>4 DEF LastInBlockIs, NoInBlockFrom
  <2>. QED
    BY <1>5, <2>1, <2>5, <2>6, <2>7 DEF Include, IdleInv, InclInv,
       ResolvedInv, CaptureInv, ResolvedEventsInv
<1>6. CASE Supersede
  <2>1. out \in Seq(Status) /\ out # <<>> /\ promise # "resolved" /\ ~Reliable
    BY <1>6 DEF Supersede, TypeOK, ResolvedInv, Reliable
  <2>2. /\ Tail(out) \in Seq(Status)
        /\ Len(Tail(out)) = Len(out) - 1
        /\ \A i \in 1..Len(Tail(out)) : Tail(out)[i] = out[i + 1]
        /\ Len(out) \in Nat \ {0}
    BY <2>1, TailQueue
  <2>3. QueueInv'
    <3> SUFFICES ASSUME NEW i \in 1..Len(Tail(out))
                 PROVE  /\ Tail(out)[i].kind = "InBlock" => Tail(out)[i].block \in used
                        /\ Tail(out)[i].kind = "Finalized" =>
                             i = Len(Tail(out)) /\ node = "final"
                             /\ Tail(out)[i].block = incl
      BY <1>6 DEF Supersede, QueueInv
    <3>1. i + 1 \in 1..Len(out) /\ Tail(out)[i] = out[i + 1]
      BY <2>2
    <3>2. /\ out[i + 1].kind = "InBlock" => out[i + 1].block \in used
          /\ out[i + 1].kind = "Finalized" =>
               i + 1 = Len(out) /\ node = "final" /\ out[i + 1].block = incl
      BY <3>1 DEF QueueInv
    <3>3. Tail(out)[i].kind = out[i + 1].kind /\ Tail(out)[i].block = out[i + 1].block
      BY <3>1
    <3>4. i + 1 = Len(out) => i = Len(Tail(out))
      BY <2>1, TailLast
    <3>. QED
      BY <3>2, <3>3, <3>4
  <2>4. TypeOK'
    BY <1>6, <2>2 DEF Supersede, TypeOK
  <2>. QED
    BY <1>6, <2>1, <2>3, <2>4 DEF Supersede, IdleInv, InclInv, ResolvedInv,
       CaptureInv, ResolvedEventsInv
<1>7. CASE Callback
  <2>. DEFINE s == Head(out)
              q == Tail(out)
  <2>1. out \in Seq(Status) /\ out # <<>> /\ promise # "resolved"
        /\ node # "idle" /\ promise # "none"
    BY <1>7 DEF Callback, TypeOK, ResolvedInv, IdleInv
  <2>2. /\ q \in Seq(Status)
        /\ Len(q) = Len(out) - 1
        /\ \A i \in 1..Len(q) : q[i] = out[i + 1]
        /\ s = out[1] /\ Len(out) \in Nat \ {0}
    BY <2>1, TailQueue
  <2>3. s \in Status /\ 1 \in 1..Len(out)
    BY <2>1, TailQueue
  <2>4. s.kind = "InBlock" => s.block \in used
    BY <2>2, <2>3 DEF QueueInv
  <2>5. s.kind = "Finalized" => Len(out) = 1 /\ node = "final" /\ s.block = incl
    BY <2>2, <2>3 DEF QueueInv
  <2>6. events' \in EventLists
    BY <1>7, <2>3, <2>4 DEF Callback, Fetched, TypeOK
  <2>7. promise' = "resolved" => s.kind = "Finalized"
    BY <1>7, <2>1 DEF Callback, Settle
  <2>8. s.kind # "InBlock" => events' = events
    BY <1>7 DEF Callback
  <2>9. TypeOK'
    BY <1>7, <2>1, <2>2, <2>6 DEF Callback, TypeOK, Settle, Settled
  <2>10. QueueInv'
    BY <1>7, <2>2 DEF Callback, QueueInv
  <2>11. ResolvedInv'
    <3>1. ASSUME promise' = "resolved" PROVE out' = <<>>
      BY <1>7, <2>2, <2>5, <2>7, <3>1 DEF Callback
    <3>. QED
      BY <1>7, <2>5, <2>7, <3>1 DEF Callback, ResolvedInv, InclInv
  <2>12. CaptureInv'
    <3> SUFFICES ASSUME Reliable, node \in {"inblock", "final"}
                 PROVE  \/ LastInBlockIs(q, incl)
                        \/ NoInBlockFrom(q, 1) /\ events' = evOf[incl]
      BY <1>7 DEF Callback, CaptureInv
    <3>1. s.kind = "InBlock" => events' = evOf[s.block]
      BY <1>7 DEF Callback, Fetched, Reliable
    <3>2. CASE LastInBlockIs(out, incl)
      <4>1. PICK i \in 1..Len(out) : out[i] = St("InBlock", incl)
                                     /\ NoInBlockFrom(out, i + 1)
        BY <3>2 DEF LastInBlockIs
      <4>2. CASE i = 1
        BY <2>2, <3>1, <4>1, <4>2 DEF NoInBlockFrom, St
      <4>3. CASE i > 1
        <5>1. i - 1 \in 1..Len(q) /\ q[i - 1] = St("InBlock", incl)
              /\ NoInBlockFrom(q, i)
          BY <2>2, <4>1, <4>3 DEF NoInBlockFrom
        <5>2. (i - 1) + 1 = i
          BY <4>3
        <5>. QED
          BY <5>1, <5>2 DEF LastInBlockIs, NoInBlockFrom
      <4>. QED
        BY <4>2, <4>3
    <3>3. CASE NoInBlockFrom(out, 1) /\ events = evOf[incl]
      <4>1. s.kind # "InBlock"
        BY <2>2, <3>3 DEF NoInBlockFrom
      <4>. QED
        BY <2>2, <2>8, <3>3, <4>1 DEF NoInBlockFrom
    <3>. QED
      BY <3>2, <3>3 DEF CaptureInv
  <2>13. ResolvedEventsInv'
    <3> SUFFICES ASSUME Reliable, promise' = "resolved"
                 PROVE  events' = evOf[incl]
      BY <1>7 DEF Callback, ResolvedEventsInv
    <3>1. s.kind = "Finalized" /\ Len(out) = 1 /\ node = "final"
      BY <2>5, <2>7
    <3>2. ~LastInBlockIs(out, incl)
      BY <2>2, <3>1 DEF LastInBlockIs, St
    <3>3. events = evOf[incl]
      BY <3>1, <3>2 DEF CaptureInv
    <3>. QED
      BY <1>7, <2>8, <3>1, <3>3 DEF Callback
  <2>. QED
    BY <1>7, <2>1, <2>9, <2>10, <2>11, <2>12, <2>13 DEF Callback, IdleInv,
       InclInv, Settle
<1>9. CASE UNCHANGED vars
  BY <1>9 DEF vars, TypeOK, IdleInv, InclInv, QueueInv, ResolvedInv,
     CaptureInv, ResolvedEventsInv, LastInBlockIs, NoInBlockFrom, Reliable
<1>. QED
  BY <1>1, <1>2, <1>3, <1>4, <1>5, <1>6, <1>7, <1>9 DEF AnyStep, NodeStep

(* Every step of the submission on its own keeps IInv.                     *)
THEOREM NextIInv == IInv /\ [Next]_vars => IInv'
<1>1. [Next]_vars => [AnyStep]_vars
  BY DEF Next, AnyStep
<1>. QED
  BY <1>1, StepIInv

-----------------------------------------------------------------------------
(* Every state reached by submitExtrinsic satisfies the inductive          *)
(* invariant: the induction of InitIInv and NextIInv.                      *)
THEOREM IInvHolds == Spec => []IInv
<1>1. Init => IInv
  BY InitIInv
<1>2. IInv /\ [Next]_vars => IInv'
  BY NextIInv
<1>. QED
  BY <1>1, <1>2, PTL DEF Spec

(* Type correctness: whatever statuses the node emits and in whatever      *)
(* order the callback handles them, every variable keeps its type.        *)
THEOREM TypeCorrect == Spec => []TypeOK
  BY IInvHolds, PTL DEF IInv

(* The promise of submitExtrinsic resolves only once the node finalized a  *)
(* block of the best chain that includes the transaction, for any set of  *)
(* blocks and events, lossy event delivery and refused submissions.       *)
THEOREM ResolvedFinal == Spec => []ResolvedOnlyWhenFinal
<1>1. IInv => ResolvedOnlyWhenFinal
  BY DEF IInv, ResolvedInv, ResolvedOnlyWhenFinal
<1>. QED
  BY <1>1, IInvHolds, PTL

(* When every InBlock status reaches the callback with its events, the     *)
(* tx_events of a resolved submitExtrinsic are those of the block it was   *)
(* finalized in, through any number of reorganisations.                   *)
THEOREM FinalBlockEvents ==
  ASSUME CaptureEvents, ReliableEvents
  PROVE  Spec => []EventsOfFinalBlock
<1>1. IInv => EventsOfFinalBlock
  BY DEF IInv, ResolvedInv, ResolvedEventsInv, Reliable, EventsOfFinalBlock,
     TypeOK
<1>. QED
  BY <1>1, IInvHolds, PTL


(* A resolved promise leaves nothing for a step to do: the node is final  *)
(* and the status channel empty, so no callback runs and no status        *)
(* arrives; submit needs a promise not yet created.                       *)
LEMMA ResolvedStepFrozen ==
  IInv /\ [Next]_vars => [promise = "resolved" => UNCHANGED <<promise, events>>]_vars
<1> SUFFICES ASSUME IInv, [Next]_vars, promise = "resolved"
             PROVE  UNCHANGED <<promise, events>>
  OBVIOUS
<1>1. node = "final" /\ out = <<>>
  BY DEF IInv, ResolvedInv
<1>2. ~\E ok \in BOOLEAN : Submit(ok)
  BY DEF Submit
<1>3. ~Callback /\ ~Supersede
  BY <1>1 DEF Callback, Supersede
<1>4. ~NodeStep
  BY <1>1 DEF NodeStep, Include, Retract, Finalize, Error
<1>. QED
  BY <1>2, <1>3, <1>4 DEF Next, vars

(* Once submitExtrinsic's promise resolved, tx_events -- read by the      *)
(* caller after the await -- and the promise never change again, for any  *)
(* blocks, events, lost InBlock results and refused submissions.          *)
THEOREM FrozenAfterResolve == Spec => EventsFrozen
<1>1. IInv /\ [Next]_vars => [promise = "resolved" => UNCHANGED <<promise, events>>]_vars
  BY ResolvedStepFrozen
<1>. QED
  BY <1>1, IInvHolds, PTL DEF Spec, EventsFrozen

-----------------------------------------------------------------------------
(* Refinement of TxOutcome.  The callback rejects on an error status; for *)
(* that to be the abstract Reject, the node must have given the           *)
(* transaction up whenever an error status is queued.                     *)
ErrorInv == \A i \in 1..Len(out) : out[i].kind \in ErrorKinds => node = "failed"

LEMMA NextErrorInv == IInv /\ ErrorInv /\ [Next]_vars => ErrorInv'
<1> SUFFICES ASSUME IInv, ErrorInv, [Next]_vars PROVE ErrorInv'
  OBVIOUS
<1>. USE DEF IInv
<1>1. ASSUME NEW ok \in BOOLEAN, Submit(ok) PROVE ErrorInv'
  BY <1>1 DEF Submit, IdleInv, ErrorInv
<1>2. ASSUME NEW st \in Status, st.kind \notin ErrorKinds, node # "failed",
             out' = Append(out, st)
      PROVE  ErrorInv'
  <2>1. out \in Seq(Status)
    BY DEF TypeOK
  <2>2. \A i \in 1..Len(out) : out[i].kind \notin ErrorKinds
    BY <1>2 DEF ErrorInv
  <2>. QED
    BY <1>2, <2>1, <2>2, AppendQueue DEF ErrorInv
<1>3. CASE Retract
  BY <1>2, <1>3, StStatus DEF Retract, TypeOK, StatusKinds, St, ErrorKinds
<1>4. CASE Finalize
  BY <1>2, <1>4, StStatus DEF Finalize, TypeOK, StatusKinds, St, ErrorKinds
<1>5. ASSUME NEW b \in Blocks, NEW e \in EventLists, Include(b, e) PROVE ErrorInv'
  BY <1>2, <1>5, StStatus DEF Include, TypeOK, StatusKinds, St, ErrorKinds
<1>6. ASSUME NEW k \in ErrorKinds, Error(k) PROVE ErrorInv'
  BY <1>6 DEF Error, ErrorInv
<1>7. ASSUME out # <<>>, out' = Tail(out), node' = node PROVE ErrorInv'
  BY <1>7, TailQueue DEF TypeOK, ErrorInv
<1>8. CASE Supersede
  BY <1>7, <1>8 DEF Supersede
<1>9. CASE Callback
  BY <1>7, <1>9 DEF Callback
<1>10. CASE UNCHANGED vars
  BY <1>10 DEF vars, ErrorInv
<1>. QED
  BY <1>1, <1>3, <1>4, <1>5, <1>6, <1>8, <1>9, <1>10 DEF Next, NodeStep

(* Both invariants hold in every reachable state.                          *)
THEOREM InvariantsHold == Spec => [](IInv /\ ErrorInv)
<1>1. Init => IInv /\ ErrorInv
  BY InitIInv DEF Init, ErrorInv
<1>2. IInv /\ ErrorInv /\ [Next]_vars => (IInv /\ ErrorInv)'
  BY NextIInv, NextErrorInv
<1>. QED
  BY <1>1, <1>2, PTL DEF Spec


(* Every step of submitExtrinsic is a step of TxOutcome or leaves its     *)
(* state alone: the callback on Finalized is Resolve, on an error status  *)
(* Reject, and on any other status a stutter; the node's steps are the    *)
(* same on both sides.                                                    *)
LEMMA StepRefines ==
  ASSUME CaptureEvents, ReliableEvents,
         IInv, IInv', ErrorInv, [Next]_vars
  PROVE  [Outcome!Next]_Outcome!avars
<1>. USE DEF IInv
<1>1. ASSUME NEW ok \in BOOLEAN, Submit(ok) PROVE Outcome!Submit(ok)
  <2>1. promise = "none" /\ promise' = "pending"
    BY <1>1 DEF Submit
  <2>. QED
    BY <1>1, <2>1 DEF Submit, Outcome!Submit, OutcomeOf, ResultOf
<1>2. ASSUME UNCHANGED <<promise, events>>
      PROVE  OutcomeOf' = OutcomeOf /\ ResultOf' = ResultOf
  BY <1>2 DEF OutcomeOf, ResultOf
<1>3. CASE Retract
  BY <1>2, <1>3 DEF Retract, Outcome!Retract, Outcome!Next
<1>4. CASE Finalize
  BY <1>2, <1>4 DEF Finalize, Outcome!Finalize, Outcome!Next
<1>5. ASSUME NEW k \in ErrorKinds, Error(k) PROVE Outcome!Fail
  BY <1>2, <1>5 DEF Error, Outcome!Fail
<1>6. ASSUME NEW b \in Blocks, NEW e \in EventLists, Include(b, e)
      PROVE  Outcome!Include(b, e)
  BY <1>2, <1>6 DEF Include, Outcome!Include
<1>7. CASE Callback
  <2>. DEFINE s == Head(out)
  <2>1. out \in Seq(Status) /\ out # <<>> /\ promise \in {"pending", "rejected"}
    BY <1>7 DEF Callback, TypeOK, ResolvedInv, IdleInv, Settled
  <2>2. s = out[1] /\ 1 \in 1..Len(out)
    BY <2>1, TailQueue
  <2>3. UNCHANGED <<node, incl, used, evOf>>
    BY <1>7 DEF Callback
  <2>4. CASE promise' = promise
    <3>1. ResultOf' = ResultOf
      BY <2>1, <2>4 DEF ResultOf
    <3>. QED
      BY <2>3, <2>4, <3>1 DEF OutcomeOf, Outcome!avars
  <2>5. CASE promise' # promise /\ s.kind = "Finalized"
    <3>0. promise' = Settle(promise, "resolved")
      BY <1>7, <2>5 DEF Callback, ErrorKinds
    <3>1. promise = "pending" /\ promise' = "resolved"
      BY <3>0, <2>1, <2>5 DEF Settle
    <3>2. node = "final"
      BY <2>1, <2>2, <2>5 DEF QueueInv
    <3>3. events' = evOf[incl]
      BY <2>3, <3>1 DEF ResolvedEventsInv, Reliable
    <3>. QED
      BY <2>3, <3>1, <3>2, <3>3 DEF Outcome!Resolve, Outcome!Next, OutcomeOf,
         ResultOf
  <2>6. CASE promise' # promise /\ s.kind \in ErrorKinds
    <3>0. promise' = Settle(promise, "rejected")
      BY <1>7, <2>6 DEF Callback, ErrorKinds
    <3>1. promise = "pending" /\ promise' = "rejected"
      BY <3>0, <2>1, <2>6 DEF Settle
    <3>2. node = "failed"
      BY <2>1, <2>2, <2>6 DEF ErrorInv
    <3>. QED
      BY <2>3, <3>1, <3>2 DEF Outcome!Reject, Outcome!Next, OutcomeOf, ResultOf
  <2>7. promise' # promise => s.kind = "Finalized" \/ s.kind \in ErrorKinds
    BY <1>7 DEF Callback
  <2>. QED
    BY <2>4, <2>5, <2>6, <2>7
<1>8. CASE Supersede
  BY <1>8 DEF Supersede
<1>9. CASE UNCHANGED vars
  BY <1>9 DEF vars, Outcome!avars, OutcomeOf, ResultOf
<1>. QED
  BY <1>1, <1>3, <1>4, <1>5, <1>6, <1>7, <1>8, <1>9
  DEF Next, NodeStep, Outcome!Next

(* submitExtrinsic implements the safety part of the TransactionOutcome   *)
(* contract (ImplementsTxOutcome without its fairness) whenever InBlock   *)
(* events reach the callback: the promise resolves only on finality,     *)
(* carrying the final block's events, and rejects only once the node     *)
(* gave the transaction up.                                              *)
THEOREM Refinement ==
  ASSUME CaptureEvents, ReliableEvents
  PROVE  Spec => Outcome!SafeSpec
<1>1. Init => Outcome!Init
  BY DEF Init, Outcome!Init, OutcomeOf, ResultOf
<1>2. [](IInv /\ ErrorInv) /\ [][Next]_vars => [][Outcome!Next]_Outcome!avars
  <2>1. (IInv /\ ErrorInv) /\ (IInv /\ ErrorInv)' /\ [Next]_vars
          => [Outcome!Next]_Outcome!avars
    BY StepRefines
  <2>. QED
    BY <2>1, PTL
<1>. QED
  BY <1>1, <1>2, InvariantsHold, PTL DEF Spec, Outcome!SafeSpec

=============================================================================
