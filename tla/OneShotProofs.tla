--------------------------- MODULE OneShotProofs ---------------------------
(***************************************************************************)
(* What holds of OneShot for any number of plans and commands, whatever    *)
(* dies, times out or fails to write: its types, that the ledgers account  *)
(* for every transaction, that verdicts are true; and, where no two        *)
(* execute commands of one plan overlap, that an approval buys one         *)
(* transaction.                                                            *)
(***************************************************************************)
EXTENDS OneShot, WellFoundedInduction, TLAPS

(* Where an execute command is tells what the ledgers hold of it.         *)
Paperwork ==
    \A e \in Executes :
        /\ pc[e] \in {"recorded", "sending", "answer"} => Recorded(e)
        /\ pc[e] \in {"sending", "answer"} => Has(approvals, Spent(PlanOf[e], e))
        /\ pc[e] \in Running => Has(approvals, Noted("approval", PlanOf[e]))
        /\ pc[e] \in {"ready", "building", "recorded", "sending"} => chain[e] = "unsent"

(* While one command of a plan runs no other runs or has sent anything.   *)
Exclusive ==
    ~Overlapping => \A e, f \in Executes :
        e # f /\ PlanOf[e] = PlanOf[f] /\ pc[e] \in Running =>
            pc[f] \notin Running /\ chain[f] = "unsent"

IInv == TypeOK /\ Paperwork /\ LedgersAccount /\ VerdictIsTrue /\ Exclusive

-----------------------------------------------------------------------------
(* What one write does to a ledger: nothing, or a record of R at its end. *)
Wrote(before, after, R) == \E r \in R : after \in {before, Append(before, r)}

LEMMA OneWrite ==
    ASSUME NEW S, NEW before \in Seq(S), NEW after, NEW R,
           R \subseteq S, Wrote(before, after, R)
    PROVE  /\ after \in Seq(S)
           /\ \A x : Has(before, x) => Has(after, x)
           /\ \A x : Has(after, x) => Has(before, x) \/ x \in R
  <1>1. PICK r \in R : after \in {before, Append(before, r)}
    BY DEF Wrote
  <1>2. CASE after = before
    BY <1>2
  <1>3. CASE after = Append(before, r)
    <2>1. r \in S /\ after \in Seq(S) /\ Len(after) = Len(before) + 1
      BY <1>3
    <2>2. /\ DOMAIN before = 1..Len(before) /\ DOMAIN after = 1..(Len(before) + 1)
          /\ after[Len(before) + 1] = r
          /\ \A k \in 1..Len(before) : after[k] = before[k]
      BY <1>3, <2>1
    <2>3. Len(before) \in Nat
      OBVIOUS
    <2> QED
      BY <2>1, <2>2, <2>3 DEF Has
  <1> QED
    BY <1>1, <1>2, <1>3

LEMMA LastWrite ==
    ASSUME NEW S, NEW before \in Seq(S), NEW r \in S
    PROVE  Has(Append(before, r), r)
  <1>1. Len(before) \in Nat /\ Len(before) + 1 \in DOMAIN Append(before, r)
    OBVIOUS
  <1>2. Append(before, r)[Len(before) + 1] = r
    OBVIOUS
  <1> QED
    BY <1>1, <1>2 DEF Has

LEMMA Records ==
    ASSUME OneShotAssumption, NEW e \in Executes, NEW p \in Plans
    PROVE  /\ \A t \in {"request", "approval", "rejected"} : Noted(t, p) \in ApprovalRecord
           /\ Spent(p, e) \in ApprovalRecord
           /\ PlanOf[e] \in Plans
           /\ Submitted(e) \in SubmissionRecord
           /\ \A what \in Landed : Settled(e, what) \in SubmissionRecord
  BY DEF OneShotAssumption, Noted, Spent, Submitted, Settled, ApprovalRecord, SubmissionRecord

-----------------------------------------------------------------------------
(* What each kind of step writes.                                         *)
LEMMA ReviewWrites ==
    ASSUME OneShotAssumption, TypeOK, NEW v \in Reviews, Reviewing(v)
    PROVE  /\ Wrote(approvals, approvals', {Noted("approval", ReviewOf[v]),
                                            Noted("rejected", ReviewOf[v])})
           /\ review' \in [Reviews -> {"ready", "asked", "confirmed", "done"}]
           /\ ReviewFrame
  BY DEF Reviewing, reject, Ask, Confirm, approve, Appended, AppendThrew, Wrote, TypeOK

LEMMA ReconcileWrites ==
    ASSUME OneShotAssumption, TypeOK, NEW r \in Reconciles, Reconciling(r)
    PROVE  /\ UNCHANGED submissions
              \/ \E e \in Executes, verdict \in Landed :
                    /\ DidLand(e, verdict)
                    /\ Wrote(submissions, submissions', {Settled(e, verdict)})
           /\ toSettle' \in [Reconciles -> SUBSET Executes]
           /\ ReconcileFrame
  <1>1. unsettled \subseteq Executes
    BY DEF unsettled
  <1>2. CASE ListUnsettled(r)
    BY <1>1, <1>2 DEF ListUnsettled, Listed, TypeOK
  <1>3. ASSUME NEW e \in Executes, ListOne(r, e) \/ StillUnknown(r, e)
        PROVE  /\ UNCHANGED submissions /\ ReconcileFrame
               /\ toSettle' \in [Reconciles -> SUBSET Executes]
    <2>1. toSettle' \in {[toSettle EXCEPT ![r] = @ \ {e}], [toSettle EXCEPT ![r] = {e}]}
      BY <1>3 DEF ListOne, Listed, StillUnknown
    <2>2. toSettle' \in [Reconciles -> SUBSET Executes]
      <3>1. toSettle \in [Reconciles -> SUBSET Executes] /\ toSettle[r] \ {e} \subseteq Executes
        BY DEF TypeOK
      <3> QED
        BY <2>1, <3>1
    <2>3. CASE ListOne(r, e)
      BY <2>2, <2>3 DEF ListOne, Listed
    <2>4. CASE StillUnknown(r, e)
      BY <2>2, <2>4 DEF StillUnknown, Asking
    <2> QED
      BY <1>3, <2>3, <2>4
  <1>4. ASSUME NEW e \in Executes, settle(r, e) \/ SettleThrew(r, e)
        PROVE  /\ \E verdict \in Landed :
                    /\ DidLand(e, verdict)
                    /\ Wrote(submissions, submissions', {Settled(e, verdict)})
               /\ toSettle' \in [Reconciles -> SUBSET Executes]
               /\ ReconcileFrame
    <2>1. PICK verdict \in Landed :
              /\ DidLand(e, verdict)
              /\ submissions' \in {submissions, Append(submissions, Settled(e, verdict))}
      BY <1>4 DEF settle, SettleThrew, Answered, Appended, AppendThrew
    <2>2. ReconcileFrame
      BY <1>4 DEF settle, SettleThrew, Asking
    <2>3. toSettle' \in {[toSettle EXCEPT ![r] = @ \ {e}], [toSettle EXCEPT ![r] = {}]}
      BY <1>4 DEF settle, SettleThrew, Answered
    <2>4. toSettle' \in [Reconciles -> SUBSET Executes]
      BY <2>3 DEF TypeOK
    <2> QED
      BY <2>1, <2>2, <2>4 DEF Wrote
  <1>5. ASSUME NEW e \in Executes, OutcomeThrew(r, e)
        PROVE  /\ UNCHANGED submissions /\ ReconcileFrame
               /\ toSettle' \in [Reconciles -> SUBSET Executes]
    BY <1>5 DEF OutcomeThrew, Asking, TypeOK
  <1> QED
    BY <1>2, <1>3, <1>4, <1>5 DEF Reconciling

(* An execute command touches its own entries, and writes its own records. *)
Own(e) ==
    /\ \E to \in Running \cup {"done", "dead"} : pc' = [pc EXCEPT ![e] = to]
    /\ chain' \in {chain, [chain EXCEPT ![e] = "inflight"]}
    /\ \/ UNCHANGED report
       \/ \E status \in Status, submitted \in BOOLEAN :
             Says(e, status, submitted) /\ (status = "ok" => chain[e] = "executed")
    /\ UNCHANGED approvals \/ Wrote(approvals, approvals', {Spent(PlanOf[e], e)})
    /\ \/ UNCHANGED submissions
       \/ Wrote(submissions, submissions', {Submitted(e)})
       \/ /\ chain[e] = "executed"
          /\ Wrote(submissions, submissions', {Settled(e, "executed")})
    /\ ExecuteFrame

LEMMA ExecuteWrites ==
    ASSUME NEW e \in Executes, Executing(e)
    PROVE  Own(e)
  <1> USE DEF At, Own, Status, Running, ledgers
  <1>1. CASE Begin(e)
    BY <1>1 DEF Begin
  <1>2. CASE Refuse(e)
    BY <1>2 DEF Refuse
  <1>3. CASE BuildFailed(e)
    BY <1>3 DEF BuildFailed
  <1>4. CASE recordSubmission(e)
    BY <1>4 DEF recordSubmission, Appended, AppendThrew, Wrote
  <1>5. CASE markConsumed(e)
    BY <1>5 DEF markConsumed, Appended, AppendThrew, Wrote
  <1>6. CASE Send(e)
    BY <1>6 DEF Send
  <1>7. CASE RequestFailed(e)
    BY <1>7 DEF RequestFailed
  <1>8. CASE Confirmed(e)
    BY <1>8 DEF Confirmed, Appended, AppendThrew, Wrote
  <1>9. CASE Unconfirmed(e) \/ Aborted(e) \/ Timeout(e)
    BY <1>9 DEF Unconfirmed, Aborted, Timeout
  <1>10. CASE Die(e)
    BY <1>10 DEF Die
  <1> QED
    BY <1>1, <1>2, <1>3, <1>4, <1>5, <1>6, <1>7, <1>8, <1>9, <1>10 DEF Executing

-----------------------------------------------------------------------------
(* A step leaves a ledger alone, or writes one record of its schema.      *)
LEMMA StepWrites ==
    ASSUME OneShotAssumption, TypeOK, [Next]_vars
    PROVE  /\ \/ UNCHANGED approvals
              \/ \E r \in ApprovalRecord : Wrote(approvals, approvals', {r})
           /\ \/ UNCHANGED submissions
              \/ \E r \in SubmissionRecord : Wrote(submissions, submissions', {r})
  <1>1. ASSUME NEW v \in Reviews, Reviewing(v)
        PROVE  /\ UNCHANGED submissions
               /\ \E r \in ApprovalRecord : Wrote(approvals, approvals', {r})
    <2>1. \A t \in {"approval", "rejected"} : Noted(t, ReviewOf[v]) \in ApprovalRecord
      BY DEF OneShotAssumption, Noted, ApprovalRecord
    <2> QED
      BY <1>1, <2>1, ReviewWrites DEF Wrote, ReviewFrame
  <1>2. ASSUME NEW e \in Executes, Executing(e)
        PROVE  /\ UNCHANGED approvals
                  \/ \E r \in ApprovalRecord : Wrote(approvals, approvals', {r})
               /\ UNCHANGED submissions
                  \/ \E r \in SubmissionRecord : Wrote(submissions, submissions', {r})
    <2>1. PlanOf[e] \in Plans /\ "executed" \in Landed
      BY DEF OneShotAssumption, Landed
    <2>2. /\ Spent(PlanOf[e], e) \in ApprovalRecord
          /\ Submitted(e) \in SubmissionRecord
          /\ Settled(e, "executed") \in SubmissionRecord
      BY <2>1, Records
    <2>3. Own(e)
      BY <1>2, ExecuteWrites
    <2> QED
      BY <2>2, <2>3 DEF Own
  <1>3. ASSUME NEW r \in Reconciles, Reconciling(r)
        PROVE  /\ UNCHANGED approvals
               /\ UNCHANGED submissions
                  \/ \E x \in SubmissionRecord : Wrote(submissions, submissions', {x})
    <2>1. \A e \in Executes, verdict \in Landed : Settled(e, verdict) \in SubmissionRecord
      BY DEF Settled, SubmissionRecord
    <2> QED
      BY <1>3, <2>1, ReconcileWrites DEF ReconcileFrame
  <1>4. ASSUME World
        PROVE  /\ UNCHANGED submissions
               /\ UNCHANGED approvals
                  \/ \E r \in ApprovalRecord : Wrote(approvals, approvals', {r})
    <2>1. \A p \in Plans : Noted("request", p) \in ApprovalRecord
      BY DEF Noted, ApprovalRecord
    <2> QED
      BY <1>4, <2>1 DEF World, requestApproval, Expire, Elapse, Include, Bury, Appended, Wrote, ledgers
  <1> QED
    BY <1>1, <1>2, <1>3, <1>4 DEF Next, vars, ledgers

(* The ledgers only grow, and every variable keeps its type.              *)
LEMMA Grows ==
    ASSUME OneShotAssumption, TypeOK, [Next]_vars
    PROVE  /\ approvals' \in Seq(ApprovalRecord) /\ submissions' \in Seq(SubmissionRecord)
           /\ \A x : Has(approvals, x) => Has(approvals', x)
           /\ \A x : Has(submissions, x) => Has(submissions', x)
  <1>0. approvals \in Seq(ApprovalRecord) /\ submissions \in Seq(SubmissionRecord)
    BY DEF TypeOK
  <1>1. ASSUME UNCHANGED approvals
               \/ \E r \in ApprovalRecord : Wrote(approvals, approvals', {r})
        PROVE  approvals' \in Seq(ApprovalRecord) /\ \A x : Has(approvals, x) => Has(approvals', x)
    <2>1. CASE UNCHANGED approvals
      BY <1>0, <2>1
    <2>2. ASSUME NEW r \in ApprovalRecord, Wrote(approvals, approvals', {r})
          PROVE  approvals' \in Seq(ApprovalRecord) /\ \A x : Has(approvals, x) => Has(approvals', x)
      BY <1>0, <2>2, OneWrite
    <2> QED
      BY <1>1, <2>1, <2>2
  <1>2. ASSUME UNCHANGED submissions
               \/ \E r \in SubmissionRecord : Wrote(submissions, submissions', {r})
        PROVE  /\ submissions' \in Seq(SubmissionRecord)
               /\ \A x : Has(submissions, x) => Has(submissions', x)
    <2>1. CASE UNCHANGED submissions
      BY <1>0, <2>1
    <2>2. ASSUME NEW r \in SubmissionRecord, Wrote(submissions, submissions', {r})
          PROVE  /\ submissions' \in Seq(SubmissionRecord)
                 /\ \A x : Has(submissions, x) => Has(submissions', x)
      BY <1>0, <2>2, OneWrite
    <2> QED
      BY <1>2, <2>1, <2>2
  <1> QED
    BY <1>1, <1>2, StepWrites

LEMMA TypeStep ==
    ASSUME OneShotAssumption, TypeOK, [Next]_vars
    PROVE  TypeOK'
  <1>0. approvals' \in Seq(ApprovalRecord) /\ submissions' \in Seq(SubmissionRecord)
    BY Grows
  <1>1. ASSUME NEW v \in Reviews, Reviewing(v) PROVE TypeOK'
    BY <1>0, <1>1, ReviewWrites DEF ReviewFrame, TypeOK
  <1>2. ASSUME NEW e \in Executes, Executing(e) PROVE TypeOK'
    <2>1. Own(e)
      BY <1>2, ExecuteWrites
    <2>2. pc' \in [Executes -> Running \cup {"ready", "done", "dead"}]
      BY <2>1 DEF Own, TypeOK
    <2>3. chain' \in [Executes -> TxStatus]
      BY <2>1 DEF Own, TypeOK, TxStatus
    <2>4. report' \in [Executes -> Report \cup {None}]
      <3>1. CASE UNCHANGED report
        BY <3>1 DEF TypeOK
      <3>2. ASSUME NEW status \in Status, NEW submitted \in BOOLEAN, Says(e, status, submitted)
            PROVE  report' \in [Executes -> Report \cup {None}]
        <4>1. [status |-> status, submitted |-> submitted] \in Report
          BY DEF Report
        <4> QED
          BY <3>2, <4>1 DEF Says, TypeOK
      <3> QED
        BY <2>1, <3>1, <3>2 DEF Own
    <2> QED
      BY <1>0, <2>1, <2>2, <2>3, <2>4 DEF Own, ExecuteFrame, TypeOK
  <1>3. ASSUME NEW r \in Reconciles, Reconciling(r) PROVE TypeOK'
    BY <1>0, <1>3, ReconcileWrites DEF ReconcileFrame, TypeOK
  <1>4. ASSUME World PROVE TypeOK'
    BY <1>0, <1>4 DEF World, requestApproval, Expire, Elapse, Include, Bury, TypeOK, TxStatus, ledgers
  <1>5. CASE UNCHANGED vars
    BY <1>0, <1>5 DEF vars, ledgers, TypeOK
  <1> QED
    BY <1>1, <1>2, <1>3, <1>4, <1>5 DEF Next

-----------------------------------------------------------------------------
(* Only Send starts a transaction, and what the chain decided stays.      *)
LEMMA ChainMoves ==
    ASSUME OneShotAssumption, TypeOK, [Next]_vars, NEW f \in Executes
    PROVE  /\ chain'[f] # "unsent" => chain[f] # "unsent" \/ Send(f)
           /\ Paperwork /\ chain[f] # "unsent" =>
                  /\ chain'[f] # "unsent"
                  /\ chain[f] \in {"executed", "aborted"} => chain'[f] = chain[f]
  <1>1. CASE UNCHANGED chain
    BY <1>1
  <1>2. ASSUME NEW e \in Executes, Executing(e), ~Send(e) PROVE UNCHANGED chain
    BY <1>2 DEF Executing, Begin, Refuse, BuildFailed, recordSubmission, markConsumed,
       RequestFailed, Confirmed, Unconfirmed, Aborted, Timeout, Die
  <1>3. ASSUME NEW e \in Executes, Send(e)
        PROVE  /\ chain'[f] = IF f = e THEN "inflight" ELSE chain[f]
               /\ Paperwork => chain[e] = "unsent"
    BY <1>3 DEF Send, At, TypeOK, Paperwork
  <1>4. ASSUME NEW e \in Executes, Include(e)
        PROVE  /\ chain[e] = "inflight"
               /\ f # e => chain'[f] = chain[f]
               /\ chain'[e] # "unsent"
    BY <1>4 DEF Include, TypeOK
  <1>5. \A v \in Reviews : Reviewing(v) => UNCHANGED chain
    BY ReviewWrites DEF ReviewFrame
  <1>6. \A r \in Reconciles : Reconciling(r) => UNCHANGED chain
    BY ReconcileWrites DEF ReconcileFrame
  <1>7. World => UNCHANGED chain \/ \E e \in Executes : Include(e)
    BY DEF World, requestApproval, Expire, Elapse, Bury
  <1>8. CASE \E e \in Executes : Send(e)
    BY <1>3, <1>8
  <1>9. CASE \E e \in Executes : Include(e)
    BY <1>4, <1>9
  <1> QED
    BY <1>1, <1>2, <1>5, <1>6, <1>7, <1>8, <1>9 DEF Next, vars

(* A command's steps, as far as its paperwork goes.                       *)
LEMMA PaperStep ==
    ASSUME OneShotAssumption, TypeOK, Paperwork, LedgersAccount, [Next]_vars
    PROVE  Paperwork'
  <1> SUFFICES ASSUME NEW e \in Executes
               PROVE  /\ pc'[e] \in {"recorded", "sending", "answer"} =>
                            Has(submissions', Submitted(e))
                      /\ pc'[e] \in {"sending", "answer"} =>
                            Has(approvals', Spent(PlanOf[e], e))
                      /\ pc'[e] \in Running => Has(approvals', Noted("approval", PlanOf[e]))
                      /\ pc'[e] \in {"ready", "building", "recorded", "sending"} =>
                            chain'[e] = "unsent"
    BY DEF Paperwork, Recorded, Has
  <1>0. /\ \A x : Has(approvals, x) => Has(approvals', x)
        /\ \A x : Has(submissions, x) => Has(submissions', x)
        /\ approvals \in Seq(ApprovalRecord) /\ submissions \in Seq(SubmissionRecord)
        /\ PlanOf[e] \in Plans
    BY Grows DEF TypeOK, OneShotAssumption
  <1>1. CASE /\ pc'[e] = pc[e] \/ pc'[e] \in {"done", "dead"}
             /\ chain'[e] = "unsent" \/ chain[e] # "unsent"
    BY <1>0, <1>1 DEF Paperwork, Recorded, Running
  <1>2. CASE ~Executing(e)
    <2>1. pc'[e] = pc[e]
      <3>1. \A f \in Executes : Executing(f) => Own(f)
        BY ExecuteWrites
      <3>2. \A f \in Executes \ {e} : Own(f) => pc'[e] = pc[e]
        BY DEF Own, TypeOK
      <3>3. \A v \in Reviews : Reviewing(v) => UNCHANGED pc
        BY ReviewWrites DEF ReviewFrame
      <3>4. \A r \in Reconciles : Reconciling(r) => UNCHANGED pc
        BY ReconcileWrites DEF ReconcileFrame
      <3> QED
        BY <1>2, <3>1, <3>2, <3>3, <3>4
           DEF Next, World, requestApproval, Expire, Elapse, Include, Bury, vars
    <2>2. chain'[e] = "unsent" \/ chain[e] # "unsent"
      BY <1>2, ChainMoves DEF Executing
    <2> QED
      BY <1>1, <2>1, <2>2
  <1>3. CASE Begin(e)
    <2>1. Has(approvals, Noted("approval", PlanOf[e]))
      BY <1>3 DEF Begin, statusOf
    <2>2. pc[e] = "ready" /\ pc'[e] = "building" /\ UNCHANGED chain
      BY <1>3 DEF Begin, At, TypeOK
    <2> QED
      BY <1>0, <2>1, <2>2 DEF Paperwork
  <1>4. CASE recordSubmission(e)
    <2>1. CASE pc'[e] = "done"
      BY <1>0, <1>4, <2>1 DEF recordSubmission, Running
    <2>2. CASE pc'[e] # "done"
      <3>1. /\ submissions' = Append(submissions, Submitted(e))
            /\ pc[e] = "building" /\ pc'[e] = "recorded" /\ UNCHANGED chain
        BY <1>4, <2>2 DEF recordSubmission, Appended, At, TypeOK
      <3>2. Has(submissions', Submitted(e))
        BY <1>0, <3>1, LastWrite, Records
      <3> QED
        BY <1>0, <3>1, <3>2 DEF Paperwork, Running
    <2> QED
      BY <2>1, <2>2
  <1>5. CASE markConsumed(e)
    <2>1. CASE pc'[e] = "done"
      BY <1>0, <1>5, <2>1 DEF markConsumed, Running
    <2>2. CASE pc'[e] # "done"
      <3>1. /\ approvals' = Append(approvals, Spent(PlanOf[e], e))
            /\ pc[e] = "recorded" /\ pc'[e] = "sending" /\ UNCHANGED chain
        BY <1>5, <2>2 DEF markConsumed, Appended, At, TypeOK
      <3>2. Has(approvals', Spent(PlanOf[e], e))
        BY <1>0, <3>1, LastWrite, Records
      <3> QED
        BY <1>0, <3>1, <3>2 DEF Paperwork, Recorded, Running
    <2> QED
      BY <2>1, <2>2
  <1>6. CASE Send(e)
    <2>1. pc[e] = "sending" /\ pc'[e] = "answer"
      BY <1>6 DEF Send, At, TypeOK
    <2> QED
      BY <1>0, <2>1 DEF Paperwork, Recorded, Running
  <1>7. CASE \/ Refuse(e) \/ BuildFailed(e) \/ RequestFailed(e) \/ Confirmed(e)
             \/ Unconfirmed(e) \/ Aborted(e) \/ Timeout(e) \/ Die(e)
    <2>1. pc'[e] \in {"done", "dead"} /\ UNCHANGED chain
      BY <1>7 DEF Refuse, BuildFailed, RequestFailed, Confirmed, Unconfirmed, Aborted,
         Timeout, Die, At, TypeOK
    <2> QED
      BY <1>1, <2>1
  <1> QED
    BY <1>2, <1>3, <1>4, <1>5, <1>6, <1>7 DEF Executing

LEMMA AccountStep ==
    ASSUME OneShotAssumption, TypeOK, Paperwork, LedgersAccount, [Next]_vars
    PROVE  LedgersAccount'
  <1> SUFFICES ASSUME NEW e \in Executes, chain'[e] # "unsent"
               PROVE  /\ Has(submissions', Submitted(e))
                      /\ Has(approvals', Spent(PlanOf[e], e))
    BY DEF LedgersAccount, Recorded, Has
  <1>1. chain[e] # "unsent" \/ Send(e)
    BY ChainMoves
  <1>2. Send(e) => pc[e] = "sending"
    BY DEF Send, At
  <1>3. Has(submissions, Submitted(e)) /\ Has(approvals, Spent(PlanOf[e], e))
    BY <1>1, <1>2 DEF LedgersAccount, Paperwork, Recorded
  <1> QED
    BY <1>3, Grows

(* A verdict that was not there before is what the chain says.            *)
LEMMA NewVerdicts ==
    ASSUME OneShotAssumption, TypeOK, [Next]_vars,
           NEW e \in Executes, NEW what \in {"executed", "aborted"},
           Has(submissions', Settled(e, what)), ~Has(submissions, Settled(e, what))
    PROVE  chain[e] = what
  <1>0. submissions \in Seq(SubmissionRecord)
    BY DEF TypeOK
  <1>1. ASSUME NEW r, r \in SubmissionRecord, Wrote(submissions, submissions', {r})
        PROVE  r = Settled(e, what)
    BY <1>0, <1>1, OneWrite
  <1>2. submissions' # submissions
    OBVIOUS
  <1>3. ASSUME NEW f \in Executes, Executing(f) PROVE chain[e] = what
    <2>1. \/ Wrote(submissions, submissions', {Submitted(f)})
          \/ /\ chain[f] = "executed"
             /\ Wrote(submissions, submissions', {Settled(f, "executed")})
      BY <1>2, <1>3, ExecuteWrites DEF Own
    <2>2. Submitted(f) \in SubmissionRecord /\ Settled(f, "executed") \in SubmissionRecord
      BY DEF Submitted, Settled, SubmissionRecord, Landed
    <2>3. Submitted(f) # Settled(e, what)
      BY DEF Submitted, Settled
    <2>4. Settled(f, "executed") = Settled(e, what) => f = e /\ what = "executed"
      BY DEF Settled
    <2> QED
      BY <1>1, <2>1, <2>2, <2>3, <2>4
  <1>4. ASSUME NEW r \in Reconciles, Reconciling(r) PROVE chain[e] = what
    <2>1. PICK f \in Executes, verdict \in Landed :
              DidLand(f, verdict) /\ Wrote(submissions, submissions', {Settled(f, verdict)})
      BY <1>2, <1>4, ReconcileWrites
    <2>2. Settled(f, verdict) \in SubmissionRecord
      BY DEF Settled, SubmissionRecord
    <2>3. Settled(f, verdict) = Settled(e, what)
      BY <1>1, <2>1, <2>2
    <2>4. f = e /\ verdict = what
      BY <2>3 DEF Settled
    <2> QED
      BY <2>1, <2>4 DEF DidLand
  <1>5. \A v \in Reviews : ~Reviewing(v)
    BY <1>2, ReviewWrites DEF ReviewFrame
  <1>6. ~World
    BY <1>2 DEF World, requestApproval, Expire, Elapse, Include, Bury, ledgers
  <1> QED
    BY <1>2, <1>3, <1>4, <1>5, <1>6 DEF Next, vars, ledgers

LEMMA VerdictStep ==
    ASSUME OneShotAssumption, TypeOK, Paperwork, VerdictIsTrue, [Next]_vars
    PROVE  VerdictIsTrue'
  <1> SUFFICES ASSUME NEW e \in Executes
               PROVE  /\ Has(submissions', Settled(e, "executed")) => chain'[e] = "executed"
                      /\ Has(submissions', Settled(e, "aborted")) => chain'[e] = "aborted"
                      /\ report'[e] # None /\ report'[e].status = "ok" =>
                            chain'[e] = "executed"
    BY DEF VerdictIsTrue, Has
  <1>1. \A what \in {"executed", "aborted"} : chain[e] = what => chain'[e] = what
    BY ChainMoves
  <1>2. \A what \in {"executed", "aborted"} :
            Has(submissions', Settled(e, what)) => chain[e] = what
    <2>1. \A what \in {"executed", "aborted"} :
              Has(submissions, Settled(e, what)) => chain[e] = what
      BY DEF VerdictIsTrue
    <2> QED
      BY <2>1, NewVerdicts
  <1>3. report'[e] # None /\ report'[e].status = "ok" => chain[e] = "executed"
    <2>1. CASE report'[e] = report[e]
      BY <2>1 DEF VerdictIsTrue
    <2>2. ASSUME NEW f \in Executes, Executing(f), report'[e] # report[e],
                 report'[e].status = "ok"
          PROVE  chain[e] = "executed"
      <3>1. PICK status \in Status, submitted \in BOOLEAN :
                Says(f, status, submitted) /\ (status = "ok" => chain[f] = "executed")
        BY <2>2, ExecuteWrites DEF Own
      <3>2. f = e /\ report'[e] = [status |-> status, submitted |-> submitted]
        BY <2>2, <3>1 DEF Says, TypeOK
      <3> QED
        BY <2>2, <3>1, <3>2
    <2>3. report' # report => \E f \in Executes : Executing(f)
      <3>1. \A v \in Reviews : Reviewing(v) => UNCHANGED report
        BY ReviewWrites DEF ReviewFrame
      <3>2. \A r \in Reconciles : Reconciling(r) => UNCHANGED report
        BY ReconcileWrites DEF ReconcileFrame
      <3> QED
        BY <3>1, <3>2 DEF Next, World, requestApproval, Expire, Elapse, Include, Bury, vars
    <2> QED
      BY <2>1, <2>2, <2>3
  <1> QED
    BY <1>1, <1>2, <1>3

(* Beginning is the only way in, and it finds the plan unspent and idle.  *)
LEMMA ExclusiveStep ==
    ASSUME OneShotAssumption, TypeOK, Paperwork, LedgersAccount, Exclusive, [Next]_vars
    PROVE  Exclusive'
  <1> SUFFICES ASSUME ~Overlapping, NEW e \in Executes, NEW f \in Executes, e # f,
                      PlanOf[e] = PlanOf[f], pc'[e] \in Running
               PROVE  pc'[f] \notin Running /\ chain'[f] = "unsent"
    BY DEF Exclusive
  <1>1. ASSUME NEW g \in Executes, pc'[g] \in Running, pc[g] \notin Running
        PROVE  Begin(g)
    <2>1. pc' # pc /\ ~UNCHANGED vars
      BY <1>1 DEF vars
    <2>2. PICK h \in Executes : Executing(h)
      <3>1. \A v \in Reviews : ~Reviewing(v)
        BY <2>1, ReviewWrites DEF ReviewFrame
      <3>2. \A r \in Reconciles : ~Reconciling(r)
        BY <2>1, ReconcileWrites DEF ReconcileFrame
      <3> QED
        BY <2>1, <3>1, <3>2 DEF Next, World, requestApproval, Expire, Elapse, Include, Bury
    <2>3. h = g
      <3>1. \E to \in Running \cup {"done", "dead"} : pc' = [pc EXCEPT ![h] = to]
        BY <2>2, ExecuteWrites DEF Own
      <3>2. h # g => pc'[g] = pc[g]
        BY <3>1 DEF TypeOK
      <3> QED
        BY <1>1, <3>2
    <2> QED
      BY <1>1, <2>2, <2>3 DEF Executing, Refuse, BuildFailed, recordSubmission, markConsumed,
         Send, RequestFailed, Confirmed, Unconfirmed, Aborted, Timeout, Die, At, Running, TypeOK
  <1>2. ASSUME NEW g \in Executes, NEW h \in Executes, g # h, PlanOf[g] = PlanOf[h], Begin(g)
        PROVE  pc[h] \notin Running /\ chain[h] = "unsent"
    <2>1. pc[h] \notin Running /\ ~Consumed(PlanOf[g])
      BY <1>2 DEF Begin, AloneOnPlan, statusOf
    <2>2. Has(approvals, Spent(PlanOf[h], h)) => Consumed(PlanOf[g])
      BY <1>2 DEF Has, Spent, Consumed
    <2> QED
      BY <2>1, <2>2 DEF LedgersAccount
  <1>3. pc[e] \in Running \/ Begin(e)
    BY <1>1
  <1>4. pc[f] \notin Running /\ chain[f] = "unsent"
    BY <1>2, <1>3 DEF Exclusive
  <1>5. ~Begin(f)
    <2>1. CASE pc[e] \in Running
      BY <1>2, <2>1
    <2>2. CASE Begin(e)
      <3>1. pc'[f] = pc[f]
        BY <2>2 DEF Begin, At, TypeOK
      <3>2. Begin(f) => pc[f] = "ready" /\ pc'[f] = "building"
        BY DEF Begin, At, TypeOK
      <3> QED
        BY <3>1, <3>2
    <2> QED
      BY <1>3, <2>1, <2>2
  <1>6. pc'[f] \notin Running
    BY <1>1, <1>4, <1>5
  <1>7. ~Send(f)
    BY <1>4 DEF Send, At, Running
  <1> QED
    BY <1>4, <1>6, <1>7, ChainMoves

-----------------------------------------------------------------------------
LEMMA Initially ==
    ASSUME OneShotAssumption, Init
    PROVE  IInv
  <1>1. TypeOK
    BY DEF Init, TypeOK, TxStatus, Running
  <1>2. \A x : ~Has(submissions, x)
    BY DEF Init, Has
  <1> QED
    BY <1>1, <1>2
       DEF Init, IInv, Paperwork, LedgersAccount, VerdictIsTrue, Exclusive, Running

LEMMA Invariance == Spec => []IInv
  <1>1. Init => IInv
    BY Initially, OneShotAssumption
  <1>2. IInv /\ [Next]_vars => IInv'
    BY TypeStep, PaperStep, AccountStep, VerdictStep, ExclusiveStep, OneShotAssumption DEF IInv
  <1> QED
    BY <1>1, <1>2, PTL DEF Spec

(* Every variable keeps its type, through every fault.                    *)
THEOREM TypesHold == Spec => []TypeOK
  <1>1. IInv => TypeOK
    BY DEF IInv
  <1> QED
    BY <1>1, Invariance, PTL

(* Whatever left the process can be asked about, and its plan reads as    *)
(* spent: for any number of commands, overlapping or not, whichever die or *)
(* time out and whichever appends throw.                                  *)
THEOREM EverySendIsOnRecord == Spec => []LedgersAccount
  <1>1. IInv => LedgersAccount
    BY DEF IInv
  <1> QED
    BY <1>1, Invariance, PTL

(* Nothing is settled as executed or aborted, or reported as a success,   *)
(* that the chain did not decide so.                                      *)
THEOREM VerdictsAreTrue == Spec => []VerdictIsTrue
  <1>1. IInv => VerdictIsTrue
    BY DEF IInv
  <1> QED
    BY <1>1, Invariance, PTL

-----------------------------------------------------------------------------
(* Which verdict counts: a set of naturals has a least element, and only  *)
(* one, so CHOOSE has no choice.                                          *)
LEMMA Least ==
    ASSUME NEW T, T \subseteq Nat, T # {}
    PROVE  \E k \in T : \A m \in T : k <= m
  <1>1. PICK k \in T : \A m \in T : <<m, k>> \notin OpToRel(<, Nat)
    BY WFMin, NatLessThanWellFounded, Zenon
  <1>2. \A m \in T : ~(m < k)
    BY <1>1, Zenon DEF OpToRel
  <1> QED
    BY <1>2

LEMMA FirstOne ==
    ASSUME NEW T, T \subseteq Nat, NEW k \in T, \A m \in T : k <= m
    PROVE  k = CHOOSE j \in T : \A m \in T : j <= m
  <1>1. \A j \in T : (\A m \in T : j <= m) => j = k
    <2> TAKE j \in T
    <2> HAVE \A m \in T : j <= m
    <2>1. j \in Nat /\ k \in Nat /\ j <= k /\ k <= j
      OBVIOUS
    <2> QED
      BY <2>1
  <1> QED
    BY <1>1, Zenon

(* A write goes behind every verdict that is there, so the first one of a *)
(* submission is still the first.                                         *)
LEMMA FirstStays ==
    ASSUME TypeOK, NEW e \in Executes, VerdictsOn(e) # {},
           \/ UNCHANGED submissions
           \/ \E r \in SubmissionRecord : Wrote(submissions, submissions', {r})
    PROVE  settlement(e)' = settlement(e)
  <1>1. PICK k \in VerdictsOn(e) : \A m \in VerdictsOn(e) : k <= m
    <2>1. VerdictsOn(e) \subseteq Nat
      BY DEF VerdictsOn, TypeOK
    <2> QED
      BY <2>1, Least
  <1> DEFINE n == Len(submissions)
  <1>2. /\ n \in Nat /\ DOMAIN submissions = 1..n
        /\ DOMAIN submissions' \in {1..n, 1..(n + 1)}
        /\ \A m \in 1..n : submissions'[m] = submissions[m]
    <2>1. submissions \in Seq(SubmissionRecord)
      BY DEF TypeOK
    <2>2. CASE submissions' = submissions
      BY <2>1, <2>2
    <2>3. ASSUME NEW r \in SubmissionRecord, submissions' = Append(submissions, r)
          PROVE  <1>2!:
      BY <2>1, <2>3
    <2> QED
      BY <2>2, <2>3 DEF Wrote
  <1>3. k \in 1..n /\ VerdictsOn(e) \subseteq Nat /\ VerdictsOn(e)' \subseteq Nat
    BY <1>2 DEF VerdictsOn
  <1>4. k \in VerdictsOn(e)'
    BY <1>2, <1>3 DEF VerdictsOn
  <1>5. \A m \in VerdictsOn(e)' : k <= m
    <2> TAKE m \in VerdictsOn(e)'
    <2>1. CASE m \in 1..n
      <3>1. m \in VerdictsOn(e)
        BY <1>2, <2>1 DEF VerdictsOn
      <3> QED
        BY <1>1, <3>1
    <2>2. CASE m = n + 1
      BY <1>2, <1>3, <2>2
    <2>3. m \in 1..(n + 1)
      BY <1>2 DEF VerdictsOn
    <2> QED
      BY <1>2, <2>1, <2>2, <2>3
  <1>6. settlement(e) = submissions[k].landed
    BY <1>1, <1>3, FirstOne DEF settlement
  <1>7. settlement(e)' = submissions'[k].landed
    <2>1. k = CHOOSE j \in VerdictsOn(e)' : \A m \in VerdictsOn(e)' : j <= m
      BY <1>3, <1>4, <1>5, FirstOne
    <2> QED
      BY <1>4, <2>1 DEF settlement
  <1> QED
    BY <1>2, <1>3, <1>6, <1>7

(* No command, and no pair of them, overrules a verdict that readers were *)
(* given: whatever a later execute or reconcile appends.                  *)
THEOREM FirstVerdictStands == Spec => VerdictStands
  <1>1. IInv /\ [Next]_vars =>
            [\A e \in Executes : settlement(e) # "none" => settlement(e)' = settlement(e)]_vars
    <2> SUFFICES ASSUME IInv, [Next]_vars, NEW e \in Executes, settlement(e) # "none"
                 PROVE  settlement(e)' = settlement(e)
      OBVIOUS
    <2>1. VerdictsOn(e) # {}
      BY DEF settlement
    <2> QED
      BY <2>1, StepWrites, FirstStays, OneShotAssumption DEF IInv
  <1> QED
    BY <1>1, Invariance, PTL DEF Spec, VerdictStands

-----------------------------------------------------------------------------
(* The one-shot path implements OnceOnly.                                 *)
ApprovedPlans == {p \in Plans : Has(approvals, Noted("approval", p))}

TxsOf == [p \in Plans |-> SentTxs(p)]

LEMMA OnceInitially ==
    ASSUME Init PROVE Once!Init
  <1>1. \A x : ~Has(approvals, x)
    BY DEF Init, Has
  <1> QED
    BY <1>1 DEF Init, Once!Init, SentTxs

(* A step that sends nothing gives no plan a transaction.                 *)
LEMMA SameTxs ==
    ASSUME OneShotAssumption, TypeOK, Paperwork, [Next]_vars, \A e \in Executes : ~Send(e)
    PROVE  UNCHANGED TxsOf
  <1>1. \A e \in Executes : chain'[e] # "unsent" <=> chain[e] # "unsent"
    BY ChainMoves
  <1> QED
    BY <1>1 DEF TxsOf, SentTxs

LEMMA SendIsSubmit ==
    ASSUME OneShotAssumption, ~Overlapping, IInv, NEW e \in Executes, Send(e)
    PROVE  Once!Submit(PlanOf[e], e)
  <1>1. /\ pc[e] = "sending" /\ UNCHANGED approvals /\ PlanOf[e] \in Plans
        /\ chain' = [chain EXCEPT ![e] = "inflight"]
    BY DEF Send, At, ledgers, OneShotAssumption
  <1>2. chain[e] = "unsent" /\ PlanOf[e] \in ApprovedPlans
    BY <1>1 DEF IInv, Paperwork, ApprovedPlans, Running
  <1>3. SentTxs(PlanOf[e]) = {}
    BY <1>1, <1>2 DEF IInv, Exclusive, SentTxs, Running
  <1>4. \A p \in Plans : (SentTxs(p))' = IF p = PlanOf[e] THEN {e} ELSE SentTxs(p)
    <2>1. chain'[e] = "inflight" /\ \A f \in Executes \ {e} : chain'[f] = chain[f]
      BY <1>1 DEF IInv, TypeOK
    <2>2. \A p \in Plans : (SentTxs(p))' = {f \in Executes : PlanOf[f] = p /\ chain'[f] # "unsent"}
      BY DEF SentTxs
    <2> QED
      BY <1>2, <1>3, <2>1, <2>2 DEF SentTxs
  <1>5. TxsOf' = [TxsOf EXCEPT ![PlanOf[e]] = {e}]
    BY <1>1, <1>4 DEF TxsOf
  <1>6. \A p \in Plans : e \notin TxsOf[p]
    BY <1>2 DEF TxsOf, SentTxs
  <1>7. UNCHANGED ApprovedPlans
    BY <1>1 DEF ApprovedPlans, Has
  <1> QED
    BY <1>1, <1>2, <1>3, <1>5, <1>6, <1>7 DEF Once!Submit, TxsOf, ApprovedPlans

LEMMA OnceStep ==
    ASSUME OneShotAssumption, ~Overlapping, IInv, [Next]_vars
    PROVE  [Once!Next]_<<ApprovedPlans, TxsOf>>
  <1>1. CASE \E e \in Executes : Send(e)
    <2>1. \A e \in Executes : PlanOf[e] \in Plans
      BY DEF OneShotAssumption
    <2> QED
      BY <1>1, <2>1, SendIsSubmit DEF Once!Next
  <1>2. CASE \A e \in Executes : ~Send(e)
    <2>1. UNCHANGED TxsOf
      BY <1>2, SameTxs DEF IInv
    <2>s. PICK S : S = ApprovedPlans' \ ApprovedPlans
      OBVIOUS
    <2>2. ApprovedPlans' = {p \in Plans : Has(approvals', Noted("approval", p))}
      BY DEF ApprovedPlans, Has
    <2>3. ApprovedPlans \subseteq ApprovedPlans'
      BY <2>2, Grows DEF IInv, ApprovedPlans
    <2>4. /\ S \in SUBSET Plans /\ S \subseteq Plans \ ApprovedPlans
          /\ ApprovedPlans' = ApprovedPlans \cup S
      BY <2>s, <2>2, <2>3
    <2> QED
      BY <2>1, <2>4 DEF Once!Next, Once!Accept, TxsOf, ApprovedPlans
  <1> QED
    BY <1>1, <1>2

(* "One approval buys one transaction": for any number of plans, reviews,  *)
(* executes and reconciles, and any faults, the one-shot path implements   *)
(* OnceOnly, as long as no two executes of one plan run at once.          *)
THEOREM OneApprovalBuysOne ==
    ASSUME ~Overlapping
    PROVE  Spec => OneApprovalOneTransaction
  <1>1. Init => Once!Init
    BY OnceInitially
  <1>2. IInv /\ [Next]_vars =>
            [Once!Next]_<<{p \in Plans : Has(approvals, Noted("approval", p))},
                         [p \in Plans |-> SentTxs(p)]>>
    BY OnceStep, OneShotAssumption DEF TxsOf, ApprovedPlans
  <1> QED
    BY <1>1, <1>2, Invariance, PTL DEF Spec, OneApprovalOneTransaction, Once!Spec
=============================================================================
