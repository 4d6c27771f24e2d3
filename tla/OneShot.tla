------------------------------ MODULE OneShot ------------------------------
(***************************************************************************)
(* The one-shot path: `preview` writes a plan down, a person approves it,  *)
(* `execute` sends it once, `reconcile` settles what nobody saw the end    *)
(* of.  Each is a process of its own; they meet only in two append-only    *)
(* ledgers, and any of them may run beside any other, or die.              *)
(*                                                                         *)
(* One action is one append, or one stretch of code between two of them.   *)
(* Source: src/src/agent/{approvals,submissions,ledger}.ts and             *)
(* src/scripts/agent/{approve,execute,reconcile}.ts.                       *)
(*                                                                         *)
(* Abstractions: an `execute` command sends at most one transaction, so    *)
(* its name stands for its submission id and its digest too; instants are  *)
(* abstracted to "has this deadline passed".                               *)
(***************************************************************************)
EXTENDS Naturals, Sequences, FiniteSets

CONSTANTS
    Plans,         \* approval ids
    Executes,      \* `execute` commands, and the submissions they record
    PlanOf,        \* execute command -> the plan it was given
    Reviews,       \* `approve` commands
    ReviewOf,      \* approve command -> the plan it was given
    Reconciles,    \* `reconcile` commands that may run side by side
    None,          \* "undefined"
    MaxSettled,    \* bound on verdicts when one more is asked for by id
    Overlapping,   \* may two execute commands of one plan run at once?
    AppendFaults,  \* may an append throw?
    LaggingNode    \* may a node deny a transaction that is on chain?

ASSUME OneShotAssumption ==
    /\ PlanOf \in [Executes -> Plans] /\ ReviewOf \in [Reviews -> Plans]
    /\ None \notin Executes
    /\ MaxSettled \in Nat
    /\ Overlapping \in BOOLEAN /\ AppendFaults \in BOOLEAN /\ LaggingNode \in BOOLEAN

ApprovalRecord == [type: {"request", "approval", "rejected", "consumed"},
                   id: Plans, by: Executes \cup {None}]

Landed == {"executed", "aborted", "absent", "unknown"}

SubmissionRecord == [type: {"submitted", "settled"}, id: Executes,
                     landed: Landed \cup {None}]

(* The exit classes that differ in what they say of a submission; a        *)
(* refusal by policy, signer or configuration counts as "rejected".       *)
Status == {"ok", "usage", "needs-approval", "rejected", "unavailable", "ambiguous"}

(* What a command tells its caller: its status, and whether it says that  *)
(* bytes left the process.                                                *)
Report == [status: Status, submitted: BOOLEAN]

VARIABLES
    approvals,    \* the approvals ledger, as any process would read it
    submissions,  \* the submissions ledger
    expired,      \* plans whose expiresAt has passed
    elapsed,      \* submissions older than the settle window
    buried,       \* submissions whose rows of order history, and the time they
                  \* were sent, lie behind more newer rows than outcomeOf walks
    review,       \* where each approve command is
    pc,           \* where each execute command is
    report,       \* what each execute command told its caller
    toSettle,     \* what each reconcile command has listed and not yet asked
    chain         \* what the chain did with each transaction

ledgers == <<approvals, submissions>>
vars == <<ledgers, expired, elapsed, buried, review, pc, report, toSettle, chain>>

TxStatus == {"unsent", "inflight", "executed", "aborted", "dropped"}

Running == {"building", "recorded", "sending", "answer"}

TypeOK ==
    /\ approvals \in Seq(ApprovalRecord) /\ submissions \in Seq(SubmissionRecord)
    /\ expired \subseteq Plans /\ elapsed \subseteq Executes /\ buried \subseteq Executes
    /\ review \in [Reviews -> {"ready", "asked", "confirmed", "done"}]
    /\ pc \in [Executes -> Running \cup {"ready", "done", "dead"}]
    /\ report \in [Executes -> Report \cup {None}]
    /\ toSettle \in [Reconciles -> SUBSET Executes]
    /\ chain \in [Executes -> TxStatus]

Init ==
    /\ approvals = <<>> /\ submissions = <<>>
    /\ expired = {} /\ elapsed = {} /\ buried = {}
    /\ review = [v \in Reviews |-> "ready"]
    /\ pc = [e \in Executes |-> "ready"]
    /\ report = [e \in Executes |-> None]
    /\ toSettle = [r \in Reconciles |-> {}]
    /\ chain = [e \in Executes |-> "unsent"]

-----------------------------------------------------------------------------
(* ledger.ts: one write per record, synced before append returns.  An     *)
(* append that throws may have written its line (the sync comes after).   *)

Appended(before, after, record) == after = Append(before, record)

AppendThrew(before, after, record) ==
    AppendFaults /\ after \in {before, Append(before, record)}

Has(ledger, record) == \E k \in DOMAIN ledger : ledger[k] = record

Noted(type, p)   == [type |-> type, id |-> p, by |-> None]
Spent(p, e)      == [type |-> "consumed", id |-> p, by |-> e]
Submitted(e)     == [type |-> "submitted", id |-> e, landed |-> None]
Settled(e, what) == [type |-> "settled", id |-> e, landed |-> what]

Consumed(p) == \E k \in DOMAIN approvals :
                   approvals[k].type = "consumed" /\ approvals[k].id = p

(* What if an approval outranked the record of its being spent?           *)
statusOf_ApprovedFirst(p) ==
    IF ~Has(approvals, Noted("request", p)) THEN "unknown"
    ELSE IF p \notin expired /\ Has(approvals, Noted("approval", p)) THEN "approved"
    ELSE IF Consumed(p) THEN "consumed"
    ELSE IF Has(approvals, Noted("rejected", p)) THEN "rejected"
    ELSE IF p \in expired THEN "expired"
    ELSE "pending"

(* Fold a plan's records: spent beats declined beats approved, and expiry *)
(* is asked only of what is still waiting.                                *)
statusOf(p) ==
    IF ~Has(approvals, Noted("request", p)) THEN "unknown"
    ELSE IF Consumed(p) THEN "consumed"
    ELSE IF Has(approvals, Noted("rejected", p)) THEN "rejected"
    ELSE IF p \in expired THEN "expired"
    ELSE IF Has(approvals, Noted("approval", p)) THEN "approved"
    ELSE "pending"

VerdictsOn(e) ==
    {k \in DOMAIN submissions :
        submissions[k].type = "settled" /\ submissions[k].id = e}

(* What if the latest verdict on a submission were the one that counts?   *)
settlement_Latest(e) ==
    IF VerdictsOn(e) = {} THEN "none"
    ELSE submissions[CHOOSE k \in VerdictsOn(e) : \A m \in VerdictsOn(e) : m <= k].landed

(* The first verdict recorded is the one statusOf and unsettled read.     *)
settlement(e) ==
    IF VerdictsOn(e) = {} THEN "none"
    ELSE submissions[CHOOSE k \in VerdictsOn(e) : \A m \in VerdictsOn(e) : k <= m].landed

Recorded(e) == Has(submissions, Submitted(e))

unsettled == {e \in Executes : Recorded(e) /\ settlement(e) \in {"none", "unknown"}}

-----------------------------------------------------------------------------
(* preview: requestApproval.                                              *)
requestApproval(p) ==
    /\ statusOf(p) = "unknown"
    /\ Appended(approvals, approvals', Noted("request", p))
    /\ UNCHANGED <<submissions, expired, elapsed, buried, review, pc, report, toSettle, chain>>

ReviewFrame == UNCHANGED <<submissions, expired, elapsed, buried, pc, report, toSettle, chain>>

(* approve --reject, or the answer "no" at the prompt: the record is      *)
(* appended whatever the plan's state.                                    *)
reject(v) ==
    /\ \/ review[v] = "ready" /\ statusOf(ReviewOf[v]) # "unknown"
       \/ review[v] = "asked"
    /\ \/ Appended(approvals, approvals', Noted("rejected", ReviewOf[v]))
       \/ AppendThrew(approvals, approvals', Noted("rejected", ReviewOf[v]))
    /\ review' = [review EXCEPT ![v] = "done"]
    /\ ReviewFrame

(* The command reads the plan's state, and a person reads the plan.       *)
Ask(v) ==
    /\ review[v] = "ready" /\ statusOf(ReviewOf[v]) # "unknown"
    /\ review' = [review EXCEPT ![v] =
                    IF statusOf(ReviewOf[v]) = "pending" THEN "asked" ELSE "done"]
    /\ UNCHANGED approvals /\ ReviewFrame

(* The person says yes: approve() reads the state again ...               *)
Confirm(v) ==
    /\ review[v] = "asked"
    /\ review' = [review EXCEPT ![v] =
                    IF statusOf(ReviewOf[v]) = "pending" THEN "confirmed" ELSE "done"]
    /\ UNCHANGED approvals /\ ReviewFrame

(* ... and then appends; other processes may append in between.           *)
approve(v) ==
    /\ review[v] = "confirmed"
    /\ \/ Appended(approvals, approvals', Noted("approval", ReviewOf[v]))
       \/ AppendThrew(approvals, approvals', Noted("approval", ReviewOf[v]))
    /\ review' = [review EXCEPT ![v] = "done"]
    /\ ReviewFrame

-----------------------------------------------------------------------------
(* execute.                                                               *)

At(e, from, to) == pc[e] = from /\ pc' = [pc EXCEPT ![e] = to]

Says(e, status, submitted) ==
    report' = [report EXCEPT ![e] = [status |-> status, submitted |-> submitted]]

ExecuteFrame == UNCHANGED <<expired, elapsed, buried, review, toSettle>>

AloneOnPlan(e) ==
    \A f \in Executes \ {e} : PlanOf[f] = PlanOf[e] => pc[f] \notin Running

Begin(e) ==
    /\ statusOf(PlanOf[e]) = "approved"
    /\ Overlapping \/ AloneOnPlan(e)
    /\ At(e, "ready", "building")
    /\ UNCHANGED <<ledgers, report, chain>> /\ ExecuteFrame

(* Not approved, declined, expired, or spent: the last is reported as a   *)
(* submission that happened.                                              *)
Refuse(e) ==
    /\ statusOf(PlanOf[e]) \notin {"unknown", "approved"}
    /\ At(e, "ready", "done")
    /\ CASE statusOf(PlanOf[e]) = "consumed" -> Says(e, "rejected", TRUE)
         [] statusOf(PlanOf[e]) = "pending"  -> Says(e, "needs-approval", FALSE)
         [] OTHER                            -> Says(e, "usage", FALSE)
    /\ UNCHANGED <<ledgers, chain>> /\ ExecuteFrame

(* The policy, the builder, the verifier or the signer says no.  An       *)
(* unsponsored build for a delegate is classified as if it had been sent. *)
BuildFailed(e) ==
    /\ At(e, "building", "done")
    /\ \/ Says(e, "unavailable", FALSE)
       \/ \E sent \in BOOLEAN : Says(e, "rejected", sent)
    /\ UNCHANGED <<ledgers, chain>> /\ ExecuteFrame

(* onSubmitting, first half: the digest becomes durable.                  *)
recordSubmission(e) ==
    /\ \/ /\ Appended(submissions, submissions', Submitted(e))
          /\ At(e, "building", "recorded") /\ UNCHANGED report
       \/ /\ AppendThrew(submissions, submissions', Submitted(e))
          /\ At(e, "building", "done") /\ Says(e, "rejected", FALSE)
    /\ UNCHANGED <<approvals, chain>> /\ ExecuteFrame

(* What if an approval that could not be marked spent did not stop the    *)
(* send?                                                                  *)
markConsumed_SendsAnyway(e) ==
    /\ \/ Appended(approvals, approvals', Spent(PlanOf[e], e))
       \/ AppendThrew(approvals, approvals', Spent(PlanOf[e], e))
    /\ At(e, "recorded", "sending")
    /\ UNCHANGED <<submissions, report, chain>> /\ ExecuteFrame

(* onSubmitting, second half: the approval is spent before the bytes go;  *)
(* throwing aborts the send.                                              *)
markConsumed(e) ==
    /\ \/ /\ Appended(approvals, approvals', Spent(PlanOf[e], e))
          /\ At(e, "recorded", "sending") /\ UNCHANGED report
       \/ /\ AppendThrew(approvals, approvals', Spent(PlanOf[e], e))
          /\ At(e, "recorded", "done") /\ Says(e, "rejected", FALSE)
    /\ UNCHANGED <<submissions, chain>> /\ ExecuteFrame

Send(e) ==
    /\ At(e, "sending", "answer")
    /\ chain' = [chain EXCEPT ![e] = "inflight"]
    /\ UNCHANGED <<ledgers, report>> /\ ExecuteFrame

(* The request fails on its way out, or its answer on the way back: the   *)
(* error is the same, and classify reads it the same way.                 *)
RequestFailed(e) ==
    /\ At(e, "sending", "done") \/ At(e, "answer", "done")
    /\ \E status \in {"unavailable", "rejected"} : Says(e, status, FALSE)
    /\ UNCHANGED <<ledgers, chain>> /\ ExecuteFrame

(* What if a digest that came back were taken for a placed order?         *)
Confirmed_ByDigest(e) ==
    /\ At(e, "answer", "done")
    /\ Appended(submissions, submissions', Settled(e, "executed"))
    /\ Says(e, "ok", TRUE)
    /\ UNCHANGED <<approvals, chain>> /\ ExecuteFrame

(* The chain confirmed the execution: settle, then report success.        *)
Confirmed(e) ==
    /\ At(e, "answer", "done")
    /\ chain[e] = "executed"
    /\ \/ /\ Appended(submissions, submissions', Settled(e, "executed"))
          /\ Says(e, "ok", TRUE)
       \/ /\ AppendThrew(submissions, submissions', Settled(e, "executed"))
          /\ Says(e, "rejected", FALSE)
    /\ UNCHANGED <<approvals, chain>> /\ ExecuteFrame

(* Accepted, and not readable within the budget: UNCONFIRMED.             *)
Unconfirmed(e) ==
    /\ At(e, "answer", "done")
    /\ Says(e, "ambiguous", TRUE)
    /\ UNCHANGED <<ledgers, chain>> /\ ExecuteFrame

(* TxExecutionError: reported, and left for reconcile to settle.          *)
Aborted(e) ==
    /\ At(e, "answer", "done")
    /\ chain[e] = "aborted"
    /\ Says(e, "rejected", TRUE)
    /\ UNCHANGED <<ledgers, chain>> /\ ExecuteFrame

(* race: the command gives up waiting and ends, whatever was under way.   *)
Timeout(e) ==
    /\ \E from \in {"building", "sending", "answer"} : At(e, from, "done")
    /\ Says(e, "ambiguous", TRUE)
    /\ UNCHANGED <<ledgers, chain>> /\ ExecuteFrame

Die(e) ==
    /\ pc[e] \in Running /\ pc' = [pc EXCEPT ![e] = "dead"]
    /\ UNCHANGED <<ledgers, report, chain>> /\ ExecuteFrame

-----------------------------------------------------------------------------
(* reconcile.                                                             *)

ReconcileFrame ==
    UNCHANGED <<approvals, expired, elapsed, buried, review, pc, report, chain>>

Listed(r, which) ==
    /\ toSettle[r] = {}
    /\ toSettle' = [toSettle EXCEPT ![r] = which]
    /\ UNCHANGED submissions /\ ReconcileFrame

ListUnsettled(r) == unsettled # {} /\ Listed(r, unsettled)

(* --id takes any submission, settled or not.                             *)
ListOne(r, e) ==
    /\ Recorded(e) /\ Cardinality(VerdictsOn(e)) <= MaxSettled
    /\ Listed(r, {e})

RecordedAfter(f, e) ==
    \E k, m \in DOMAIN submissions :
        m < k /\ submissions[k] = Submitted(f) /\ submissions[m] = Submitted(e)

(* The newest submission comes first.                                     *)
Asking(r, e) ==
    /\ e \in toSettle[r] /\ \A f \in toSettle[r] : ~RecordedAfter(f, e)
    /\ ReconcileFrame

(* What if didLand's own word for absence were written down?              *)
Answered_InItsWords(r, e, verdict) ==
    /\ Appended(submissions, submissions',
                Settled(e, IF verdict = "absent" THEN "never-landed" ELSE verdict))
    /\ toSettle' = [toSettle EXCEPT ![r] = @ \ {e}]

Answered(r, e, verdict) ==
    /\ Appended(submissions, submissions', Settled(e, verdict))
    /\ toSettle' = [toSettle EXCEPT ![r] = @ \ {e}]

(* What if absence were never taken for an answer?                        *)
DidLand_PresenceOnly(e, verdict) ==
    \/ verdict = "executed" /\ chain[e] = "executed"
    \/ verdict = "aborted" /\ chain[e] = "aborted"

(* didLand's verdicts.  Absence counts once the settle window has passed. *)
DidLand(e, verdict) ==
    \/ verdict = "executed" /\ chain[e] = "executed"
    \/ verdict = "aborted" /\ chain[e] = "aborted"
    \/ /\ verdict = "absent" /\ e \in elapsed
       /\ LaggingNode \/ chain[e] \notin {"executed", "aborted"}

(* What became of an executed order is read before its verdict is written. *)
OutcomeRead(e, verdict) == verdict = "executed" => e \notin buried

settle(r, e) ==
    /\ Asking(r, e)
    /\ \E verdict \in Landed :
          DidLand(e, verdict) /\ OutcomeRead(e, verdict) /\ Answered(r, e, verdict)

(* The verdict could not be written down: the command ends.               *)
SettleThrew(r, e) ==
    /\ Asking(r, e)
    /\ \E verdict \in Landed :
          /\ DidLand(e, verdict) /\ OutcomeRead(e, verdict)
          /\ AppendThrew(submissions, submissions', Settled(e, verdict))
    /\ toSettle' = [toSettle EXCEPT ![r] = {}]

(* outcomeOf threw, at its page cap or because the request failed: the     *)
(* command ends with the verdict unwritten and the older ones unasked.    *)
OutcomeThrew(r, e) ==
    /\ Asking(r, e)
    /\ DidLand(e, "executed")
    /\ toSettle' = [toSettle EXCEPT ![r] = {}]
    /\ UNCHANGED submissions

(* The lookup failed, or absence is too young: nothing is written.        *)
StillUnknown(r, e) ==
    /\ Asking(r, e)
    /\ toSettle' = [toSettle EXCEPT ![r] = @ \ {e}]
    /\ UNCHANGED submissions

-----------------------------------------------------------------------------
(* The world outside the commands.                                        *)

Expire(p) ==
    /\ statusOf(p) # "unknown" /\ p \notin expired
    /\ expired' = expired \cup {p}
    /\ UNCHANGED <<ledgers, elapsed, buried, review, pc, report, toSettle, chain>>

Elapse(e) ==
    /\ Recorded(e) /\ e \notin elapsed
    /\ elapsed' = elapsed \cup {e}
    /\ UNCHANGED <<ledgers, expired, buried, review, pc, report, toSettle, chain>>

Include(e) ==
    /\ chain[e] = "inflight"
    /\ \E s \in {"executed", "aborted", "dropped"} : chain' = [chain EXCEPT ![e] = s]
    /\ UNCHANGED <<ledgers, expired, elapsed, buried, review, pc, report, toSettle>>

(* The account goes on writing order rows, from elsewhere, until those     *)
(* since this submission are more than a lookup walks.  It matters only to *)
(* one that executed and is not settled.                                  *)
Bury(e) ==
    /\ chain[e] = "executed" /\ e \in unsettled \ buried
    /\ buried' = buried \cup {e}
    /\ UNCHANGED <<ledgers, expired, elapsed, review, pc, report, toSettle, chain>>

-----------------------------------------------------------------------------
Reviewing(v) == reject(v) \/ Ask(v) \/ Confirm(v) \/ approve(v)

Executing(e) ==
    \/ Begin(e) \/ Refuse(e) \/ BuildFailed(e) \/ recordSubmission(e) \/ markConsumed(e)
    \/ Send(e) \/ RequestFailed(e) \/ Confirmed(e) \/ Unconfirmed(e) \/ Aborted(e)
    \/ Timeout(e) \/ Die(e)

Reconciling(r) ==
    \/ ListUnsettled(r)
    \/ \E e \in Executes :
          ListOne(r, e) \/ settle(r, e) \/ SettleThrew(r, e)
          \/ OutcomeThrew(r, e) \/ StillUnknown(r, e)

World ==
    \/ \E p \in Plans : requestApproval(p) \/ Expire(p)
    \/ \E e \in Executes : Elapse(e) \/ Include(e) \/ Bury(e)

Next ==
    \/ \E v \in Reviews : Reviewing(v)
    \/ \E e \in Executes : Executing(e)
    \/ \E r \in Reconciles : Reconciling(r)
    \/ World

Spec == Init /\ [][Next]_vars

(***************************************************************************)
(* Fairness.  Deadlines pass; whoever drives the commands runs reconcile   *)
(* while anything is unsettled, which is what `next` says to do before     *)
(* anything else; and asking again and again is answered, and written      *)
(* down, some time, if it can be.                                          *)
(***************************************************************************)
Fairness ==
    /\ \A r \in Reconciles : WF_vars(ListUnsettled(r))
    /\ \A e \in Executes : WF_vars(Elapse(e))
    /\ \A e \in Executes : SF_vars(\E r \in Reconciles : settle(r, e))

FairSpec == Spec /\ Fairness

-----------------------------------------------------------------------------
(* Properties.                                                            *)

SentTxs(p) == {e \in Executes : PlanOf[e] = p /\ chain[e] # "unsent"}

Once == INSTANCE OnceOnly WITH
            Intents  <- Plans,
            Txs      <- Executes,
            accepted <- {p \in Plans : Has(approvals, Noted("approval", p))},
            txs      <- [p \in Plans |-> SentTxs(p)]

(* "One approval buys one transaction" (execute.ts:66): whatever dies,     *)
(* times out, is declined, or fails to write, bytes leave only for a plan  *)
(* a person approved, and only once.                                      *)
OneApprovalOneTransaction == Once!Spec

(* Whatever left can be asked about, and cannot be sent again: every sent *)
(* transaction has its digest in the submissions ledger, where reconcile   *)
(* looks, and its plan reads as consumed (execute.ts:24-25).               *)
LedgersAccount ==
    \A e \in Executes :
        chain[e] # "unsent" =>
            Recorded(e) /\ Has(approvals, Spent(PlanOf[e], e))

(* A claim about the chain is the chain's: what is settled as executed or *)
(* aborted, by whichever command, is so, and success is reported only of  *)
(* a transaction that executed (execute.ts:200-203).                      *)
VerdictIsTrue ==
    \A e \in Executes :
        /\ Has(submissions, Settled(e, "executed")) => chain[e] = "executed"
        /\ Has(submissions, Settled(e, "aborted")) => chain[e] = "aborted"
        /\ report[e] # None /\ report[e].status = "ok" => chain[e] = "executed"

(* Two commands that settle one submission do not overrule each other:    *)
(* the verdict that readers were given first stays (submissions.ts:123).  *)
VerdictStands ==
    [][\A e \in Executes : settlement(e) # "none" => settlement(e)' = settlement(e)]_vars

(* The list an agent must be empty of before it trades again               *)
(* (submissions.ts:146) does empty: under FairSpec every submission that   *)
(* is waiting for a verdict gets one, unless it executed and order history *)
(* buries it for good, or buries a newer one, at which reconcile stops.   *)
SubmissionsSettle ==
    \A e \in Executes :
        (e \in unsettled) ~>
            \/ e \notin unsettled
            \/ \E f \in unsettled \cap buried :
                  chain[f] = "executed" /\ (f = e \/ RecordedAfter(f, e))

-----------------------------------------------------------------------------
(* What the code's own words say and the code does not do: see README.    *)

(* reconcile.ts:112-114: settled as never landed, "safe because the chain  *)
(* says the transaction does not exist".                                  *)
AbsentIsFinal ==
    \A e \in Executes : settlement(e) = "absent" => chain[e] # "executed"
=============================================================================
