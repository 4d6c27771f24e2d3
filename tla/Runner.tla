------------------------------- MODULE Runner -------------------------------
(***************************************************************************)
(* The runner: one process that drains an inbox of intents into a durable  *)
(* job store and drives every job, pass after pass, until the chain and    *)
(* the keeper have answered for it.  Everything else moves while it does:  *)
(* `queue` commands write inbox files, the chain includes or drops what    *)
(* was sent, deadlines pass, the process dies and is started again.        *)
(*                                                                         *)
(* One action is one stretch of code between two points where a crash, or  *)
(* another actor, can be told apart: a store flush, an unlink, an await.   *)
(* Source: src/src/runner/{runner,store,inbox,reconcile,types}.ts and the  *)
(* submission half of src/src/chain/executor.ts.                           *)
(*                                                                         *)
(* Abstractions: a job's id is the order in which it was added (createdAt  *)
(* order); the digest of job j's k-th attempt is <<j, k>>, because every   *)
(* attempt builds a different transaction; instants are abstracted to "has *)
(* this deadline passed".                                                  *)
(***************************************************************************)
EXTENDS Naturals, FiniteSets

CONSTANTS
    Queued,        \* inbox ids that `queue` commands may write
    FitStops,      \* inbox ids that a reduce's follow-ups may take
    Entry,         \* inbox id -> the intent and schedule in the file
    Keys,          \* names of ideas; NoKey for an entry without one
    NoKey,
    None,          \* "undefined"
    MaxJobs,       \* bound on the jobs ever added
    MaxAttempts,   \* limits.maxAttempts
    MaxCrashes,    \* bound on process deaths
    Clocks,        \* the deadlines that may pass in this instance
    FlushFaults,   \* may JobStore.flush throw?
    AckFaults      \* may unlinking an inbox file fail?

InboxId == Queued \cup FitStops
JobId   == 1..MaxJobs
Attempt == 1..MaxAttempts

IntentKind == {"open", "close", "reduce", "margin", "fit-stop"}

(* open stands for open/limit, close for close/cancel, margin for every   *)
(* kind that simply takes effect when it lands.                           *)
settlementOf(kind) ==
    CASE kind = "open"  -> "order-status"
      [] kind = "close" -> "gone"
      [] OTHER          -> "onchain"

EntryType == [kind: IntentKind, key: Keys \cup {NoKey}, cooldown: BOOLEAN,
              window: {"none", "expiry", "deferred"}]

ASSUME RunnerAssumption ==
    /\ MaxJobs \in Nat /\ MaxAttempts \in Nat \ {0} /\ MaxCrashes \in Nat
    /\ Queued \cap FitStops = {}
    /\ None \notin InboxId /\ NoKey \notin Keys
    /\ Entry \in [InboxId -> EntryType]
    /\ \A i \in InboxId : Entry[i].cooldown => Entry[i].key # NoKey
    /\ FlushFaults \in BOOLEAN /\ AckFaults \in BOOLEAN
    /\ Clocks \subseteq {"settle", "fill", "retain", "cooldown"}

Terminal == {"filled", "cancelled", "failed", "unresolved", "expired"}
Pending  == {"queued", "submitting", "submitted"}
JobState == Pending \cup Terminal

(* `digest` is the number of the attempt whose digest is recorded, 0 for  *)
(* undefined; state "absent" is a job the ledger does not hold.           *)
Job == [state: JobState \cup {"absent"}, inboxId: InboxId \cup {None},
        attempts: 0..MaxAttempts, digest: 0..MaxAttempts]

NoJob == [state |-> "absent", inboxId |-> None, attempts |-> 0, digest |-> 0]

NewJob(i) == [state |-> "queued", inboxId |-> i, attempts |-> 0, digest |-> 0]

NoJobs == [j \in JobId |-> NoJob]

VARIABLES
    disk,      \* the store file, as a restart would read it
    mem,       \* JobStore.jobs, in the running process
    files,     \* inbox files present
    pc,        \* where the runner process is
    toIngest,  \* entries this drain has read and not yet ingested
    acking,    \* the entry whose file is about to be unlinked
    todo,      \* jobs this pass has not yet reached
    cur,       \* the job whose drive() is suspended at an await
    chain,     \* what the chain and the keeper did with each transaction
    elapsed,   \* <<deadline, job>> pairs that have passed
    opened,    \* entries whose notBefore has passed
    closed,    \* entries whose expiresAt has passed
    buried,    \* submitted jobs whose rows of order history, and the time they
               \* were sent, lie behind more newer rows than outcomeOf walks
    crashes,
    \* history, read by the properties and by freshness of ids only
    submitted, \* inbox ids ever written
    refused,   \* inbox ids the runner decided not to turn into a job
    nextJob,   \* the next unused job id
    intentOf   \* the inbox id each job was made from

storeVars   == <<disk, mem>>
inboxVars   == <<files, toIngest, acking>>
passVars    == <<todo, cur>>
clockVars   == <<elapsed, opened, closed, buried>>
historyVars == <<submitted, refused, nextJob, intentOf>>
vars == <<storeVars, inboxVars, passVars, pc, chain, clockVars, crashes, historyVars>>

TxStatus == {"unsent", "inflight", "executed", "filled", "cancelled",
             "aborted", "dropped"}

Landed == {"executed", "filled", "cancelled"}

PC == {"down", "idle", "drain", "pass", "fit", "building", "sending", "answer"}

TypeOK ==
    /\ disk \in [JobId -> Job] /\ mem \in [JobId -> Job]
    /\ files \subseteq InboxId /\ toIngest \subseteq InboxId
    /\ acking \in InboxId \cup {None}
    /\ pc \in PC
    /\ todo \subseteq JobId /\ cur \in JobId \cup {0}
    /\ chain \in [JobId \X Attempt -> TxStatus]
    /\ elapsed \subseteq Clocks \X JobId
    /\ opened \subseteq InboxId /\ closed \subseteq InboxId /\ buried \subseteq JobId
    /\ crashes \in 0..MaxCrashes
    /\ submitted \subseteq InboxId /\ refused \subseteq InboxId
    /\ nextJob \in 1..(MaxJobs + 1)
    /\ intentOf \in [JobId -> InboxId \cup {None}]

Init ==
    /\ disk = NoJobs /\ mem = NoJobs
    /\ files = {} /\ toIngest = {} /\ acking = None
    /\ pc = "down" /\ todo = {} /\ cur = 0
    /\ chain = [d \in JobId \X Attempt |-> "unsent"]
    /\ elapsed = {} /\ opened = {} /\ closed = {} /\ buried = {}
    /\ crashes = 0
    /\ submitted = {} /\ refused = {} /\ nextJob = 1
    /\ intentOf = [j \in JobId |-> None]

(***************************************************************************)
(* The store.  update() and add() change memory first and then replace the *)
(* file; when the flush throws, memory keeps the change and the file may   *)
(* or may not hold it (an EIO from the directory sync comes after the      *)
(* rename).  Saved is for callers that carry on the same way either way,   *)
(* because tick() catches whatever drive() throws.                         *)
(***************************************************************************)
Flushed(jobs)    == mem' = jobs /\ disk' = jobs
FlushThrew(jobs) == FlushFaults /\ mem' = jobs /\ disk' \in {disk, jobs}
Saved(jobs)      == Flushed(jobs) \/ FlushThrew(jobs)

With(j, state) == [mem EXCEPT ![j].state = state]

Present(jobs, j) == jobs[j].state # "absent"

(* now() - t is measured from an instant the step has just set.           *)
Started(clocks, j) == elapsed' = elapsed \ (clocks \X {j})

-----------------------------------------------------------------------------
(* A `queue` command leaves an intent in the inbox (Inbox.submit).        *)
Submit(i) ==
    /\ i \in Queued \ submitted
    /\ files' = files \cup {i}
    /\ submitted' = submitted \cup {i}
    /\ UNCHANGED <<storeVars, toIngest, acking, passVars, pc, chain, clockVars,
                   crashes, refused, nextJob, intentOf>>

(* The process is started: JobStore.open takes the lock and loads.        *)
Start ==
    /\ pc = "down"
    /\ pc' = "idle"
    /\ mem' = disk
    /\ UNCHANGED <<disk, inboxVars, passVars, chain, clockVars, crashes, historyVars>>

(* What a dead process leaves: the files, and nothing else.               *)
Dead ==
    /\ pc' = "down"
    /\ mem' = NoJobs
    /\ toIngest' = {} /\ acking' = None /\ todo' = {} /\ cur' = 0

(* The process dies, between any two durable effects, or is stopped.      *)
Crash ==
    /\ pc # "down" /\ crashes < MaxCrashes
    /\ crashes' = crashes + 1
    /\ Dead
    /\ UNCHANGED <<disk, files, chain, clockVars, historyVars>>

-----------------------------------------------------------------------------
(* tick: drainInbox.                                                      *)

(* What if drain() unlinked each file as it read it?                      *)
BeginTick_DeletesOnRead ==
    /\ pc = "idle"
    /\ pc' = "drain"
    /\ toIngest' = files /\ files' = {}
    /\ UNCHANGED <<storeVars, acking, passVars, chain, clockVars, crashes, historyVars>>

BeginTick ==
    /\ pc = "idle"
    /\ pc' = "drain"
    /\ toIngest' = files
    /\ UNCHANGED <<storeVars, files, acking, passVars, chain, clockVars, crashes, historyVars>>

(* Some job of the ledger came from this very file.                       *)
Known(i) == \E j \in JobId : Present(mem, j) /\ mem[j].inboxId = i

(* What if an unresolved job counted as finished?                         *)
Blocks_UnresolvedIsFinished(j, i) ==
    /\ Present(mem, j)
    /\ Entry[mem[j].inboxId].key = Entry[i].key
    /\ \/ mem[j].state \in Pending
       \/ /\ mem[j].state # "expired"
          /\ Entry[i].cooldown
          /\ <<"cooldown", j>> \notin elapsed

Blocks(j, i) ==
    /\ Present(mem, j)
    /\ Entry[mem[j].inboxId].key = Entry[i].key
    /\ \/ mem[j].state \in Pending \cup {"unresolved"}
       \/ /\ mem[j].state # "expired"
          /\ Entry[i].cooldown
          /\ <<"cooldown", j>> \notin elapsed

blockingJob(i) == Entry[i].key # NoKey /\ \E j \in JobId : Blocks(j, i)

(* enqueue throws ExecutionPolicyError: the entry could never be sent.    *)
Malformed(i) == Entry[i].window = "expiry" /\ i \in closed

Ingesting(i) ==
    /\ pc = "drain" /\ acking = None /\ i \in toIngest
    /\ toIngest' = toIngest \ {i}

(* What if a recognised entry were skipped without an ack?                *)
IngestKnown_NoAck(i) ==
    /\ Ingesting(i)
    /\ Known(i)
    /\ UNCHANGED <<storeVars, files, acking, passVars, pc, chain, clockVars, crashes,
                   historyVars>>

IngestKnown(i) ==
    /\ Ingesting(i)
    /\ Known(i)
    /\ acking' = i
    /\ UNCHANGED <<storeVars, files, passVars, pc, chain, clockVars, crashes, historyVars>>

IngestRefused(i) ==
    /\ Ingesting(i)
    /\ ~Known(i)
    /\ blockingJob(i) \/ Malformed(i)
    /\ acking' = i
    /\ refused' = refused \cup {i}
    /\ UNCHANGED <<storeVars, files, passVars, pc, chain, clockVars, crashes,
                   submitted, nextJob, intentOf>>

(* enqueue adds a job; only a flush that returned lets the file be acked. *)
IngestNew(i) ==
    LET jobs == [mem EXCEPT ![nextJob] = NewJob(i)]
    IN /\ Ingesting(i)
       /\ ~Known(i) /\ ~blockingJob(i) /\ ~Malformed(i)
       /\ nextJob \in JobId
       /\ \/ Flushed(jobs) /\ acking' = i
          \/ FlushThrew(jobs) /\ UNCHANGED acking
       /\ nextJob' = nextJob + 1
       /\ intentOf' = [intentOf EXCEPT ![nextJob] = i]
       /\ UNCHANGED <<files, passVars, pc, chain, clockVars, crashes, submitted, refused>>

(* ackQuietly: unlink the file; a failure is logged and the drain goes on. *)
Ack ==
    /\ pc = "drain" /\ acking # None
    /\ \/ files' = files \ {acking}
       \/ AckFaults /\ UNCHANGED files
    /\ acking' = None
    /\ UNCHANGED <<storeVars, toIngest, passVars, pc, chain, clockVars, crashes, historyVars>>

-----------------------------------------------------------------------------
(* tick: pruneFinished, then the snapshot of pending jobs.                *)

(* What if every terminal job were dropped past retention?                *)
Prunable_AllTerminal(j) ==
    mem[j].state \in Terminal /\ <<"retain", j>> \in elapsed

Prunable(j) ==
    /\ mem[j].state \in Terminal \ {"unresolved"}
    /\ ~(Entry[mem[j].inboxId].cooldown /\ <<"cooldown", j>> \notin elapsed)
    /\ <<"retain", j>> \in elapsed

Kept == [j \in JobId |-> IF Prunable(j) THEN NoJob ELSE mem[j]]

PruneAndSnapshot ==
    /\ pc = "drain" /\ toIngest = {} /\ acking = None
    /\ IF Kept = mem THEN UNCHANGED storeVars ELSE Flushed(Kept)
    /\ pc' = "pass"
    /\ todo' = {j \in JobId : mem[j].state \in Pending}
    /\ UNCHANGED <<inboxVars, cur, chain, clockVars, crashes, historyVars>>

(* A flush that throws here escapes tick(), and run() ends the process.   *)
PruneThrew ==
    /\ pc = "drain" /\ toIngest = {} /\ acking = None
    /\ FlushFaults /\ Kept # mem
    /\ crashes < MaxCrashes /\ crashes' = crashes + 1
    /\ disk' \in {disk, Kept}
    /\ Dead
    /\ UNCHANGED <<files, chain, clockVars, historyVars>>

-----------------------------------------------------------------------------
(* tick: the pass over the snapshot, most ambiguous first, oldest first.  *)

RANK(state) ==
    CASE state = "submitting" -> 0 [] state = "submitted" -> 1 [] OTHER -> 2

byAmbiguityFirst(j, k) ==
    \/ RANK(mem[j].state) < RANK(mem[k].state)
    \/ RANK(mem[j].state) = RANK(mem[k].state) /\ j <= k

(* What if a job still in `submitting` did not hold the others?           *)
blockedByAmbiguity_UnresolvedOnly ==
    \E j \in JobId : mem[j].state = "unresolved"

blockedByAmbiguity ==
    \E j \in JobId : mem[j].state \in {"submitting", "unresolved"}

Reached(j) ==
    /\ pc = "pass" /\ j \in todo
    /\ \A k \in todo : byAmbiguityFirst(j, k)
    /\ todo' = todo \ {j}

Held(j) ==
    /\ Reached(j)
    /\ mem[j].state = "queued" /\ blockedByAmbiguity
    /\ UNCHANGED <<storeVars, inboxVars, cur, pc, chain, clockVars, crashes, historyVars>>

EndPass ==
    /\ pc = "pass" /\ todo = {}
    /\ pc' = "idle"
    /\ UNCHANGED <<storeVars, inboxVars, passVars, chain, clockVars, crashes, historyVars>>

(* Most steps of a drive leave the inbox, the chain and the history alone. *)
DriveFrame == UNCHANGED <<inboxVars, chain, opened, closed, buried, crashes, historyVars>>

(* finish: a terminal state; retention and cooldown run from this instant. *)
Finish(j, state) ==
    /\ Saved(With(j, state))
    /\ Started({"retain", "cooldown"}, j)

DriveQueued(j) ==
    /\ Reached(j)
    /\ mem[j].state = "queued" /\ ~blockedByAmbiguity

Window(j) == Entry[mem[j].inboxId].window

PastExpiry(j) == Window(j) # "none" /\ mem[j].inboxId \in closed

TooEarly(j) == Window(j) = "deferred" /\ mem[j].inboxId \notin opened

IsFit(j) == Entry[mem[j].inboxId].kind = "fit-stop"

(* What if the window also closed on a job that had been sent?            *)
Expire_AnyPending(j) ==
    /\ Reached(j)
    /\ PastExpiry(j)
    /\ Finish(j, "expired")
    /\ UNCHANGED <<cur, pc>> /\ DriveFrame

Expire(j) ==
    /\ DriveQueued(j)
    /\ PastExpiry(j)
    /\ Finish(j, "expired")
    /\ UNCHANGED <<cur, pc>> /\ DriveFrame

NotYet(j) ==
    /\ DriveQueued(j)
    /\ ~PastExpiry(j) /\ TooEarly(j)
    /\ UNCHANGED <<storeVars, elapsed, cur, pc>> /\ DriveFrame

(* A fit-stop first awaits a read of the position it is for.              *)
AskPosition(j) ==
    /\ DriveQueued(j)
    /\ ~PastExpiry(j) /\ ~TooEarly(j) /\ IsFit(j)
    /\ pc' = "fit" /\ cur' = j
    /\ UNCHANGED <<storeVars, elapsed>> /\ DriveFrame

(* submit, up to its first await: give up, or write the job down as       *)
(* submitting, with no digest, before anything is attempted.              *)
GiveUp(j) ==
    /\ mem[j].attempts >= MaxAttempts
    /\ Finish(j, "failed")
    /\ pc' = "pass" /\ cur' = 0

(* What if the attempt count were checked one too late?                   *)
BeginAttempt_OneTooMany(j) ==
    LET jobs == [mem EXCEPT ![j].state = "submitting",
                            ![j].attempts = mem[j].attempts + 1,
                            ![j].digest = 0]
    IN /\ mem[j].attempts <= MaxAttempts
       /\ \/ Flushed(jobs) /\ pc' = "building" /\ cur' = j
          \/ FlushThrew(jobs) /\ pc' = "pass" /\ cur' = 0
       /\ UNCHANGED elapsed

BeginAttempt(j) ==
    LET jobs == [mem EXCEPT ![j].state = "submitting",
                            ![j].attempts = mem[j].attempts + 1,
                            ![j].digest = 0]
    IN /\ mem[j].attempts < MaxAttempts
       /\ \/ Flushed(jobs) /\ pc' = "building" /\ cur' = j
          \/ FlushThrew(jobs) /\ pc' = "pass" /\ cur' = 0
       /\ UNCHANGED elapsed

submit(j) == GiveUp(j) \/ BeginAttempt(j)

DriveSubmit(j) ==
    /\ DriveQueued(j)
    /\ ~PastExpiry(j) /\ ~TooEarly(j) /\ ~IsFit(j)
    /\ submit(j)
    /\ DriveFrame

(* readyToFit's answers.  The position is another actor's, so any answer  *)
(* may come back: gone, still oversized, unfilled, or already fitting.    *)
FitReady ==
    /\ pc = "fit"
    /\ submit(cur)
    /\ UNCHANGED todo /\ DriveFrame

FitPointless ==
    /\ pc = "fit"
    /\ Finish(cur, "cancelled")
    /\ pc' = "pass" /\ cur' = 0
    /\ UNCHANGED todo /\ DriveFrame

FitUnread ==
    /\ pc = "fit"
    /\ pc' = "pass" /\ cur' = 0
    /\ UNCHANGED <<storeVars, elapsed, todo>> /\ DriveFrame

(* The fill has not landed: notBefore moves on by another grace period.   *)
FitUnfilled ==
    /\ pc = "fit"
    /\ Saved(mem)
    /\ opened' = opened \ {mem[cur].inboxId}
    /\ pc' = "pass" /\ cur' = 0
    /\ UNCHANGED <<elapsed, todo, inboxVars, chain, closed, buried, crashes, historyVars>>

-----------------------------------------------------------------------------
(* submit, after the agent has been asked to build, sign and send.        *)

Returned == pc' = "pass" /\ cur' = 0

(* The error came before any digest and retrying cannot change it.        *)
BuildRefused ==
    /\ pc = "building"
    /\ Finish(cur, "failed")
    /\ Returned /\ UNCHANGED todo /\ DriveFrame

(* What if an attempt that never got a digest were not counted?           *)
BuildFailed_Uncounted ==
    /\ pc = "building"
    /\ Saved([mem EXCEPT ![cur].state = "queued", ![cur].attempts = @ - 1])
    /\ Returned /\ UNCHANGED <<elapsed, todo>> /\ DriveFrame

(* Any other error before a digest: nothing was sent, so try again later. *)
BuildFailed ==
    /\ pc = "building"
    /\ Saved(With(cur, "queued"))
    /\ Returned /\ UNCHANGED <<elapsed, todo>> /\ DriveFrame

(* What if a digest that could not be recorded did not stop the send?     *)
onSubmitting_SendsAnyway ==
    LET jobs == [mem EXCEPT ![cur].digest = mem[cur].attempts]
    IN /\ pc = "building"
       /\ Saved(jobs) /\ pc' = "sending" /\ UNCHANGED cur
       /\ Started({"settle"}, cur)
       /\ UNCHANGED todo /\ DriveFrame

(* onSubmitting: the digest becomes durable before the bytes may leave;   *)
(* throwing from it aborts the send and leaves the job ambiguous.         *)
onSubmitting ==
    LET jobs == [mem EXCEPT ![cur].digest = mem[cur].attempts]
    IN /\ pc = "building"
       /\ \/ Flushed(jobs) /\ pc' = "sending" /\ UNCHANGED cur
          \/ FlushThrew(jobs) /\ Returned
       /\ Started({"settle"}, cur)
       /\ UNCHANGED todo /\ DriveFrame

Tx(j) == <<j, mem[j].digest>>

(* The bytes leave the process.                                           *)
Send ==
    /\ pc = "sending"
    /\ chain' = [chain EXCEPT ![Tx(cur)] = "inflight"]
    /\ pc' = "answer"
    /\ UNCHANGED <<storeVars, inboxVars, passVars, clockVars, crashes, historyVars>>

(* The request fails before it reaches anyone, or its answer never comes, *)
(* or the answer is that execution failed: sawDigest, so the job stays    *)
(* submitting and a later pass asks the chain.                            *)
Unsure ==
    /\ pc \in {"sending", "answer"}
    /\ Returned
    /\ UNCHANGED <<storeVars, elapsed, todo>> /\ DriveFrame

(* A digest came back.  The sponsor's answer means accepted, and the read *)
(* that follows may time out as UNCONFIRMED, so the transaction can still *)
(* be in any state.                                                       *)
Sent ==
    /\ pc = "answer"
    /\ Saved(With(cur, "submitted"))
    /\ Started({"fill"}, cur)
    /\ Returned /\ UNCHANGED todo /\ DriveFrame

-----------------------------------------------------------------------------
(* resolveAmbiguous: a submitting job, from evidence only.                *)

Resolving(j) ==
    /\ Reached(j)
    /\ mem[j].state = "submitting"
    /\ UNCHANGED <<cur, pc>> /\ DriveFrame

ResolveUnsigned(j) ==
    /\ Resolving(j)
    /\ mem[j].digest = 0
    /\ Saved(With(j, "queued"))
    /\ UNCHANGED elapsed

ResolveLanded(j) ==
    /\ Resolving(j)
    /\ mem[j].digest # 0 /\ chain[Tx(j)] \in Landed
    /\ Saved(With(j, "submitted"))
    /\ Started({"fill"}, j)

ResolveAborted(j) ==
    /\ Resolving(j)
    /\ mem[j].digest # 0 /\ chain[Tx(j)] = "aborted"
    /\ Finish(j, "failed")

(* What if a digest absent past the settle window were sent again?        *)
ResolveNeverLanded_Retries(j) ==
    /\ Resolving(j)
    /\ mem[j].digest # 0 /\ <<"settle", j>> \in elapsed
    /\ Saved(With(j, "queued"))
    /\ UNCHANGED elapsed

(* What if absence were never taken for an answer?                        *)
ResolveNeverLanded_Waits(j) ==
    /\ Resolving(j)
    /\ mem[j].digest # 0 /\ <<"settle", j>> \in elapsed
    /\ UNCHANGED <<storeVars, elapsed>>

(* NOT_FOUND past the settle window.  A lagging node answers NOT_FOUND    *)
(* for a transaction that did land, so the chain's real state is no guard. *)
ResolveNeverLanded(j) ==
    /\ Resolving(j)
    /\ mem[j].digest # 0 /\ <<"settle", j>> \in elapsed
    /\ Finish(j, "unresolved")

(* The lookup failed, or absence is still too young to mean anything.     *)
ResolveUnknown(j) ==
    /\ Resolving(j)
    /\ mem[j].digest # 0
    /\ UNCHANGED <<storeVars, elapsed>>

-----------------------------------------------------------------------------
(* awaitOutcome: a submitted job, by the evidence its kind leaves.        *)

Awaiting(j, how) ==
    /\ Reached(j)
    /\ mem[j].state = "submitted"
    /\ settlementOf(Entry[mem[j].inboxId].kind) = how

AwaitOnchain(j) ==
    /\ Awaiting(j, "onchain")
    /\ Entry[mem[j].inboxId].kind # "reduce"
    /\ Finish(j, "filled")
    /\ UNCHANGED <<cur, pc>> /\ DriveFrame

(* A reduce, once durably filled, leaves follow-ups in the inbox for the  *)
(* legs it outgrew: as many as were written before something went wrong.  *)
queueStopFits(legs) ==
    /\ files' = files \cup legs
    /\ submitted' = submitted \cup legs

AwaitReduce(j) ==
    /\ Awaiting(j, "onchain")
    /\ Entry[mem[j].inboxId].kind = "reduce"
    /\ \/ /\ Flushed(With(j, "filled"))
          /\ \E legs \in SUBSET (FitStops \ submitted) : queueStopFits(legs)
       \/ FlushThrew(With(j, "filled")) /\ UNCHANGED <<files, submitted>>
    /\ Started({"retain", "cooldown"}, j)
    /\ UNCHANGED <<toIngest, acking, cur, pc, chain, opened, closed, buried,
                   crashes, refused, nextJob, intentOf>>

(* The position or order a close or cancel named is gone.                 *)
AwaitGone(j) ==
    /\ Awaiting(j, "gone")
    /\ Finish(j, "filled")
    /\ UNCHANGED <<cur, pc>> /\ DriveFrame

(* A read that can return: the lists of positions and of orders always can, *)
(* and the walk through order history throws at its page cap.              *)
Readable(j) ==
    \/ Awaiting(j, "gone")
    \/ Awaiting(j, "order-status") /\ j \notin buried

(* Account history ties the order to our digest and it is terminal.       *)
AwaitOrder(j) ==
    /\ Awaiting(j, "order-status") /\ Readable(j)
    /\ chain[Tx(j)] \in {"filled", "cancelled"}
    /\ Finish(j, chain[Tx(j)])
    /\ UNCHANGED <<cur, pc>> /\ DriveFrame

(* What if the fill deadline were only checked for closes and cancels?    *)
AwaitOverdue_GoneOnly(j) ==
    /\ Awaiting(j, "gone")
    /\ <<"fill", j>> \in elapsed
    /\ Finish(j, "unresolved")
    /\ UNCHANGED <<cur, pc>> /\ DriveFrame

(* expireIfPastDeadline comes after a read that returned and told of no    *)
(* outcome: still there, still open, or not indexed yet.                  *)
AwaitOverdue(j) ==
    /\ Readable(j)
    /\ <<"fill", j>> \in elapsed
    /\ Finish(j, "unresolved")
    /\ UNCHANGED <<cur, pc>> /\ DriveFrame

(* No answer yet, or the read threw, and tick() kept the state.  Learning  *)
(* the order ids stores them, which writes whatever memory holds.         *)
AwaitMore(j) ==
    /\ Awaiting(j, "gone") \/ Awaiting(j, "order-status")
    /\ \/ UNCHANGED disk
       \/ Awaiting(j, "order-status") /\ Readable(j) /\ disk' = mem
    /\ UNCHANGED <<mem, elapsed, cur, pc>> /\ DriveFrame

-----------------------------------------------------------------------------
(* The world outside the process.                                         *)

(* The chain includes a transaction, fails it, or never takes it up.      *)
Include(d) ==
    /\ chain[d] = "inflight"
    /\ \E s \in {"executed", "aborted", "dropped"} : chain' = [chain EXCEPT ![d] = s]
    /\ UNCHANGED <<storeVars, inboxVars, passVars, pc, clockVars, crashes, historyVars>>

(* The keeper fills or cancels an order that a transaction placed; the     *)
(* index may list what changed last first.                                *)
Keeper(d) ==
    /\ chain[d] = "executed" /\ Entry[intentOf[d[1]]].kind = "open"
    /\ \E s \in {"filled", "cancelled"} : chain' = [chain EXCEPT ![d] = s]
    /\ buried' \in {buried, buried \ {d[1]}}
    /\ UNCHANGED <<storeVars, inboxVars, passVars, pc, elapsed, opened, closed,
                   crashes, historyVars>>

(* The job as the clock sees it: its record, whether or not a process runs. *)
Record(j) == IF pc = "down" THEN disk[j] ELSE mem[j]

Running(clock, j) ==
    CASE clock = "settle"   -> Record(j).state = "submitting" /\ Record(j).digest # 0
      [] clock = "fill"     -> Record(j).state = "submitted"
      [] clock = "retain"   -> Record(j).state \in Terminal
      [] clock = "cooldown" -> /\ Record(j).state \in Terminal
                               /\ Entry[Record(j).inboxId].key # NoKey

Elapse(clock, j) ==
    /\ <<clock, j>> \notin elapsed /\ Running(clock, j)
    /\ elapsed' = elapsed \cup {<<clock, j>>}
    /\ UNCHANGED <<storeVars, inboxVars, passVars, pc, chain, opened, closed,
                   buried, crashes, historyVars>>

Open(i) ==
    /\ i \in submitted \ opened /\ Entry[i].window = "deferred"
    /\ opened' = opened \cup {i}
    /\ UNCHANGED <<storeVars, inboxVars, passVars, pc, chain, elapsed, closed,
                   buried, crashes, historyVars>>

Close(i) ==
    /\ i \in submitted \ closed /\ Entry[i].window # "none"
    /\ closed' = closed \cup {i}
    /\ UNCHANGED <<storeVars, inboxVars, passVars, pc, chain, elapsed, opened,
                   buried, crashes, historyVars>>

(* The account goes on writing order rows, here or from elsewhere, until   *)
(* those since this job's submission are more than a lookup walks.         *)
Bury(j) ==
    /\ Record(j).state = "submitted" /\ j \notin buried
    /\ settlementOf(Entry[Record(j).inboxId].kind) = "order-status"
    /\ buried' = buried \cup {j}
    /\ UNCHANGED <<storeVars, inboxVars, passVars, pc, chain, elapsed, opened,
                   closed, crashes, historyVars>>

-----------------------------------------------------------------------------
Drain ==
    \/ BeginTick \/ Ack \/ PruneAndSnapshot \/ PruneThrew
    \/ \E i \in InboxId : IngestKnown(i) \/ IngestRefused(i) \/ IngestNew(i)

Submission ==
    \/ FitReady \/ FitPointless \/ FitUnread \/ FitUnfilled
    \/ BuildRefused \/ BuildFailed \/ onSubmitting \/ Send \/ Unsure \/ Sent

Drive(j) ==
    \/ Held(j) \/ Expire(j) \/ NotYet(j) \/ AskPosition(j) \/ DriveSubmit(j)
    \/ ResolveUnsigned(j) \/ ResolveLanded(j) \/ ResolveAborted(j)
    \/ ResolveNeverLanded(j) \/ ResolveUnknown(j)
    \/ AwaitOnchain(j) \/ AwaitReduce(j) \/ AwaitGone(j) \/ AwaitOrder(j)
    \/ AwaitOverdue(j) \/ AwaitMore(j)

(* The loop of scripts/runner/run.ts.                                     *)
Loop == Drain \/ Submission \/ EndPass \/ \E j \in JobId : Drive(j)

World ==
    \/ \E i \in Queued : Submit(i)
    \/ \E d \in JobId \X Attempt : Include(d) \/ Keeper(d)
    \/ \E clock \in Clocks, j \in JobId : Elapse(clock, j)
    \/ \E j \in JobId : Bury(j)
    \/ \E i \in InboxId : Open(i) \/ Close(i)

Next == Loop \/ World \/ Start \/ Crash

Spec == Init /\ [][Next]_vars

(***************************************************************************)
(* Fairness.  The loop is driven by a timer and never blocks for good; a   *)
(* dead runner is started again by an operator; time passes; and a lookup  *)
(* repeated on every pass is answered some time, if it can be: a step that *)
(* waits for history out of reach is owed nothing.  Nothing is assumed of  *)
(* the chain, the keeper, or the people who queue intents.                 *)
(***************************************************************************)
Answered(j) == ResolveLanded(j) \/ ResolveAborted(j) \/ ResolveNeverLanded(j)

Decided(j) == AwaitOrder(j) \/ AwaitGone(j) \/ AwaitOverdue(j)

Fairness ==
    /\ WF_vars(Loop) /\ WF_vars(Start)
    /\ \A clock \in Clocks, j \in JobId : WF_vars(Elapse(clock, j))
    /\ \A i \in {i \in InboxId : Entry[i].window # "none"} : WF_vars(Close(i))
    /\ \A j \in JobId : SF_vars(Answered(j) \/ Decided(j))

FairSpec == Spec /\ Fairness

-----------------------------------------------------------------------------
(* Properties.                                                            *)

SentTxs(i) ==
    {d \in JobId \X Attempt : intentOf[d[1]] = i /\ chain[d] # "unsent"}

Once == INSTANCE OnceOnly WITH
            Intents  <- InboxId,
            Txs      <- JobId \X Attempt,
            accepted <- submitted,
            txs      <- [i \in InboxId |-> SentTxs(i)]

(* "An intent is submitted at most once" (runner.ts:4): across retries,    *)
(* re-read inbox files, pruning, failed flushes and restarts, the bytes    *)
(* of at most one transaction ever leave the process for one inbox file.  *)
AtMostOnce == Once!Spec

(* The ledger on disk can account for everything that ever left: a sent   *)
(* transaction's digest is the one its durable job carries, the job is    *)
(* past `queued`, and so a restart asks the chain about it instead of     *)
(* building another (the three cases of runner.ts:14-16).                 *)
Accounts(jobs, d) ==
    LET r == jobs[d[1]]
    IN r.state = "absent" \/ (r.digest = d[2] /\ r.state \notin {"queued", "expired"})

DigestBeforeBytes ==
    \A d \in JobId \X Attempt :
        chain[d] # "unsent" =>
            /\ Accounts(disk, d)
            /\ pc # "down" => Accounts(mem, d)

(* Nothing new is sent beside an unknown outcome (runner.ts:333-336):     *)
(* while a submission is being built or sent no other job is ambiguous,   *)
(* and neither memory nor a ledger that a crash would reload ever holds   *)
(* two jobs whose transaction may or may not exist.                       *)
OneOpenQuestion ==
    /\ pc \in {"building", "sending", "answer"} =>
         \A j \in JobId \ {cur} :
             /\ mem[j].state \notin {"submitting", "unresolved"}
             /\ disk[j].state \notin {"submitting", "unresolved"}
    /\ \A jobs \in {mem, disk} : \A j, k \in JobId :
         jobs[j].state = "submitting" /\ jobs[k].state = "submitting" => j = k

(* A job the runner calls failed or expired, "so this intent can be       *)
(* queued again" (runner.ts:479), has no transaction that took effect or  *)
(* still may: not in memory, and not in the ledger a restart would read.  *)
NothingLive ==
    \A jobs \in {mem, disk} : \A d \in JobId \X Attempt :
        jobs[d[1]].state \in {"failed", "expired"} =>
            chain[d] \in {"unsent", "aborted"}

(* One decision is in play at most once (runner.ts:186-194): two jobs of   *)
(* one key are never both unfinished or unresolved, whatever was pruned,   *)
(* suppressed, or re-read after a crash.                                  *)
OnePerKey ==
    \A jobs \in {mem, disk} : \A j, k \in JobId :
        /\ jobs[j].state \in Pending \cup {"unresolved"}
        /\ jobs[k].state \in Pending \cup {"unresolved"}
        /\ Entry[jobs[j].inboxId].key = Entry[jobs[k].inboxId].key
        /\ Entry[jobs[j].inboxId].key # NoKey
        => j = k

(* Nothing the runner does by itself answers an open question about       *)
(* money: once the ledger says unresolved, no pass, prune or restart      *)
(* clears it (store.ts:178-182); and no job is dropped before the runner  *)
(* has seen it finished, even if that could not be written down.          *)
UnresolvedStays ==
    [][\A j \in JobId :
          /\ disk[j].state = "unresolved" => disk'[j].state = "unresolved"
          /\ disk[j].state \in Pending =>
                Present(disk', j) \/ mem[j].state \in Terminal \ {"unresolved"}]_vars

(* "The file is the record until the ledger is" (inbox.ts:74): an inbox   *)
(* file goes only when its intent was refused or the ledger on disk holds *)
(* its job.                                                               *)
IntentNeverLost ==
    [][\A i \in files \ files' :
          i \in refused' \/ \E j \in JobId : disk'[j].inboxId = i]_vars

-----------------------------------------------------------------------------
(* Liveness, under FairSpec.                                              *)

(* A job that may have a transaction outstanding does not stay so: the    *)
(* chain's answer, or its silence past the settle window, moves it on.    *)
SubmittingSettles ==
    \A j \in JobId :
        (disk[j].state = "submitting") ~> (disk[j].state # "submitting")

(* A submitted job reaches an outcome, if only the deadline's: "The fill   *)
(* wait ends at a terminal order status or at a deadline" (README.md:1061). *)
(* It does so unless order history buries its rows for good: the walk then *)
(* throws on every pass, and the deadline is never looked at.              *)
SubmittedEnds ==
    \A j \in JobId :
        (disk[j].state = "submitted") ~> (disk[j].state \notin Pending \/ j \in buried)

(* Every intent handed over is taken up, and its file removed.            *)
InboxDrains == \A i \in InboxId : (i \in files) ~> (i \notin files)

(* An accepted job is not starved: it leaves the queue for good, unless a *)
(* job that only a person can settle is holding all submissions.          *)
QueueMoves ==
    \A j \in JobId :
        (disk[j].state = "queued") ~>
            \/ disk[j].state \notin {"queued", "submitting"}
            \/ \E k \in JobId : disk[k].state = "unresolved"
=============================================================================
