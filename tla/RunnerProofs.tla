---------------------------- MODULE RunnerProofs ----------------------------
(***************************************************************************)
(* What holds of Runner for every inbox, every bound and every fault: its  *)
(* types, and that an intent is submitted at most once.                    *)
(***************************************************************************)
EXTENDS Runner, TLAPS

(* Nothing of a job is forgotten while its inbox file may still be there:  *)
(* either an inbox file can always be unlinked, or no job is old enough to *)
(* be pruned.  Without it at-most-once fails (README, section 11).         *)
NoForgetting == AckFaults => "retain" \notin Clocks

SentJob(j) == \E k \in Attempt : chain[<<j, k>>] # "unsent"

(* Where the process is tells what it knows of the job in its hands.      *)
Control ==
    /\ pc = "down" => mem = NoJobs
    /\ pc # "drain" => toIngest = {} /\ acking = None
    /\ pc = "fit" => cur \in JobId /\ mem[cur].state = "queued"
    /\ pc = "building" => /\ cur \in JobId
                          /\ mem[cur].state = "submitting"
                          /\ mem[cur].digest = 0 /\ mem[cur].attempts # 0
    /\ pc \in {"sending", "answer"} => /\ cur \in JobId
                                       /\ mem[cur].state = "submitting"
                                       /\ mem[cur].digest # 0
    /\ pc = "sending" => disk[cur] = mem[cur] /\ ~SentJob(cur)

(* The record of a job answers for every transaction ever sent for it.    *)
AnswersFor(record, j) ==
    \A k \in Attempt :
        chain[<<j, k>>] # "unsent" =>
            /\ record.digest = k
            /\ record.state \notin {"queued", "expired"}
            /\ record.state = "failed" => chain[<<j, k>>] = "aborted"

(* A job in a ledger is the job of its inbox file.                        *)
Vouches(jobs, j) ==
    Present(jobs, j) =>
        /\ j < nextJob
        /\ jobs[j].inboxId = intentOf[j]
        /\ AnswersFor(jobs[j], j)

(* Two jobs of one inbox file are never both in a ledger, and a file that *)
(* has had a transaction has no other job.                                *)
Alone(jobs, j) ==
    NoForgetting => \A k \in JobId \ {j} :
        intentOf[k] = intentOf[j] /\ (SentJob(j) \/ Present(jobs, j)) => ~Present(jobs, k)

Origins ==
    /\ files \subseteq submitted /\ toIngest \subseteq files
    /\ acking \notin toIngest
    /\ \A j \in JobId : IF j < nextJob THEN intentOf[j] \in submitted
                                       ELSE intentOf[j] = None /\ ~SentJob(j)

Ledgers ==
    \A j \in JobId :
        /\ Vouches(disk, j) /\ Vouches(mem, j)
        /\ Alone(disk, j) /\ Alone(mem, j)
        /\ pc # "down" /\ Present(disk, j) => Present(mem, j)

(* While a file that has had a transaction exists, its job is on disk.    *)
Remembered ==
    NoForgetting => \A j \in JobId :
        SentJob(j) /\ intentOf[j] \in files => Present(disk, j)

(* By the end of a drain every finished job has lost its inbox file.      *)
Drained ==
    ~AckFaults /\ pc = "drain" =>
        \A j \in JobId :
            /\ mem[j].state \in Terminal /\ intentOf[j] \in files
            => intentOf[j] \in toIngest \cup {acking}

Books == Origins /\ Ledgers /\ Remembered /\ Drained

IInv == TypeOK /\ Control /\ Books

-----------------------------------------------------------------------------
(* Types of the records a step writes.                                    *)
LEMMA Records ==
    ASSUME RunnerAssumption
    PROVE  /\ NoJobs \in [JobId -> Job]
           /\ Job = [state: JobState \cup {"absent"}, inboxId: InboxId \cup {None},
                     attempts: 0..MaxAttempts, digest: 0..MaxAttempts]
           /\ Pending \cup Terminal = JobState
           /\ 0 \notin JobId
  BY DEF RunnerAssumption, NoJobs, NoJob, Job, JobState, JobId

(* A step that rewrites one job, and flushes or fails to.                 *)
LEMMA SaveTypes ==
    ASSUME TypeOK,
           NEW jobs \in [JobId -> Job],
           Saved(jobs)
    PROVE  /\ mem' \in [JobId -> Job]
           /\ disk' \in [JobId -> Job]
  BY DEF TypeOK, Saved, Flushed, FlushThrew

LEMMA WithTypes ==
    ASSUME TypeOK, NEW j \in JobId, NEW state \in JobState
    PROVE  With(j, state) \in [JobId -> Job]
  BY DEF TypeOK, With, Job

LEMMA FinishTypes ==
    ASSUME TypeOK, NEW j \in JobId, NEW state \in JobState, Finish(j, state)
    PROVE  /\ mem' \in [JobId -> Job]
           /\ disk' \in [JobId -> Job]
           /\ elapsed' \subseteq Clocks \X JobId
  <1>1. With(j, state) \in [JobId -> Job]
    BY WithTypes
  <1>2. Saved(With(j, state)) /\ elapsed' \subseteq elapsed
    BY DEF Finish, Started
  <1> QED
    BY <1>1, <1>2, SaveTypes DEF TypeOK

(* The frames of a drive, named by what they leave alone.                  *)
LEMMA FrameTypes ==
    ASSUME TypeOK, DriveFrame
    PROVE  /\ files' \subseteq InboxId /\ toIngest' \subseteq InboxId
           /\ acking' \in InboxId \cup {None}
           /\ chain' \in [JobId \X Attempt -> TxStatus]
           /\ opened' \subseteq InboxId /\ closed' \subseteq InboxId
           /\ buried' \subseteq JobId
           /\ crashes' \in 0..MaxCrashes
           /\ submitted' \subseteq InboxId /\ refused' \subseteq InboxId
           /\ nextJob' \in 1..(MaxJobs + 1)
           /\ intentOf' \in [JobId -> InboxId \cup {None}]
  BY DEF TypeOK, DriveFrame, inboxVars, historyVars

(* submit() from a queued job: it gives up, or begins an attempt.          *)
LEMMA SubmitTypes ==
    ASSUME RunnerAssumption, TypeOK, NEW j \in JobId, submit(j)
    PROVE  /\ mem' \in [JobId -> Job] /\ disk' \in [JobId -> Job]
           /\ elapsed' \subseteq Clocks \X JobId
           /\ pc' \in PC /\ cur' \in JobId \cup {0}
  <1>1. CASE GiveUp(j)
    <2>1. Finish(j, "failed") /\ pc' = "pass" /\ cur' = 0
      BY <1>1 DEF GiveUp
    <2> QED
      BY <2>1, FinishTypes DEF JobState, Terminal, PC
  <1>2. CASE BeginAttempt(j)
    <2> DEFINE jobs == [mem EXCEPT ![j].state = "submitting",
                                   ![j].attempts = mem[j].attempts + 1,
                                   ![j].digest = 0]
    <2> DEFINE begun == [mem[j] EXCEPT !.state = "submitting",
                                       !.attempts = mem[j].attempts + 1,
                                       !.digest = 0]
    <2>a. mem \in [JobId -> Job] /\ mem[j] \in Job
      BY DEF TypeOK
    <2>b. mem[j].attempts + 1 \in 0..MaxAttempts /\ 0 \in 0..MaxAttempts
      BY <1>2, <2>a DEF BeginAttempt, Job, RunnerAssumption
    <2>c. begun \in Job
      BY <2>a, <2>b DEF Job, JobState, Pending
    <2>d. jobs = [mem EXCEPT ![j] = begun]
      BY <2>a
    <2>1. jobs \in [JobId -> Job]
      <3> HIDE DEF jobs, begun
      <3> QED
        BY <2>a, <2>c, <2>d
    <2>2. Saved(jobs) /\ UNCHANGED elapsed /\ pc' \in {"building", "pass"} /\ cur' \in {0, j}
      BY <1>2 DEF BeginAttempt, Saved
    <2> QED
      BY <2>1, <2>2, SaveTypes DEF TypeOK, PC
  <1> QED
    BY <1>1, <1>2 DEF submit

(* The steps of a drain.                                                  *)
LEMMA DrainTypes ==
    ASSUME RunnerAssumption, TypeOK, Drain
    PROVE  TypeOK'
  <1> USE DEF storeVars, inboxVars, passVars, clockVars, historyVars
  <1>0. Kept \in [JobId -> Job]
    BY DEF Kept, TypeOK, NoJob, Job, RunnerAssumption
  <1>1. CASE BeginTick
    BY <1>1 DEF BeginTick, TypeOK, PC
  <1>2. CASE Ack
    BY <1>2 DEF Ack, TypeOK
  <1>3. CASE PruneAndSnapshot
    BY <1>3, <1>0 DEF PruneAndSnapshot, Flushed, TypeOK, PC
  <1>4. CASE PruneThrew
    BY <1>4, <1>0, Records DEF PruneThrew, Dead, TypeOK, PC, RunnerAssumption
  <1>5. ASSUME NEW i \in InboxId, IngestKnown(i) PROVE TypeOK'
    BY <1>5 DEF IngestKnown, Ingesting, TypeOK
  <1>6. ASSUME NEW i \in InboxId, IngestRefused(i) PROVE TypeOK'
    BY <1>6 DEF IngestRefused, Ingesting, TypeOK
  <1>7. ASSUME NEW i \in InboxId, IngestNew(i) PROVE TypeOK'
    <2> DEFINE jobs == [mem EXCEPT ![nextJob] = NewJob(i)]
    <2>1. NewJob(i) \in Job
      BY DEF NewJob, Job, JobState, Pending, RunnerAssumption
    <2>2. jobs \in [JobId -> Job]
      BY <1>7, <2>1 DEF IngestNew, TypeOK
    <2>3. Saved(jobs)
      BY <1>7 DEF IngestNew, Saved
    <2>4. mem' \in [JobId -> Job] /\ disk' \in [JobId -> Job]
      BY <2>2, <2>3, SaveTypes
    <2> QED
      BY <1>7, <2>4 DEF IngestNew, Ingesting, TypeOK, JobId, RunnerAssumption
  <1> QED
    BY <1>1, <1>2, <1>3, <1>4, <1>5, <1>6, <1>7 DEF Drain

(* The steps of the world outside.                                        *)
LEMMA WorldTypes ==
    ASSUME TypeOK, World
    PROVE  TypeOK'
  <1> USE DEF storeVars, inboxVars, passVars, clockVars, historyVars
  <1>1. ASSUME NEW i \in Queued, Submit(i) PROVE TypeOK'
    BY <1>1 DEF Submit, TypeOK, InboxId
  <1>2. ASSUME NEW d \in JobId \X Attempt, Include(d) PROVE TypeOK'
    BY <1>2 DEF Include, TypeOK, TxStatus
  <1>3. ASSUME NEW d \in JobId \X Attempt, Keeper(d) PROVE TypeOK'
    BY <1>3 DEF Keeper, TypeOK, TxStatus
  <1>4. ASSUME NEW clock \in Clocks, NEW j \in JobId, Elapse(clock, j) PROVE TypeOK'
    BY <1>4 DEF Elapse, TypeOK
  <1>5. ASSUME NEW i \in InboxId, Open(i) PROVE TypeOK'
    BY <1>5 DEF Open, TypeOK
  <1>6. ASSUME NEW i \in InboxId, Close(i) PROVE TypeOK'
    BY <1>6 DEF Close, TypeOK
  <1>7. ASSUME NEW j \in JobId, Bury(j) PROVE TypeOK'
    BY <1>7 DEF Bury, TypeOK
  <1> QED
    BY <1>1, <1>2, <1>3, <1>4, <1>5, <1>6, <1>7 DEF World

(* The steps of a submission, of the job in the process's hands.          *)
LEMMA SubmissionTypes ==
    ASSUME RunnerAssumption, TypeOK, Control, Submission
    PROVE  TypeOK'
  <1> USE DEF storeVars, inboxVars, passVars, clockVars, historyVars
  <1>1. cur \in JobId
    BY DEF Control, Submission, FitReady, FitPointless, FitUnread, FitUnfilled,
           BuildRefused, BuildFailed, onSubmitting, Send, Unsure, Sent
  <1>2. {"queued", "submitted", "failed", "cancelled"} \subseteq JobState
    BY DEF JobState, Pending, Terminal
  <1>3. CASE FitReady
    BY <1>1, <1>3, SubmitTypes, FrameTypes DEF FitReady, TypeOK
  <1>4. CASE FitPointless
    BY <1>1, <1>2, <1>4, FinishTypes, FrameTypes DEF FitPointless, TypeOK, PC
  <1>5. CASE FitUnread
    BY <1>5, FrameTypes DEF FitUnread, TypeOK, PC
  <1>6. CASE FitUnfilled
    <2>1. mem' \in [JobId -> Job] /\ disk' \in [JobId -> Job]
      BY <1>6, SaveTypes DEF FitUnfilled, TypeOK
    <2> QED
      BY <1>6, <2>1 DEF FitUnfilled, TypeOK, PC
  <1>7. CASE BuildRefused
    BY <1>1, <1>2, <1>7, FinishTypes, FrameTypes DEF BuildRefused, Returned, TypeOK, PC
  <1>8. CASE BuildFailed
    BY <1>1, <1>2, <1>8, WithTypes, SaveTypes, FrameTypes
    DEF BuildFailed, Returned, TypeOK, PC
  <1>9. CASE onSubmitting
    <2> DEFINE jobs == [mem EXCEPT ![cur].digest = mem[cur].attempts]
    <2>0. mem[cur] \in Job /\ mem[cur].attempts \in 0..MaxAttempts
      BY <1>1 DEF TypeOK, Job
    <2>1. jobs \in [JobId -> Job]
      BY <2>0 DEF TypeOK, Job
    <2>2. Saved(jobs) /\ elapsed' \subseteq elapsed /\ pc' \in PC /\ cur' \in {0, cur}
      BY <1>9 DEF onSubmitting, Saved, Returned, Started, PC
    <2> QED
      BY <1>1, <1>9, <2>1, <2>2, SaveTypes, FrameTypes DEF onSubmitting, TypeOK
  <1>10. CASE Send
    <2>1. Tx(cur) \in JobId \X Attempt
      BY <1>1, <1>10 DEF Send, Tx, Control, TypeOK, Job, Attempt, RunnerAssumption
    <2> QED
      BY <1>10, <2>1 DEF Send, TypeOK, TxStatus, PC
  <1>11. CASE Unsure
    BY <1>11, FrameTypes DEF Unsure, Returned, TypeOK, PC
  <1>12. CASE Sent
    <2>1. Saved(With(cur, "submitted")) /\ elapsed' \subseteq elapsed
      BY <1>12 DEF Sent, Started
    <2> QED
      BY <1>1, <1>2, <1>12, <2>1, WithTypes, SaveTypes, FrameTypes
      DEF Sent, Returned, TypeOK, PC
  <1> QED
    BY <1>3, <1>4, <1>5, <1>6, <1>7, <1>8, <1>9, <1>10, <1>11, <1>12 DEF Submission

(* The steps of a pass that reach a job of the snapshot.                  *)
LEMMA DriveTypes ==
    ASSUME RunnerAssumption, TypeOK, NEW j \in JobId, Drive(j)
    PROVE  TypeOK'
  <1> USE DEF storeVars, inboxVars, passVars, clockVars, historyVars
  <1>1. {"queued", "submitted", "failed", "cancelled", "filled", "unresolved", "expired"}
          \subseteq JobState
    BY DEF JobState, Pending, Terminal
  <1>2. ASSUME Reached(j) PROVE todo' \subseteq JobId
    BY <1>2 DEF Reached, TypeOK
  <1>3. CASE Held(j)
    BY <1>3 DEF Held, Reached, TypeOK
  <1>4. CASE Expire(j)
    BY <1>1, <1>2, <1>4, FinishTypes, FrameTypes DEF Expire, DriveQueued, TypeOK
  <1>5. CASE NotYet(j)
    BY <1>2, <1>5, FrameTypes DEF NotYet, DriveQueued, TypeOK
  <1>6. CASE AskPosition(j)
    BY <1>2, <1>6, FrameTypes DEF AskPosition, DriveQueued, TypeOK, PC
  <1>7. CASE DriveSubmit(j)
    BY <1>2, <1>7, SubmitTypes, FrameTypes DEF DriveSubmit, DriveQueued, TypeOK
  <1>8. CASE ResolveUnsigned(j)
    BY <1>1, <1>2, <1>8, WithTypes, SaveTypes, FrameTypes
    DEF ResolveUnsigned, Resolving, TypeOK
  <1>9. CASE ResolveLanded(j)
    <2>1. elapsed' \subseteq elapsed
      BY <1>9 DEF ResolveLanded, Started
    <2> QED
      BY <1>1, <1>2, <1>9, <2>1, WithTypes, SaveTypes, FrameTypes
      DEF ResolveLanded, Resolving, TypeOK
  <1>10. CASE ResolveAborted(j)
    BY <1>1, <1>2, <1>10, FinishTypes, FrameTypes DEF ResolveAborted, Resolving, TypeOK
  <1>11. CASE ResolveNeverLanded(j)
    BY <1>1, <1>2, <1>11, FinishTypes, FrameTypes DEF ResolveNeverLanded, Resolving, TypeOK
  <1>12. CASE ResolveUnknown(j)
    BY <1>2, <1>12, FrameTypes DEF ResolveUnknown, Resolving, TypeOK
  <1>13. CASE AwaitOnchain(j)
    BY <1>1, <1>2, <1>13, FinishTypes, FrameTypes DEF AwaitOnchain, Awaiting, TypeOK
  <1>14. CASE AwaitReduce(j)
    <2>1. Saved(With(j, "filled")) /\ elapsed' \subseteq elapsed
      BY <1>14 DEF AwaitReduce, Saved, Started
    <2>2. mem' \in [JobId -> Job] /\ disk' \in [JobId -> Job]
      BY <1>1, <2>1, WithTypes, SaveTypes
    <2>3. files' \subseteq InboxId /\ submitted' \subseteq InboxId
      BY <1>14 DEF AwaitReduce, queueStopFits, TypeOK, InboxId
    <2> QED
      BY <1>2, <1>14, <2>1, <2>2, <2>3 DEF AwaitReduce, Awaiting, TypeOK
  <1>15. CASE AwaitGone(j)
    BY <1>1, <1>2, <1>15, FinishTypes, FrameTypes DEF AwaitGone, Awaiting, TypeOK
  <1>16. CASE AwaitOrder(j)
    BY <1>1, <1>2, <1>16, FinishTypes, FrameTypes DEF AwaitOrder, Awaiting, TypeOK
  <1>17. CASE AwaitOverdue(j)
    BY <1>1, <1>2, <1>17, FinishTypes, FrameTypes DEF AwaitOverdue, Readable, Awaiting, TypeOK
  <1>18. CASE AwaitMore(j)
    BY <1>2, <1>18, FrameTypes DEF AwaitMore, Awaiting, TypeOK
  <1> QED
    BY <1>3, <1>4, <1>5, <1>6, <1>7, <1>8, <1>9, <1>10, <1>11, <1>12, <1>13, <1>14,
       <1>15, <1>16, <1>17, <1>18 DEF Drive

LEMMA TypeStep ==
    ASSUME RunnerAssumption, TypeOK, Control, [Next]_vars
    PROVE  TypeOK'
  <1> USE DEF storeVars, inboxVars, passVars, clockVars, historyVars
  <1>1. CASE Drain
    BY <1>1, DrainTypes
  <1>2. CASE Submission
    BY <1>2, SubmissionTypes
  <1>3. CASE EndPass
    BY <1>3 DEF EndPass, TypeOK, PC
  <1>4. ASSUME NEW j \in JobId, Drive(j) PROVE TypeOK'
    BY <1>4, DriveTypes
  <1>5. CASE World
    BY <1>5, WorldTypes
  <1>6. CASE Start
    BY <1>6 DEF Start, TypeOK, PC
  <1>7. CASE Crash
    BY <1>7, Records DEF Crash, Dead, TypeOK, PC, RunnerAssumption
  <1>8. CASE UNCHANGED vars
    BY <1>8 DEF vars, TypeOK
  <1> QED
    BY <1>1, <1>2, <1>3, <1>4, <1>5, <1>6, <1>7, <1>8 DEF Next, Loop

-----------------------------------------------------------------------------
(* The ledgers, through a step that rewrites the record of one job and     *)
(* flushes, or fails to.                                                  *)
LEMMA Rewrite ==
    ASSUME RunnerAssumption, TypeOK, Origins, Ledgers, Remembered,
           NEW j \in JobId, NEW jobs \in [JobId -> Job],
           pc # "down", pc' # "down", Present(mem, j),
           Saved(jobs),
           \A k \in JobId \ {j} : jobs[k] = mem[k],
           Present(jobs, j), jobs[j].inboxId = mem[j].inboxId, AnswersFor(jobs[j], j),
           UNCHANGED <<chain, nextJob, intentOf>>,
           files' \subseteq files \cup (InboxId \ submitted)
    PROVE  Ledgers' /\ Remembered'
  <1>1. mem' = jobs /\ disk' \in {disk, jobs}
    BY DEF Saved, Flushed, FlushThrew
  <1>2. \A k \in JobId : Present(jobs, k) <=> Present(mem, k)
    BY DEF Present
  <1>3. \A k \in JobId : (SentJob(k))' <=> SentJob(k)
    BY DEF SentJob
  <1>4. \A k \in JobId : Vouches(jobs, k)' /\ Vouches(disk, k)
    <2>1. ASSUME NEW k \in JobId PROVE Vouches(jobs, k)'
      <3>1. CASE k = j
        BY <1>2, <3>1 DEF Ledgers, Vouches, Present, AnswersFor
      <3>2. CASE k # j
        BY <1>2, <3>2 DEF Ledgers, Vouches, Present, AnswersFor
      <3> QED
        BY <3>1, <3>2
    <2> QED
      BY <2>1 DEF Ledgers
  <1>5. \A k \in JobId : Vouches(disk, k)'
    <2>1. CASE disk' = disk
      BY <1>4, <2>1 DEF Vouches, Present, AnswersFor
    <2>2. CASE disk' = jobs
      BY <1>4, <2>2 DEF Vouches, Present, AnswersFor
    <2> QED
      BY <1>1, <2>1, <2>2
  <1>6. \A k \in JobId : Alone(mem, k)' /\ Alone(disk, k)'
    <2>1. \A k \in JobId : Present(mem', k) <=> Present(mem, k)
      BY <1>1, <1>2
    <2>3. ASSUME NEW k \in JobId PROVE Alone(mem, k)'
      <3>1. Alone(mem, k)
        BY DEF Ledgers
      <3> QED
        BY <1>3, <2>1, <3>1 DEF Alone, Present
    <2>4. ASSUME NEW k \in JobId PROVE Alone(disk, k)'
      <3>1. CASE disk' = disk
        BY <1>3, <3>1 DEF Ledgers, Alone, Present
      <3>2. CASE disk' = jobs
        BY <1>1, <2>3, <3>2 DEF Alone
      <3> QED
        BY <1>1, <3>1, <3>2
    <2> QED
      BY <2>3, <2>4
  <1>7. \A k \in JobId : Present(disk, k) => Present(disk', k) /\ Present(mem', k)
    BY <1>1, <1>2 DEF Ledgers
  <1>8. \A k \in JobId : Present(disk', k) => Present(mem', k)
    BY <1>1, <1>2 DEF Ledgers
  <1>9. Ledgers'
    <2>1. \A k \in JobId : Vouches(mem, k)'
      BY <1>1, <1>4 DEF Vouches, Present, AnswersFor
    <2>2. \A k \in JobId : Present(disk, k)' => Present(mem, k)'
      BY <1>8 DEF Present
    <2> QED
      BY <1>5, <1>6, <2>1, <2>2 DEF Ledgers
  <1>10. Remembered'
    <2>1. ASSUME NoForgetting, NEW k \in JobId, (SentJob(k))', intentOf[k] \in files'
          PROVE  Present(disk, k)'
      <3>1. SentJob(k) /\ intentOf[k] \in submitted
        BY <1>3, <2>1 DEF Origins
      <3>2. intentOf[k] \in files
        BY <2>1, <3>1
      <3> QED
        BY <1>7, <2>1, <3>1, <3>2 DEF Remembered, Present
    <2> QED
      BY <2>1 DEF Remembered
  <1> QED
    BY <1>9, <1>10

(* A step that writes no record and sends nothing; what it may add to the  *)
(* inbox was never there.                                                 *)
LEMMA Quiet ==
    ASSUME TypeOK, Origins, Ledgers, Remembered,
           UNCHANGED <<mem, disk, chain, nextJob, intentOf>>,
           pc = "down" <=> pc' = "down",
           files' \subseteq files \cup (InboxId \ submitted)
    PROVE  Ledgers' /\ Remembered'
  <1>1. \A k \in JobId : (SentJob(k))' <=> SentJob(k)
    BY DEF SentJob
  <1>2. ASSUME NEW k \in JobId
        PROVE  /\ Vouches(disk, k)' /\ Vouches(mem, k)'
               /\ Alone(disk, k)' /\ Alone(mem, k)'
               /\ (pc # "down" /\ Present(disk, k))' => Present(mem, k)'
    <2>1. /\ Vouches(disk, k) /\ Vouches(mem, k)
          /\ Alone(disk, k) /\ Alone(mem, k)
          /\ pc # "down" /\ Present(disk, k) => Present(mem, k)
      BY DEF Ledgers
    <2>2. Vouches(disk, k)' /\ Vouches(mem, k)'
      BY <2>1 DEF Vouches, Present, AnswersFor
    <2>3. Alone(disk, k)' /\ Alone(mem, k)'
      BY <1>1, <2>1 DEF Alone, Present
    <2> QED
      BY <2>1, <2>2, <2>3 DEF Present
  <1>3. ASSUME NoForgetting, NEW k \in JobId, (SentJob(k))', intentOf[k] \in files'
        PROVE  Present(disk, k)'
    <2>1. SentJob(k) /\ intentOf[k] \in submitted
      BY <1>1, <1>3 DEF Origins
    <2> QED
      BY <1>3, <2>1 DEF Remembered, Present
  <1> QED
    BY <1>2, <1>3 DEF Ledgers, Remembered

(* A ledger with nothing in it.                                           *)
LEMMA EmptyLedger ==
    ASSUME NEW k \in JobId
    PROVE  ~Present(NoJobs, k) /\ Vouches(NoJobs, k) /\ Alone(NoJobs, k)
  BY DEF Present, Vouches, Alone, NoJobs, NoJob

(* Ingesting a file the ledger does not recognise: a new job, of a file    *)
(* that has no other and has had no transaction.                          *)
LEMMA IngestBooks ==
    ASSUME RunnerAssumption, TypeOK, Control, Books, NEW i \in InboxId, IngestNew(i)
    PROVE  Control' /\ Books'
  <1>n. PICK n : n = nextJob
    OBVIOUS
  <1>j. PICK jobs : jobs = [mem EXCEPT ![n] = NewJob(i)]
    OBVIOUS
  <1>0. /\ Origins /\ Ledgers /\ Remembered /\ Drained
        /\ n \in JobId /\ n \in Nat /\ pc = "drain" /\ pc' = "drain"
        /\ i \in toIngest /\ i \in files /\ i \in submitted /\ i # None /\ acking = None
    BY <1>n DEF Books, Origins, IngestNew, Ingesting, passVars, RunnerAssumption, JobId
  <1>1. /\ ~SentJob(n) /\ ~Present(mem, n) /\ ~Present(disk, n)
    BY <1>n, <1>0 DEF Origins, Ledgers, Vouches
  <1>2. ASSUME NEW k \in JobId, intentOf[k] = i
        PROVE  ~Present(mem, k) /\ ~Present(disk, k) /\ (NoForgetting => ~SentJob(k))
    <2>1. ~Present(mem, k)
      BY <1>0, <1>2 DEF IngestNew, Known, Ledgers, Vouches
    <2>2. ~Present(disk, k)
      BY <1>0, <2>1 DEF Ledgers
    <2> QED
      BY <1>0, <1>2, <2>1, <2>2 DEF Remembered
  <1>3. /\ mem' = jobs /\ disk' \in {disk, jobs} /\ nextJob' = n + 1
        /\ intentOf' = [intentOf EXCEPT ![n] = i]
        /\ UNCHANGED <<files, chain, submitted>>
        /\ toIngest' = toIngest \ {i} /\ acking' \in {i, None}
    BY <1>n, <1>j, <1>0 DEF IngestNew, Ingesting, Flushed, FlushThrew
  <1>4. /\ jobs[n] = NewJob(i) /\ Present(jobs, n)
        /\ \A k \in JobId \ {n} : jobs[k] = mem[k]
        /\ intentOf'[n] = i /\ \A k \in JobId \ {n} : intentOf'[k] = intentOf[k]
    BY <1>j, <1>0, <1>3 DEF TypeOK, Present, NewJob
  <1>5. \A k \in JobId : (SentJob(k))' <=> SentJob(k)
    BY <1>3 DEF SentJob
  <1>6. \A k \in JobId : Vouches(jobs, k)' /\ Alone(jobs, k)'
    <2>1. ASSUME NEW k \in JobId PROVE Vouches(jobs, k)'
      <3>1. CASE k = n
        <4>1. AnswersFor(jobs[n], n)'
          BY <1>1, <1>3 DEF AnswersFor, SentJob
        <4> QED
          BY <1>0, <1>3, <1>4, <3>1, <4>1 DEF Vouches, NewJob
      <3>2. CASE k # n
        <4>1. Vouches(mem, k)
          BY <1>0 DEF Ledgers
        <4> QED
          BY <1>0, <1>n, <1>3, <1>4, <3>2, <4>1 DEF Vouches, Present, AnswersFor, JobId
      <3> QED
        BY <3>1, <3>2
    <2>2. ASSUME NoForgetting, NEW k \in JobId, NEW l \in JobId \ {k}, intentOf'[l] = intentOf'[k],
                 SentJob(k) \/ Present(jobs, k)
          PROVE  ~Present(jobs, l)
      <3>1. CASE k = n
        BY <1>2, <1>4, <2>2, <3>1 DEF Present
      <3>2. CASE l = n
        BY <1>2, <1>4, <2>2, <3>2 DEF Present
      <3>3. CASE k # n /\ l # n
        <4>1. Alone(mem, k)
          BY <1>0 DEF Ledgers
        <4> QED
          BY <1>4, <2>2, <3>3, <4>1 DEF Alone, Present
      <3> QED
        BY <3>1, <3>2, <3>3
    <2> QED
      BY <1>5, <2>1, <2>2 DEF Alone
  <1>7. \A k \in JobId : disk' = disk => Vouches(disk, k)' /\ Alone(disk, k)'
    <2>1. ASSUME NEW k \in JobId, disk' = disk PROVE Vouches(disk, k)'
      <3>1. Vouches(disk, k)
        BY <1>0 DEF Ledgers
      <3> QED
        BY <1>n, <1>0, <1>1, <1>3, <1>4, <2>1, <3>1 DEF Vouches, Present, AnswersFor, JobId
    <2>2. ASSUME NoForgetting, NEW k \in JobId, NEW l \in JobId \ {k}, intentOf'[l] = intentOf'[k],
                 SentJob(k) \/ Present(disk, k)
          PROVE  ~Present(disk, l)
      <3>1. Alone(disk, k)
        BY <1>0 DEF Ledgers
      <3> QED
        BY <1>1, <1>4, <2>2, <3>1 DEF Alone
    <2> QED
      BY <1>5, <2>1, <2>2 DEF Alone, Present
  <1>8. Ledgers'
    <2>1. \A k \in JobId : Vouches(mem, k)' /\ Alone(mem, k)'
      BY <1>3, <1>6 DEF Vouches, Alone, Present, AnswersFor
    <2>2. \A k \in JobId : disk' = jobs => Vouches(disk, k)' /\ Alone(disk, k)'
      BY <1>3, <2>1 DEF Vouches, Alone, Present, AnswersFor
    <2>3. \A k \in JobId : Present(disk, k)' => Present(mem, k)'
      BY <1>0, <1>3, <1>4 DEF Ledgers, Present
    <2> QED
      BY <1>3, <1>7, <2>1, <2>2, <2>3 DEF Ledgers
  <1>9. Remembered'
    <2>1. ASSUME NoForgetting, NEW k \in JobId, SentJob(k), intentOf'[k] \in files
          PROVE  Present(disk, k)'
      <3>1. k # n /\ intentOf[k] \in files
        BY <1>1, <1>4, <2>1
      <3>2. Present(disk, k) /\ Present(mem, k)
        BY <1>0, <2>1, <3>1 DEF Remembered, Ledgers
      <3> QED
        BY <1>3, <1>4, <3>1, <3>2 DEF Present
    <2> QED
      BY <1>3, <1>5, <2>1 DEF Remembered
  <1>10. Origins'
    BY <1>n, <1>0, <1>1, <1>3, <1>4, <1>5 DEF Origins, JobId
  <1>11. Drained'
    <2>1. ASSUME ~AckFaults, NEW k \in JobId, jobs[k].state \in Terminal,
                 intentOf'[k] \in files
          PROVE  intentOf'[k] \in toIngest \ {i}
      <3>1. k # n /\ mem[k].state \in Terminal /\ intentOf'[k] = intentOf[k]
        BY <1>4, <2>1 DEF NewJob, Terminal
      <3>2. Present(mem, k)
        BY <3>1 DEF Present, Terminal
      <3>3. intentOf[k] # i
        BY <1>2, <3>2
      <3>4. intentOf[k] \in toIngest \cup {acking} /\ intentOf[k] # None
        BY <1>0, <2>1, <3>1 DEF Drained, TypeOK, RunnerAssumption
      <3> QED
        BY <1>0, <3>1, <3>3, <3>4
    <2> QED
      BY <1>3, <2>1 DEF Drained
  <1>12. Control'
    BY <1>0 DEF Control
  <1> QED
    BY <1>8, <1>9, <1>10, <1>11, <1>12 DEF Books

(* Pruning forgets only jobs whose inbox file is gone.                    *)
LEMMA PruneForgets ==
    ASSUME RunnerAssumption, NoForgetting, TypeOK, Books,
           pc = "drain", toIngest = {}, acking = None, NEW j \in JobId, Prunable(j)
    PROVE  intentOf[j] \notin files
  <1>1. <<"retain", j>> \in elapsed /\ mem[j].state \in Terminal
    BY DEF Prunable
  <1>2. ~AckFaults
    BY <1>1 DEF NoForgetting, TypeOK
  <1> QED
    BY <1>1, <1>2 DEF Books, Drained, TypeOK, RunnerAssumption

LEMMA KeptLedger ==
    ASSUME TypeOK, Books, NEW k \in JobId
    PROVE  /\ Vouches(Kept, k) /\ Alone(Kept, k)
           /\ Present(Kept, k) <=> Present(mem, k) /\ ~Prunable(k)
  <1>1. \A l \in JobId : Present(Kept, l) <=> Present(mem, l) /\ ~Prunable(l)
    BY DEF Kept, Present, NoJob
  <1>2. Vouches(mem, k) /\ Alone(mem, k)
    BY DEF Books, Ledgers
  <1>3. ~Prunable(k) => Kept[k] = mem[k]
    BY DEF Kept
  <1> QED
    BY <1>1, <1>2, <1>3 DEF Vouches, Alone

(* Replacing the ledgers by what is kept, in a process that goes on or     *)
(* one that does not.                                                     *)
LEMMA PruneBooks ==
    ASSUME RunnerAssumption, TypeOK, Control, Books,
           pc = "drain", toIngest = {}, acking = None,
           UNCHANGED <<files, toIngest, acking, chain, submitted, nextJob, intentOf>>,
           disk' \in {disk, Kept},
           \/ mem' = Kept /\ pc' = "pass" /\ disk' = Kept
           \/ mem' = NoJobs /\ pc' = "down"
    PROVE  Control' /\ Books'
  <1>0. Origins /\ Ledgers /\ Remembered
    BY DEF Books
  <1>k. PICK kept : kept = Kept
    OBVIOUS
  <1>1. \A k \in JobId : (SentJob(k))' <=> SentJob(k)
    BY DEF SentJob
  <1>2. \A k \in JobId : /\ Vouches(disk, k) /\ Alone(disk, k)
                        /\ Vouches(kept, k) /\ Alone(kept, k)
                        /\ Vouches(NoJobs, k) /\ Alone(NoJobs, k)
    BY <1>0, <1>k, KeptLedger, EmptyLedger DEF Ledgers
  <1>3. \A k \in JobId : Vouches(disk, k)' /\ Alone(disk, k)'
    BY <1>k, <1>1, <1>2 DEF Vouches, Alone, Present, AnswersFor
  <1>4. \A k \in JobId : Vouches(mem, k)' /\ Alone(mem, k)'
    BY <1>k, <1>1, <1>2 DEF Vouches, Alone, Present, AnswersFor
  <1>5. Ledgers'
    BY <1>3, <1>4 DEF Ledgers
  <1>6. Remembered'
    <2>1. ASSUME NoForgetting, NEW k \in JobId, SentJob(k), intentOf[k] \in files
          PROVE  Present(disk, k) /\ Present(Kept, k)
      <3>1. Present(disk, k)
        BY <1>0, <2>1 DEF Remembered
      <3>2. Present(mem, k)
        BY <1>0, <3>1 DEF Ledgers
      <3> QED
        BY <2>1, <3>1, <3>2, PruneForgets, KeptLedger
    <2> QED
      BY <1>1, <2>1 DEF Remembered, Present
  <1>7. Origins' /\ Drained' /\ Control'
    BY <1>0, <1>1 DEF Origins, Drained, Control
  <1> QED
    BY <1>5, <1>6, <1>7 DEF Books

LEMMA DrainBooks ==
    ASSUME RunnerAssumption, TypeOK, Control, Books, Drain
    PROVE  Control' /\ Books'
  <1> USE DEF storeVars, inboxVars, passVars, clockVars, historyVars
  <1>0. /\ Origins /\ Ledgers /\ Remembered /\ Drained
        /\ None \notin InboxId /\ files \subseteq InboxId
    BY DEF Books, RunnerAssumption, TypeOK
  <1>1. CASE BeginTick
    <2>1. Ledgers' /\ Remembered'
      BY <1>0, <1>1, Quiet DEF BeginTick
    <2>2. Control' /\ Origins' /\ Drained'
      BY <1>0, <1>1 DEF BeginTick, Control, Origins, Drained, SentJob
    <2> QED
      BY <2>1, <2>2 DEF Books
  <1>2. CASE Ack
    <2>1. Ledgers' /\ Remembered'
      BY <1>0, <1>2, Quiet DEF Ack
    <2>2. Control' /\ Origins' /\ Drained'
      BY <1>0, <1>2 DEF Ack, Control, Origins, Drained, SentJob
    <2> QED
      BY <2>1, <2>2 DEF Books
  <1>3. ASSUME NEW i \in InboxId, IngestKnown(i) \/ IngestRefused(i)
        PROVE  Control' /\ Books'
    <2>1. /\ Ingesting(i) /\ acking' = i
          /\ UNCHANGED <<mem, disk, chain, nextJob, intentOf, pc, files, submitted>>
      BY <1>3 DEF IngestKnown, IngestRefused
    <2>2. Ledgers' /\ Remembered'
      BY <1>0, <2>1, Quiet
    <2>3. Control' /\ Origins' /\ Drained'
      BY <1>0, <2>1 DEF Ingesting, Control, Origins, Drained, SentJob
    <2> QED
      BY <2>2, <2>3 DEF Books
  <1>4. ASSUME NEW i \in InboxId, IngestNew(i) PROVE Control' /\ Books'
    BY <1>4, IngestBooks
  <1>5. CASE PruneAndSnapshot
    <2>1. CASE Kept = mem
      <3>1. Ledgers' /\ Remembered'
        BY <1>0, <1>5, <2>1, Quiet DEF PruneAndSnapshot
      <3>2. Control' /\ Origins' /\ Drained'
        BY <1>0, <1>5, <2>1 DEF PruneAndSnapshot, Control, Origins, Drained, SentJob
      <3> QED
        BY <3>1, <3>2 DEF Books
    <2>2. CASE Kept # mem
      BY <1>5, <2>2, PruneBooks DEF PruneAndSnapshot, Flushed
    <2> QED
      BY <2>1, <2>2
  <1>6. CASE PruneThrew
    BY <1>6, PruneBooks DEF PruneThrew, Dead
  <1> QED
    BY <1>1, <1>2, <1>3, <1>4, <1>5, <1>6 DEF Drain

(* Most of the world touches no ledger and sends nothing.                 *)
LEMMA WorldBooks ==
    ASSUME RunnerAssumption, TypeOK, Control, Books, World
    PROVE  Control' /\ Books'
  <1> USE DEF storeVars, inboxVars, passVars, clockVars, historyVars
  <1>0. Origins /\ Ledgers /\ Remembered /\ Drained
    BY DEF Books
  <1>1. ASSUME NEW i \in Queued, Submit(i) PROVE Control' /\ Books'
    <2>1. Ledgers' /\ Remembered'
      BY <1>0, <1>1, Quiet DEF Submit, InboxId
    <2>2. Control' /\ Origins'
      BY <1>0, <1>1 DEF Submit, Control, Origins, SentJob
    <2>3. Drained'
      <3>1. ASSUME NEW j \in JobId, mem[j].state \in Terminal PROVE intentOf[j] \in submitted
        BY <1>0, <3>1 DEF Ledgers, Vouches, Origins, Present, Terminal
      <3> QED
        BY <1>0, <1>1, <3>1 DEF Submit, Drained
    <2> QED
      BY <2>1, <2>2, <2>3 DEF Books
  <1>2. ASSUME NEW d \in JobId \X Attempt, Include(d) \/ Keeper(d)
        PROVE  Control' /\ Books'
    <2>1. /\ UNCHANGED <<mem, disk, pc, cur, files, toIngest, acking, submitted, nextJob, intentOf>>
          /\ chain[d] \in {"inflight", "executed"} /\ chain'[d] # "unsent"
          /\ \A e \in JobId \X Attempt : e # d => chain'[e] = chain[e]
      BY <1>2 DEF Include, Keeper, TypeOK
    <2>2. \A k \in JobId : (SentJob(k))' <=> SentJob(k)
      BY <2>1 DEF SentJob
    <2>3. ASSUME NEW k \in JobId PROVE Vouches(disk, k)' /\ Vouches(mem, k)'
      <3>1. Vouches(disk, k) /\ Vouches(mem, k)
        BY <1>0 DEF Ledgers
      <3> QED
        BY <2>1, <3>1 DEF Vouches, Present, AnswersFor
    <2>4. ASSUME NEW k \in JobId PROVE Alone(disk, k)' /\ Alone(mem, k)'
      <3>1. Alone(disk, k) /\ Alone(mem, k)
        BY <1>0 DEF Ledgers
      <3> QED
        BY <2>1, <2>2, <3>1 DEF Alone, Present
    <2>5. Ledgers'
      BY <1>0, <2>1, <2>3, <2>4 DEF Ledgers, Present
    <2>6. Remembered' /\ Origins' /\ Drained' /\ Control'
      BY <1>0, <2>1, <2>2 DEF Remembered, Origins, Drained, Control, Present
    <2> QED
      BY <2>5, <2>6 DEF Books
  <1>3. CASE UNCHANGED <<mem, disk, pc, cur, files, toIngest, acking, chain, submitted,
                         nextJob, intentOf>>
    <2>1. Ledgers' /\ Remembered'
      BY <1>0, <1>3, Quiet
    <2>2. Control' /\ Origins' /\ Drained'
      BY <1>0, <1>3 DEF Control, Origins, Drained, SentJob
    <2> QED
      BY <2>1, <2>2 DEF Books
  <1>4. ASSUME NEW clock \in Clocks, NEW j \in JobId, Elapse(clock, j)
        PROVE  Control' /\ Books'
    BY <1>3, <1>4 DEF Elapse
  <1>5. ASSUME NEW i \in InboxId, Open(i) \/ Close(i) PROVE Control' /\ Books'
    BY <1>3, <1>5 DEF Open, Close
  <1>6. ASSUME NEW j \in JobId, Bury(j) PROVE Control' /\ Books'
    BY <1>3, <1>6 DEF Bury
  <1> QED
    BY <1>1, <1>2, <1>4, <1>5, <1>6 DEF World

(* Starting reads the disk back; dying leaves it as it was.               *)
LEMMA LifeBooks ==
    ASSUME RunnerAssumption, TypeOK, Control, Books, Start \/ Crash
    PROVE  Control' /\ Books'
  <1> USE DEF storeVars, inboxVars, passVars, clockVars, historyVars
  <1>0. Origins /\ Ledgers /\ Remembered
    BY DEF Books
  <1>1. /\ UNCHANGED <<disk, files, chain, submitted, nextJob, intentOf>>
        /\ toIngest' = {} /\ acking' = None
        /\ \/ pc' = "idle" /\ mem' = disk
           \/ pc' = "down" /\ mem' = NoJobs
    <2>1. CASE Start
      BY <2>1 DEF Start, Control
    <2>2. CASE Crash
      BY <2>2 DEF Crash, Dead
    <2> QED
      BY <2>1, <2>2
  <1>2. \A k \in JobId : (SentJob(k))' <=> SentJob(k)
    BY <1>1 DEF SentJob
  <1>3. ASSUME NEW k \in JobId
        PROVE  /\ Vouches(disk, k)' /\ Alone(disk, k)'
               /\ Vouches(mem, k)' /\ Alone(mem, k)'
    <2>1. /\ Vouches(disk, k) /\ Alone(disk, k)
          /\ Vouches(NoJobs, k) /\ Alone(NoJobs, k)
      BY <1>0, EmptyLedger DEF Ledgers
    <2> QED
      BY <1>1, <1>2, <2>1 DEF Vouches, Alone, Present, AnswersFor
  <1>4. Ledgers'
    BY <1>1, <1>3 DEF Ledgers, Present
  <1>5. Remembered' /\ Origins' /\ Drained' /\ Control'
    BY <1>0, <1>1, <1>2, RunnerAssumption
    DEF Remembered, Origins, Drained, Control, Present, TypeOK, RunnerAssumption
  <1> QED
    BY <1>4, <1>5 DEF Books

(* What every step of a drive leaves to the other conjuncts.              *)
LEMMA FrameBooks ==
    ASSUME TypeOK, Books, DriveFrame
    PROVE  /\ UNCHANGED <<files, toIngest, acking, chain, submitted, nextJob, intentOf>>
           /\ Origins'
  BY DEF DriveFrame, inboxVars, historyVars, Books, Origins, SentJob

(* A job that is queued, or has no digest, has no transaction.            *)
LEMMA NothingSent ==
    ASSUME RunnerAssumption, TypeOK, Books, NEW j \in JobId, Present(mem, j),
           mem[j].state = "queued" \/ mem[j].digest = 0
    PROVE  ~SentJob(j)
  <1>1. AnswersFor(mem[j], j)
    BY DEF Books, Ledgers, Vouches
  <1>2. 0 \notin Attempt
    BY DEF Attempt
  <1> QED
    BY <1>1, <1>2 DEF AnswersFor, SentJob

(* A step of a drive that rewrites the record of the job it is about.     *)
LEMMA RecordBooks ==
    ASSUME RunnerAssumption, TypeOK, Books, DriveFrame,
           pc \notin {"down", "drain"}, pc' \notin {"down", "drain"},
           NEW j \in JobId, NEW jobs \in [JobId -> Job], Present(mem, j),
           Saved(jobs),
           \A k \in JobId \ {j} : jobs[k] = mem[k],
           Present(jobs, j), jobs[j].inboxId = mem[j].inboxId, AnswersFor(jobs[j], j)
    PROVE  Books'
  <1>1. Origins /\ Ledgers /\ Remembered /\ Origins'
        /\ UNCHANGED <<files, chain, nextJob, intentOf>>
    BY FrameBooks DEF Books
  <1>2. Ledgers' /\ Remembered'
    BY <1>1, Rewrite
  <1>3. Drained'
    BY DEF Drained
  <1> QED
    BY <1>1, <1>2, <1>3 DEF Books

(* A step of a drive that only moves the job to another state.            *)
LEMMA StateBooks ==
    ASSUME RunnerAssumption, TypeOK, Books, DriveFrame,
           pc \notin {"down", "drain"}, pc' \notin {"down", "drain"},
           NEW j \in JobId, Present(mem, j),
           NEW state \in JobState, Saved(With(j, state)),
           state \in {"queued", "expired"} => ~SentJob(j),
           state = "failed" =>
               \A k \in Attempt : chain[<<j, k>>] \in {"unsent", "aborted"}
    PROVE  Books'
  <1>1. /\ With(j, state) \in [JobId -> Job]
        /\ With(j, state)[j] = [mem[j] EXCEPT !.state = state]
        /\ \A k \in JobId \ {j} : With(j, state)[k] = mem[k]
    BY WithTypes DEF With, TypeOK
  <1>2. mem[j] \in Job
    BY DEF TypeOK
  <1>3. /\ With(j, state)[j].state = state
        /\ With(j, state)[j].inboxId = mem[j].inboxId
        /\ With(j, state)[j].digest = mem[j].digest
    BY <1>1, <1>2 DEF Job
  <1>4. Present(With(j, state), j)
    BY <1>3 DEF Present, JobState, Pending, Terminal
  <1>5. AnswersFor(With(j, state)[j], j)
    BY <1>3 DEF Books, Ledgers, Vouches, AnswersFor, SentJob
  <1> QED
    BY <1>1, <1>3, <1>4, <1>5, RecordBooks

(* submit, from a queued job.                                             *)
LEMMA SubmitBooks ==
    ASSUME RunnerAssumption, TypeOK, Control, Books, DriveFrame, pc \in {"pass", "fit"},
           NEW j \in JobId, mem[j].state = "queued", submit(j)
    PROVE  Control' /\ Books'
  <1>1. Present(mem, j) /\ ~SentJob(j)
    BY NothingSent DEF Present
  <1>2. toIngest' = {} /\ acking' = None
    BY FrameBooks DEF Control
  <1>3. CASE GiveUp(j)
    <2>1. Saved(With(j, "failed")) /\ pc' = "pass" /\ "failed" \in JobState
      BY <1>3 DEF GiveUp, Finish, JobState, Terminal
    <2>2. Books'
      BY <1>1, <2>1, StateBooks DEF SentJob
    <2> QED
      BY <1>2, <2>1, <2>2 DEF Control
  <1>4. CASE BeginAttempt(j)
    <2>j. PICK jobs : jobs = [mem EXCEPT ![j].state = "submitting",
                                         ![j].attempts = mem[j].attempts + 1,
                                         ![j].digest = 0]
      OBVIOUS
    <2>1. mem[j] \in Job /\ mem[j].attempts \in Nat
      BY DEF TypeOK, Job, RunnerAssumption
    <2>2. /\ jobs[j] = [mem[j] EXCEPT !.state = "submitting",
                                      !.attempts = mem[j].attempts + 1, !.digest = 0]
          /\ \A k \in JobId \ {j} : jobs[k] = mem[k]
      BY <2>j, <2>1 DEF TypeOK
    <2>3. /\ jobs[j].state = "submitting" /\ jobs[j].digest = 0 /\ jobs[j].attempts # 0
          /\ jobs[j].inboxId = mem[j].inboxId
      BY <2>1, <2>2 DEF Job
    <2>4. jobs \in [JobId -> Job]
      BY <1>4, <2>j DEF BeginAttempt, TypeOK, Job, JobState, Pending, RunnerAssumption
    <2>5. /\ Saved(jobs) /\ mem' = jobs
          /\ \/ pc' = "building" /\ cur' = j
             \/ pc' = "pass"
      BY <1>4, <2>j DEF BeginAttempt, Saved, Flushed, FlushThrew
    <2>6. Present(jobs, j) /\ AnswersFor(jobs[j], j)
      BY <1>1, <2>3 DEF Present, AnswersFor, SentJob
    <2>7. Books'
      BY <1>1, <2>2, <2>3, <2>4, <2>5, <2>6, RecordBooks
    <2> QED
      BY <1>2, <2>3, <2>5, <2>7 DEF Control
  <1> QED
    BY <1>3, <1>4 DEF submit

(* Sending: the one step that gives a job a transaction.                  *)
LEMMA SendBooks ==
    ASSUME RunnerAssumption, TypeOK, Control, Books, Send
    PROVE  Control' /\ Books'
  <1> USE DEF storeVars, inboxVars, passVars, clockVars, historyVars
  <1>0. Origins /\ Ledgers /\ Remembered
    BY DEF Books
  <1>k. PICK k : k = mem[cur].digest
    OBVIOUS
  <1>1. /\ cur \in JobId /\ mem[cur].state = "submitting" /\ disk[cur] = mem[cur]
        /\ ~SentJob(cur) /\ Present(mem, cur) /\ Present(disk, cur)
        /\ toIngest = {} /\ acking = None
    BY DEF Send, Control, Present
  <1>2. k \in Attempt
    <2>1. mem[cur] \in Job
      BY <1>1 DEF TypeOK
    <2> QED
      BY <1>k, <2>1 DEF Send, Control, Job, Attempt, RunnerAssumption
  <1>3. /\ UNCHANGED <<mem, disk, cur, files, toIngest, acking, submitted, nextJob, intentOf>>
        /\ pc' = "answer"
        /\ chain'[<<cur, k>>] = "inflight"
        /\ \A e \in JobId \X Attempt : e # <<cur, k>> => chain'[e] = chain[e]
    BY <1>k, <1>1, <1>2 DEF Send, Tx, TypeOK
  <1>4. \A j \in JobId \ {cur} : (SentJob(j))' <=> SentJob(j)
    BY <1>3 DEF SentJob
  <1>5. ASSUME NEW j \in JobId PROVE Vouches(disk, j)' /\ Vouches(mem, j)'
    <2>1. Vouches(disk, j) /\ Vouches(mem, j)
      BY <1>0 DEF Ledgers
    <2>2. CASE j = cur
      BY <1>k, <1>1, <1>3, <2>1, <2>2 DEF Vouches, Present, AnswersFor, SentJob
    <2>3. CASE j # cur
      BY <1>3, <2>1, <2>3 DEF Vouches, Present, AnswersFor
    <2> QED
      BY <2>2, <2>3
  <1>6. ASSUME NEW j \in JobId PROVE Alone(disk, j)' /\ Alone(mem, j)'
    <2>1. Alone(disk, j) /\ Alone(mem, j)
      BY <1>0 DEF Ledgers
    <2> QED
      BY <1>1, <1>3, <1>4, <2>1 DEF Alone, Present
  <1>7. Ledgers'
    BY <1>0, <1>3, <1>5, <1>6 DEF Ledgers, Present, Send
  <1>8. Remembered'
    BY <1>0, <1>1, <1>3, <1>4 DEF Remembered, Present
  <1>9. Origins'
    <2>1. cur < nextJob
      BY <1>0, <1>1 DEF Ledgers, Vouches
    <2> QED
      BY <1>0, <1>3, <1>4, <2>1 DEF Origins
  <1>10. Control' /\ Drained'
    BY <1>1, <1>3 DEF Control, Drained, Send
  <1> QED
    BY <1>7, <1>8, <1>9, <1>10 DEF Books

(* The steps of a submission.                                             *)
LEMMA SubmissionBooks ==
    ASSUME RunnerAssumption, TypeOK, Control, Books, Submission
    PROVE  Control' /\ Books'
  <1> USE DEF storeVars, inboxVars, passVars, clockVars, historyVars
  <1>0. Origins /\ Ledgers /\ Remembered
    BY DEF Books
  <1>1. pc \notin {"down", "drain"} /\ cur \in JobId /\ Present(mem, cur)
        /\ toIngest = {} /\ acking = None
    BY DEF Control, Submission, FitReady, FitPointless, FitUnread, FitUnfilled,
           BuildRefused, BuildFailed, onSubmitting, Send, Unsure, Sent, Present
  <1>2. {"queued", "submitted", "failed", "cancelled"} \subseteq JobState
    BY DEF JobState, Pending, Terminal
  <1>3. ASSUME DriveFrame, pc' = "pass" PROVE Control'
    BY <1>1, <1>3, FrameBooks DEF Control
  <1>4. CASE FitReady
    BY <1>1, <1>4, SubmitBooks DEF FitReady, Control
  <1>5. CASE FitPointless
    <2>1. Books'
      BY <1>1, <1>2, <1>5, StateBooks DEF FitPointless, Finish
    <2> QED
      BY <1>3, <1>5, <2>1 DEF FitPointless
  <1>6. CASE FitUnread \/ Unsure
    <2>1. DriveFrame /\ UNCHANGED storeVars /\ pc' = "pass"
      BY <1>6 DEF FitUnread, Unsure, Returned
    <2>2. Ledgers' /\ Remembered'
      BY <1>0, <1>1, <2>1, Quiet, FrameBooks
    <2> QED
      BY <1>3, <2>1, <2>2, FrameBooks DEF Books, Drained
  <1>7. CASE FitUnfilled
    <2>1. AnswersFor(mem[cur], cur) /\ mem \in [JobId -> Job]
      BY <1>0, <1>1 DEF Ledgers, Vouches, TypeOK
    <2>2. Saved(mem) /\ pc' = "pass"
          /\ UNCHANGED <<files, toIngest, acking, chain, submitted, nextJob, intentOf>>
      BY <1>7 DEF FitUnfilled
    <2>3. Ledgers' /\ Remembered'
      BY <1>0, <1>1, <2>1, <2>2, Rewrite
    <2> QED
      BY <1>0, <1>1, <2>2, <2>3 DEF Books, Control, Origins, Drained, SentJob
  <1>8. CASE BuildRefused
    <2>1. ~SentJob(cur)
      BY <1>1, <1>8, NothingSent DEF BuildRefused, Control
    <2>2. Books'
      BY <1>1, <1>2, <1>8, <2>1, StateBooks DEF BuildRefused, Finish, Returned, SentJob
    <2> QED
      BY <1>3, <1>8, <2>2 DEF BuildRefused, Returned
  <1>9. CASE BuildFailed
    <2>1. ~SentJob(cur)
      BY <1>1, <1>9, NothingSent DEF BuildFailed, Control
    <2>2. Books'
      BY <1>1, <1>2, <1>9, <2>1, StateBooks DEF BuildFailed, Returned
    <2> QED
      BY <1>3, <1>9, <2>2 DEF BuildFailed, Returned
  <1>10. CASE onSubmitting
    <2>j. PICK jobs : jobs = [mem EXCEPT ![cur].digest = mem[cur].attempts]
      OBVIOUS
    <2>0. mem[cur] \in Job /\ mem[cur].attempts \in 0..MaxAttempts
      BY <1>1 DEF TypeOK, Job
    <2>1. jobs \in [JobId -> Job]
      BY <2>j, <2>0 DEF TypeOK, Job
    <2>2. /\ jobs[cur] = [mem[cur] EXCEPT !.digest = mem[cur].attempts]
          /\ \A k \in JobId \ {cur} : jobs[k] = mem[k]
      BY <1>1, <2>j DEF TypeOK
    <2>3. /\ jobs[cur].state = "submitting" /\ jobs[cur].digest = mem[cur].attempts
          /\ jobs[cur].inboxId = mem[cur].inboxId /\ mem[cur].attempts # 0
      BY <1>10, <2>0, <2>2 DEF onSubmitting, Control, Job
    <2>4. ~SentJob(cur)
      BY <1>1, <1>10, NothingSent DEF onSubmitting, Control
    <2>5. Present(jobs, cur) /\ AnswersFor(jobs[cur], cur)
      BY <2>3, <2>4 DEF Present, AnswersFor, SentJob
    <2>6. /\ Saved(jobs) /\ DriveFrame
          /\ \/ mem' = jobs /\ disk' = jobs /\ pc' = "sending" /\ cur' = cur
             \/ pc' = "pass"
      BY <1>10, <2>j DEF onSubmitting, Saved, Flushed, Returned
    <2>7. Books'
      BY <1>1, <2>1, <2>2, <2>3, <2>5, <2>6, RecordBooks
    <2>8. (SentJob(cur))' <=> \E k \in Attempt : chain[<<cur', k>>] # "unsent"
      BY <2>6, FrameBooks DEF SentJob
    <2>9. ASSUME pc' = "sending" PROVE Control'
      BY <1>1, <2>3, <2>4, <2>6, <2>8, <2>9, FrameBooks DEF Control, SentJob
    <2> QED
      BY <1>3, <2>6, <2>7, <2>9
  <1>11. CASE Send
    BY <1>11, SendBooks
  <1>12. CASE Sent
    <2>1. Books'
      BY <1>1, <1>2, <1>12, StateBooks DEF Sent, Returned
    <2> QED
      BY <1>3, <1>12, <2>1 DEF Sent, Returned
  <1> QED
    BY <1>4, <1>5, <1>6, <1>7, <1>8, <1>9, <1>10, <1>11, <1>12 DEF Submission

(* The steps of a pass that reach a job of the snapshot.                  *)
LEMMA DriveBooks ==
    ASSUME RunnerAssumption, TypeOK, Control, Books, NEW j \in JobId, Drive(j)
    PROVE  Control' /\ Books'
  <1> USE DEF storeVars, inboxVars, passVars, clockVars, historyVars
  <1>0. Origins /\ Ledgers /\ Remembered
    BY DEF Books
  <1>1. /\ pc = "pass" /\ toIngest = {} /\ acking = None
        /\ mem[j].state \in Pending \/ UNCHANGED storeVars
    BY DEF Control, Drive, Held, Expire, NotYet, AskPosition, DriveSubmit, DriveQueued,
           ResolveUnsigned, ResolveLanded, ResolveAborted, ResolveNeverLanded,
           ResolveUnknown, Resolving, AwaitOnchain, AwaitReduce, AwaitGone, AwaitOrder,
           AwaitOverdue, AwaitMore, Readable, Awaiting, Reached, Pending
  <1>2. {"queued", "submitted", "failed", "cancelled", "filled", "unresolved", "expired"}
          \subseteq JobState
    BY DEF JobState, Pending, Terminal
  <1>3. mem[j].state \in Pending => Present(mem, j)
    BY DEF Present, Pending
  <1>4. ASSUME DriveFrame, pc' = "pass" PROVE Control'
    BY <1>1, <1>4, FrameBooks DEF Control
  <1>5. CASE Held(j) \/ NotYet(j) \/ AskPosition(j) \/ ResolveUnknown(j)
    <2>1. /\ UNCHANGED <<mem, disk, files, toIngest, acking, chain, submitted, nextJob, intentOf>>
          /\ \/ pc' = "pass"
             \/ pc' = "fit" /\ cur' = j /\ mem[j].state = "queued"
      BY <1>1, <1>5 DEF Held, NotYet, AskPosition, ResolveUnknown, Resolving, DriveQueued,
         Reached, DriveFrame
    <2>2. Ledgers' /\ Remembered'
      BY <1>0, <1>1, <2>1, Quiet
    <2>3. Origins' /\ Control' /\ Drained'
      BY <1>0, <1>1, <2>1 DEF Origins, Control, Drained, SentJob
    <2> QED
      BY <2>2, <2>3 DEF Books
  <1>6. CASE Expire(j)
    <2>1. Saved(With(j, "expired")) /\ pc' = "pass" /\ DriveFrame /\ mem[j].state = "queued"
      BY <1>1, <1>6 DEF Expire, DriveQueued, Finish
    <2>2. Present(mem, j) /\ ~SentJob(j)
      BY <1>3, <2>1, NothingSent DEF Pending
    <2> QED
      BY <1>1, <1>2, <1>4, <2>1, <2>2, StateBooks
  <1>7. CASE DriveSubmit(j)
    BY <1>1, <1>7, SubmitBooks DEF DriveSubmit, DriveQueued
  <1>8. CASE ResolveUnsigned(j)
    <2>1. Saved(With(j, "queued")) /\ pc' = "pass" /\ DriveFrame /\ mem[j].state = "submitting"
      BY <1>1, <1>8 DEF ResolveUnsigned, Resolving
    <2>2. Present(mem, j) /\ ~SentJob(j)
      BY <1>3, <1>8, <2>1, NothingSent DEF ResolveUnsigned, Pending
    <2> QED
      BY <1>1, <1>2, <1>4, <2>1, <2>2, StateBooks
  <1>9. CASE ResolveAborted(j)
    <2>1. Saved(With(j, "failed")) /\ pc' = "pass" /\ DriveFrame /\ mem[j].state = "submitting"
          /\ chain[<<j, mem[j].digest>>] = "aborted"
      BY <1>1, <1>9 DEF ResolveAborted, Resolving, Finish, Tx
    <2>2. Present(mem, j)
      BY <1>3, <2>1 DEF Pending
    <2>3. ASSUME NEW k \in Attempt PROVE chain[<<j, k>>] \in {"unsent", "aborted"}
      BY <1>0, <2>1, <2>2 DEF Ledgers, Vouches, AnswersFor
    <2> QED
      BY <1>1, <1>2, <1>4, <2>1, <2>2, <2>3, StateBooks
  <1>10. CASE \/ ResolveLanded(j) \/ ResolveNeverLanded(j)
             \/ AwaitOnchain(j) \/ AwaitGone(j) \/ AwaitOrder(j) \/ AwaitOverdue(j)
    <2>1. PICK state \in {"submitted", "unresolved", "filled", "cancelled"} :
              Saved(With(j, state))
      BY <1>10 DEF ResolveLanded, ResolveNeverLanded, AwaitOnchain, AwaitGone, AwaitOrder,
         AwaitOverdue, Finish
    <2>2. pc' = "pass" /\ DriveFrame /\ Present(mem, j)
      BY <1>1, <1>10 DEF ResolveLanded, ResolveNeverLanded, AwaitOnchain, AwaitGone,
         AwaitOrder, AwaitOverdue, Resolving, Readable, Awaiting, Present
    <2>3. Books'
      BY <1>1, <1>2, <2>1, <2>2, StateBooks
    <2> QED
      BY <1>4, <2>2, <2>3
  <1>11. CASE AwaitReduce(j)
    <2>j. PICK jobs : jobs = With(j, "filled")
      OBVIOUS
    <2>1. jobs \in [JobId -> Job] /\ mem[j] \in Job /\ mem[j].state = "submitted"
      BY <1>2, <1>11, <2>j, WithTypes DEF TypeOK, AwaitReduce, Awaiting
    <2>2. /\ jobs[j] = [mem[j] EXCEPT !.state = "filled"]
          /\ \A k \in JobId \ {j} : jobs[k] = mem[k]
      BY <2>j DEF With, TypeOK
    <2>3. /\ jobs[j].state = "filled" /\ jobs[j].inboxId = mem[j].inboxId
          /\ jobs[j].digest = mem[j].digest
      BY <2>1, <2>2 DEF Job
    <2>4. Present(mem, j) /\ Present(jobs, j) /\ AnswersFor(jobs[j], j)
      BY <1>0, <2>1, <2>3 DEF Present, Ledgers, Vouches, AnswersFor
    <2>5. /\ Saved(jobs) /\ pc' = "pass"
          /\ UNCHANGED <<toIngest, acking, chain, nextJob, intentOf>>
          /\ submitted \subseteq submitted' /\ files' \subseteq submitted' /\ files \subseteq files'
          /\ files' \subseteq files \cup (InboxId \ submitted)
      BY <1>0, <1>1, <1>11, <2>j
      DEF AwaitReduce, Awaiting, Saved, queueStopFits, Origins, InboxId
    <2>6. Ledgers' /\ Remembered'
      BY <1>0, <1>1, <2>1, <2>2, <2>3, <2>4, <2>5, Rewrite
    <2>7. Origins' /\ Control' /\ Drained'
      BY <1>0, <1>1, <2>5 DEF Origins, Control, Drained, SentJob
    <2> QED
      BY <2>6, <2>7 DEF Books
  <1>12. CASE AwaitMore(j)
    <2>1. /\ mem' = mem /\ disk' \in {disk, mem} /\ pc' = "pass" /\ DriveFrame
          /\ Present(mem, j)
      BY <1>1, <1>12 DEF AwaitMore, Awaiting, Present
    <2>2. CASE disk' = mem
      <3>1. AnswersFor(mem[j], j) /\ mem \in [JobId -> Job]
        BY <1>0, <2>1 DEF Ledgers, Vouches, TypeOK
      <3>2. Saved(mem)
        BY <2>1, <2>2 DEF Saved, Flushed
      <3>3. Books'
        BY <1>1, <2>1, <3>1, <3>2, RecordBooks
      <3> QED
        BY <1>4, <2>1, <3>3
    <2>3. CASE disk' = disk
      <3>1. Ledgers' /\ Remembered'
        BY <1>0, <1>1, <2>1, <2>3, Quiet, FrameBooks
      <3> QED
        BY <1>4, <2>1, <3>1, FrameBooks DEF Books, Drained
    <2> QED
      BY <2>1, <2>2, <2>3
  <1> QED
    BY <1>5, <1>6, <1>7, <1>8, <1>9, <1>10, <1>11, <1>12 DEF Drive

-----------------------------------------------------------------------------
LEMMA Initially ==
    ASSUME RunnerAssumption, Init
    PROVE  IInv
  <1>1. TypeOK
    BY Records DEF Init, TypeOK, PC, TxStatus, RunnerAssumption, JobId
  <1>2. \A j \in JobId : ~SentJob(j) /\ Vouches(NoJobs, j) /\ Alone(NoJobs, j)
    BY EmptyLedger DEF Init, SentJob
  <1>3. Control /\ Origins /\ Ledgers /\ Remembered /\ Drained
    BY <1>2 DEF Init, Control, Origins, Ledgers, Remembered, Drained, JobId
  <1> QED
    BY <1>1, <1>3 DEF IInv, Books

LEMMA Inductive ==
    ASSUME RunnerAssumption, IInv, [Next]_vars
    PROVE  IInv'
  <1>0. TypeOK /\ Control /\ Books
    BY DEF IInv
  <1>1. TypeOK'
    BY <1>0, TypeStep
  <1>2. CASE Drain
    BY <1>0, <1>1, <1>2, DrainBooks DEF IInv
  <1>3. CASE Submission
    BY <1>0, <1>1, <1>3, SubmissionBooks DEF IInv
  <1>4. ASSUME NEW j \in JobId, Drive(j) PROVE IInv'
    BY <1>0, <1>1, <1>4, DriveBooks DEF IInv
  <1>5. CASE World
    BY <1>0, <1>1, <1>5, WorldBooks DEF IInv
  <1>6. CASE Start \/ Crash
    BY <1>0, <1>1, <1>6, LifeBooks DEF IInv
  <1>7. CASE EndPass \/ UNCHANGED vars
    <2>1. /\ UNCHANGED <<mem, disk, files, toIngest, acking, chain, submitted, nextJob, intentOf>>
          /\ \/ pc = "pass" /\ pc' = "idle"
             \/ UNCHANGED <<pc, cur>>
      BY <1>7 DEF EndPass, vars, storeVars, inboxVars, passVars, historyVars
    <2>2. Ledgers' /\ Remembered'
      BY <1>0, <2>1, Quiet DEF Books
    <2>3. Origins' /\ Control' /\ Drained'
      BY <1>0, <2>1 DEF Books, Origins, Control, Drained, SentJob
    <2> QED
      BY <1>1, <2>2, <2>3 DEF IInv, Books
  <1> QED
    BY <1>2, <1>3, <1>4, <1>5, <1>6, <1>7 DEF Next, Loop

LEMMA Invariance == Spec => []IInv
  <1>1. Init => IInv
    BY Initially, RunnerAssumption
  <1>2. IInv /\ [Next]_vars => IInv'
    BY Inductive, RunnerAssumption
  <1> QED
    BY <1>1, <1>2, PTL DEF Spec

(* Every variable keeps its type, through every fault.                    *)
THEOREM TypesHold == Spec => []TypeOK
  <1>1. IInv => TypeOK
    BY DEF IInv
  <1> QED
    BY <1>1, Invariance, PTL

(* Every transaction that ever left the process is accounted for by the    *)
(* digest of a job on disk, whatever flushes threw and whenever the        *)
(* process died: a restart asks the chain, and never sends beside it.      *)
THEOREM DigestIsDurableFirst == Spec => []DigestBeforeBytes
  <1>1. ASSUME IInv PROVE DigestBeforeBytes
    <2>1. ASSUME NEW d \in JobId \X Attempt, chain[d] # "unsent"
          PROVE  Accounts(disk, d) /\ Accounts(mem, d)
      <3>1. PICK j \in JobId, k \in Attempt : d = <<j, k>>
        OBVIOUS
      <3>2. Vouches(disk, j) /\ Vouches(mem, j)
        BY <1>1 DEF IInv, Books, Ledgers
      <3> QED
        BY <2>1, <3>1, <3>2 DEF Vouches, Present, AnswersFor, Accounts
    <2> QED
      BY <2>1 DEF DigestBeforeBytes
  <1> QED
    BY <1>1, Invariance, PTL

(* A job that ends `failed` or `expired` has no transaction that took      *)
(* effect or still may, so queueing its intent again cannot double it.     *)
THEOREM FailedIsHarmless == Spec => []NothingLive
  <1>1. ASSUME IInv PROVE NothingLive
    <2>1. ASSUME NEW jobs \in {mem, disk}, NEW d \in JobId \X Attempt,
                 jobs[d[1]].state \in {"failed", "expired"}
          PROVE  chain[d] \in {"unsent", "aborted"}
      <3>1. PICK j \in JobId, k \in Attempt : d = <<j, k>>
        OBVIOUS
      <3>2. Vouches(jobs, j)
        BY <1>1, <2>1 DEF IInv, Books, Ledgers
      <3> QED
        BY <2>1, <3>1, <3>2 DEF Vouches, Present, AnswersFor
    <2> QED
      BY <2>1 DEF NothingLive
  <1> QED
    BY <1>1, Invariance, PTL

-----------------------------------------------------------------------------
(* The runner implements OnceOnly.                                        *)
TxsOf == [i \in InboxId |-> SentTxs(i)]

LEMMA OnceInitially ==
    ASSUME Init PROVE Once!Init
  BY DEF Init, Once!Init, SentTxs

(* A step that sends nothing moves no transaction from or to an intent.   *)
LEMMA SameTxs ==
    ASSUME TypeOK, Origins, [Next]_vars, ~Send
    PROVE  UNCHANGED TxsOf
  <1> USE DEF storeVars, inboxVars, passVars, clockVars, historyVars
  <1>1. \A d \in JobId \X Attempt : chain'[d] # "unsent" <=> chain[d] # "unsent"
    <2>1. CASE UNCHANGED chain
      BY <2>1
    <2>2. ASSUME NEW d \in JobId \X Attempt, Include(d) \/ Keeper(d)
          PROVE  \A e \in JobId \X Attempt : chain'[e] # "unsent" <=> chain[e] # "unsent"
      BY <2>2 DEF Include, Keeper, TypeOK
    <2>3. Drain => UNCHANGED chain
      BY DEF Drain, BeginTick, Ack, PruneAndSnapshot, PruneThrew, IngestKnown, IngestRefused,
         IngestNew
    <2>4. Submission => UNCHANGED chain
      BY DEF Submission, FitReady, FitPointless, FitUnread, FitUnfilled, BuildRefused,
         BuildFailed, onSubmitting, Unsure, Sent, DriveFrame
    <2>5. \A j \in JobId : Drive(j) => UNCHANGED chain
      BY DEF Drive, Held, Expire, NotYet, AskPosition, DriveSubmit, ResolveUnsigned,
         ResolveLanded, ResolveAborted, ResolveNeverLanded, ResolveUnknown, Resolving,
         AwaitOnchain, AwaitReduce, AwaitGone, AwaitOrder, AwaitOverdue, AwaitMore, DriveFrame
    <2>6. World => UNCHANGED chain \/ \E d \in JobId \X Attempt : Include(d) \/ Keeper(d)
      BY DEF World, Submit, Elapse, Bury, Open, Close
    <2> QED
      BY <2>1, <2>2, <2>3, <2>4, <2>5, <2>6 DEF Next, Loop, EndPass, Start, Crash, vars
  <1>2. \A j \in JobId : SentJob(j) => intentOf'[j] = intentOf[j]
    <2>1. CASE UNCHANGED intentOf
      BY <2>1
    <2>2. ASSUME NEW i \in InboxId, IngestNew(i)
          PROVE  \A j \in JobId : SentJob(j) => intentOf'[j] = intentOf[j]
      BY <2>2 DEF IngestNew, Origins, TypeOK, JobId
    <2>3. Drain => UNCHANGED intentOf \/ \E i \in InboxId : IngestNew(i)
      BY DEF Drain, BeginTick, Ack, PruneAndSnapshot, PruneThrew, IngestKnown, IngestRefused
    <2>4. Submission => UNCHANGED intentOf
      BY DEF Submission, FitReady, FitPointless, FitUnread, FitUnfilled, BuildRefused,
         BuildFailed, onSubmitting, Unsure, Sent, Send, DriveFrame
    <2>5. \A j \in JobId : Drive(j) => UNCHANGED intentOf
      BY DEF Drive, Held, Expire, NotYet, AskPosition, DriveSubmit, ResolveUnsigned,
         ResolveLanded, ResolveAborted, ResolveNeverLanded, ResolveUnknown, Resolving,
         AwaitOnchain, AwaitReduce, AwaitGone, AwaitOrder, AwaitOverdue, AwaitMore, DriveFrame
    <2>6. World => UNCHANGED intentOf
      BY DEF World, Submit, Include, Keeper, Elapse, Bury, Open, Close
    <2> QED
      BY <2>1, <2>2, <2>3, <2>4, <2>5, <2>6 DEF Next, Loop, EndPass, Start, Crash, vars
  <1>3. ASSUME NEW i \in InboxId PROVE UNCHANGED SentTxs(i)
    <2>1. ASSUME NEW d \in JobId \X Attempt
          PROVE  (intentOf'[d[1]] = i /\ chain'[d] # "unsent")
                   <=> (intentOf[d[1]] = i /\ chain[d] # "unsent")
      <3>1. PICK j \in JobId, k \in Attempt : d = <<j, k>>
        OBVIOUS
      <3>2. chain[d] # "unsent" => SentJob(j)
        BY <3>1 DEF SentJob
      <3> QED
        BY <1>1, <1>2, <3>1, <3>2
    <2> QED
      BY <2>1 DEF SentTxs
  <1> QED
    BY <1>3 DEF TxsOf

LEMMA AcceptedGrows ==
    ASSUME [Next]_vars
    PROVE  submitted \subseteq submitted'
  <1> USE DEF storeVars, inboxVars, passVars, clockVars, historyVars
  <1>1. Drain => UNCHANGED submitted
    BY DEF Drain, BeginTick, Ack, PruneAndSnapshot, PruneThrew, IngestKnown, IngestRefused,
       IngestNew
  <1>2. Submission => UNCHANGED submitted
    BY DEF Submission, FitReady, FitPointless, FitUnread, FitUnfilled, BuildRefused,
       BuildFailed, onSubmitting, Unsure, Sent, Send, DriveFrame
  <1>3. \A j \in JobId : Drive(j) => submitted \subseteq submitted'
    BY DEF Drive, Held, Expire, NotYet, AskPosition, DriveSubmit, ResolveUnsigned,
       ResolveLanded, ResolveAborted, ResolveNeverLanded, ResolveUnknown, Resolving,
       AwaitOnchain, AwaitReduce, queueStopFits, AwaitGone, AwaitOrder, AwaitOverdue,
       AwaitMore, DriveFrame
  <1>4. World => submitted \subseteq submitted'
    BY DEF World, Submit, Include, Keeper, Elapse, Bury, Open, Close
  <1> QED
    BY <1>1, <1>2, <1>3, <1>4 DEF Next, Loop, EndPass, Start, Crash, vars

(* Sending is the abstract submission, and finds its intent without one.  *)
LEMMA SendIsSubmit ==
    ASSUME RunnerAssumption, NoForgetting, IInv, Send
    PROVE  \E i \in InboxId, t \in JobId \X Attempt : Once!Submit(i, t)
  <1>0. TypeOK /\ Control /\ Origins /\ Ledgers
    BY DEF IInv, Books
  <1>i. PICK i : i = intentOf[cur]
    OBVIOUS
  <1>t. PICK t : t = <<cur, mem[cur].digest>>
    OBVIOUS
  <1>1. cur \in JobId /\ Present(mem, cur) /\ ~SentJob(cur)
    BY <1>0 DEF Control, Send, Present
  <1>2. t \in JobId \X Attempt
    <2>1. mem[cur] \in Job
      BY <1>0, <1>1 DEF TypeOK
    <2> QED
      BY <1>0, <1>1, <1>t, <2>1 DEF Send, Control, Job, Attempt, RunnerAssumption
  <1>3. i \in submitted /\ i \in InboxId
    BY <1>0, <1>1, <1>i DEF Ledgers, Vouches, Origins, TypeOK
  <1>4. /\ UNCHANGED <<submitted, intentOf>>
        /\ chain' = [chain EXCEPT ![t] = "inflight"]
    BY <1>t DEF Send, Tx, historyVars
  <1>5. chain[t] = "unsent" /\ chain'[t] = "inflight" /\ intentOf[t[1]] = i
        /\ \A d \in JobId \X Attempt : d # t => chain'[d] = chain[d]
    BY <1>0, <1>1, <1>2, <1>4, <1>i, <1>t DEF SentJob, TypeOK
  <1>6. SentTxs(i) = {}
    <2>1. ASSUME NEW d \in JobId \X Attempt, intentOf[d[1]] = i, chain[d] # "unsent"
          PROVE  FALSE
      <3>1. PICK j \in JobId, k \in Attempt : d = <<j, k>>
        OBVIOUS
      <3>2. SentJob(j) /\ j # cur /\ intentOf[j] = intentOf[cur]
        BY <1>1, <1>i, <2>1, <3>1 DEF SentJob
      <3>3. Alone(mem, j)
        BY <1>0 DEF Ledgers
      <3> QED
        BY <1>1, <3>2, <3>3 DEF Alone
    <2> QED
      BY <2>1 DEF SentTxs
  <1>7. (SentTxs(i))' = {t} /\ \A l \in InboxId \ {i} : (SentTxs(l))' = SentTxs(l)
    <2>1. \A l \in InboxId : (SentTxs(l))'
              = {d \in JobId \X Attempt : intentOf[d[1]] = l /\ chain'[d] # "unsent"}
      BY <1>4 DEF SentTxs
    <2> QED
      BY <1>2, <1>3, <1>5, <1>6, <2>1 DEF SentTxs
  <1>8. TxsOf' = [TxsOf EXCEPT ![i] = {t}]
    BY <1>3, <1>7 DEF TxsOf
  <1>9. \A l \in InboxId : t \notin TxsOf[l]
    BY <1>5 DEF TxsOf, SentTxs
  <1> QED
    BY <1>2, <1>3, <1>4, <1>6, <1>8, <1>9 DEF Once!Submit, TxsOf

LEMMA OnceStep ==
    ASSUME RunnerAssumption, NoForgetting, IInv, [Next]_vars
    PROVE  [Once!Next]_<<submitted, TxsOf>>
  <1>1. CASE Send
    BY <1>1, SendIsSubmit DEF Once!Next
  <1>2. CASE ~Send
    <2>1. UNCHANGED TxsOf
      BY <1>2, SameTxs DEF IInv, Books
    <2>s. PICK S : S = submitted' \ submitted
      OBVIOUS
    <2>2. /\ S \in SUBSET InboxId /\ S \subseteq InboxId \ submitted
          /\ submitted' = submitted \cup S
      BY <2>s, AcceptedGrows, TypeStep DEF IInv, TypeOK
    <2> QED
      BY <2>1, <2>2 DEF Once!Next, Once!Accept, TxsOf
  <1> QED
    BY <1>1, <1>2

(* "An intent is submitted at most once": for any inbox, any number of     *)
(* jobs, retries and crashes, and any flushes that throw, the runner       *)
(* implements OnceOnly, as long as no job is forgotten before its file.    *)
THEOREM SubmittedAtMostOnce ==
    ASSUME NoForgetting
    PROVE  Spec => AtMostOnce
  <1>1. Init => Once!Init
    BY OnceInitially
  <1>2. IInv /\ [Next]_vars => [Once!Next]_<<submitted, [i \in InboxId |-> SentTxs(i)]>>
    BY OnceStep, RunnerAssumption DEF TxsOf
  <1> QED
    BY <1>1, <1>2, Invariance, PTL DEF Spec, AtMostOnce, Once!Spec
=============================================================================
