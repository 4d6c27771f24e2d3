-------------------------- MODULE RunnerLedgerProofs --------------------------
(***************************************************************************)
(* The theorems about what the runner's ledger says from step to step:     *)
(* that one question about money is open at a time, that it stays open     *)
(* until it is answered, that one idea is in play at most once, and that   *)
(* an inbox file outlives its intent's absence from the ledger.            *)
(***************************************************************************)
EXTENDS RunnerProofs

Flying == {"building", "sending", "answer"}

InPlay == Pending \cup {"unresolved"}

(* A submission under way is on disk and no other job is ambiguous, nor is *)
(* one while a fit-stop waits to be submitted.                             *)
Ambiguity ==
    /\ pc = "fit" => ~blockedByAmbiguity
    /\ pc \in Flying => /\ disk = mem
                        /\ \A k \in JobId \ {cur} : mem[k].state \notin {"submitting", "unresolved"}
    /\ \A jobs \in {mem, disk} : \A j, k \in JobId :
         jobs[j].state = "submitting" /\ jobs[k].state = "submitting" => j = k

(* A process that can always write has written what it remembers.          *)
Synced == ~FlushFaults /\ pc # "down" => disk = mem

(* An open question on disk is open in memory.                            *)
Lasting ==
    pc # "down" => \A j \in JobId :
        disk[j].state = "unresolved" => mem[j].state = "unresolved"

(* A file about to be unlinked was refused, or its job is on disk.        *)
Acknowledged ==
    ~FlushFaults /\ acking # None =>
        acking \in refused \/ \E j \in JobId : disk[j].inboxId = acking

LInv == IInv /\ Ambiguity /\ Synced /\ Lasting /\ Acknowledged /\ OnePerKey

-----------------------------------------------------------------------------
(* What a step may do to the ledgers.                                     *)
Written == disk' = mem' \/ (FlushFaults /\ disk' = disk)

Keeps ==
    /\ mem' = mem /\ disk' \in {disk, mem} /\ (disk' # disk => pc # "down")
    /\ pc = "down" <=> pc' = "down"
    /\ \/ pc' = pc /\ cur' = cur
       \/ pc = "sending" /\ pc' = "answer" /\ cur' = cur
       \/ pc' = "fit" /\ ~blockedByAmbiguity
       \/ pc' \notin Flying \cup {"fit"}

Ceases ==
    /\ mem' = NoJobs /\ pc # "down" /\ pc' = "down"
    /\ disk' = disk \/ (pc = "drain" /\ disk' = Kept)

Resumes == mem' = disk /\ disk' = disk /\ pc = "down" /\ pc' = "idle"

(* The record of one job is rewritten.                                    *)
Touches(j) ==
    /\ pc \notin {"down", "drain"} /\ Written
    /\ mem[j].state \in Pending /\ mem'[j].inboxId = mem[j].inboxId
    /\ \A k \in JobId \ {j} : mem'[k] = mem[k]

Moves(j) ==
    /\ Touches(j) /\ mem'[j].state \in JobState \ {"submitting"} /\ pc' = "pass"

Begins(j) ==
    /\ Touches(j) /\ mem'[j].state = "submitting" /\ ~blockedByAmbiguity
    /\ \/ disk' = mem' /\ pc' = "building" /\ cur' = j
       \/ pc' = "pass"

Signs(j) ==
    /\ Touches(j) /\ mem[j].state = "submitting" /\ mem'[j].state = "submitting"
    /\ pc = "building" /\ j = cur
    /\ \/ disk' = mem' /\ pc' = "sending" /\ cur' = cur
       \/ pc' = "pass"

Adds(i) ==
    /\ pc = "drain" /\ pc' = "drain" /\ nextJob \in JobId /\ ~blockingJob(i)
    /\ mem' = [mem EXCEPT ![nextJob] = NewJob(i)] /\ Written

Prunes == pc = "drain" /\ pc' = "pass" /\ mem' = Kept /\ disk' = Kept

LEMMA SavedIsWritten ==
    ASSUME NEW jobs, Saved(jobs)
    PROVE  mem' = jobs /\ Written
  BY DEF Saved, Flushed, FlushThrew, Written

LEMMA MovesJob ==
    ASSUME TypeOK, NEW j \in JobId, mem[j].state \in Pending, NEW state \in JobState \ {"submitting"},
           Saved(With(j, state)), pc \notin {"down", "drain"}, pc' = "pass"
    PROVE  Moves(j)
  <1>1. mem' = With(j, state) /\ Written
    BY SavedIsWritten
  <1>2. mem[j] \in Job
    BY DEF TypeOK
  <1>3. /\ mem'[j] = [mem[j] EXCEPT !.state = state]
        /\ \A k \in JobId \ {j} : mem'[k] = mem[k]
    BY <1>1 DEF With, TypeOK
  <1>4. mem'[j].state = state /\ mem'[j].inboxId = mem[j].inboxId
    BY <1>2, <1>3 DEF Job
  <1> QED
    BY <1>1, <1>3, <1>4 DEF Moves, Touches

LEMMA SubmitMoves ==
    ASSUME RunnerAssumption, TypeOK, NEW j \in JobId, mem[j].state = "queued", submit(j),
           ~blockedByAmbiguity, pc \in {"pass", "fit"}
    PROVE  Moves(j) \/ Begins(j)
  <1>1. CASE GiveUp(j)
    <2>1. Saved(With(j, "failed")) /\ pc' = "pass" /\ "failed" \in JobState \ {"submitting"}
          /\ mem[j].state \in Pending
      BY <1>1 DEF GiveUp, Finish, JobState, Terminal, Pending
    <2> QED
      BY <2>1, MovesJob
  <1>2. CASE BeginAttempt(j)
    <2> DEFINE jobs == [mem EXCEPT ![j].state = "submitting",
                                   ![j].attempts = mem[j].attempts + 1,
                                   ![j].digest = 0]
    <2>1. /\ mem' = jobs
          /\ \/ disk' = mem' /\ pc' = "building" /\ cur' = j
             \/ FlushFaults /\ disk' \in {disk, jobs} /\ pc' = "pass"
      BY <1>2 DEF BeginAttempt, Flushed, FlushThrew
    <2>2. mem[j] \in Job
      BY DEF TypeOK
    <2>3. /\ jobs[j] = [mem[j] EXCEPT !.state = "submitting",
                                      !.attempts = mem[j].attempts + 1, !.digest = 0]
          /\ \A k \in JobId \ {j} : jobs[k] = mem[k]
      BY <2>2 DEF TypeOK
    <2> HIDE DEF jobs
    <2>4. jobs[j].state = "submitting" /\ jobs[j].inboxId = mem[j].inboxId
      BY <2>2, <2>3 DEF Job
    <2>5. Written /\ "queued" \in Pending
      BY <2>1 DEF Written, Pending
    <2> QED
      BY <2>1, <2>3, <2>4, <2>5 DEF Begins, Touches
  <1> QED
    BY <1>1, <1>2 DEF submit

LEMMA DriveMoves ==
    ASSUME RunnerAssumption, TypeOK, NEW j \in JobId, Drive(j)
    PROVE  Keeps \/ Moves(j) \/ Begins(j)
  <1> USE DEF storeVars, passVars
  <1>1. /\ pc = "pass" /\ {"expired", "queued", "submitted", "failed", "unresolved", "filled",
                            "cancelled"} \subseteq JobState \ {"submitting"}
        /\ {"queued", "submitting", "submitted"} \subseteq Pending
    BY DEF Drive, Held, Expire, NotYet, AskPosition, DriveSubmit, DriveQueued,
       ResolveUnsigned, ResolveLanded, ResolveAborted, ResolveNeverLanded, ResolveUnknown,
       Resolving, AwaitOnchain, AwaitReduce, AwaitGone, AwaitOrder, AwaitOverdue, AwaitMore,
       Readable, Awaiting, Reached, JobState, Pending, Terminal
  <1>2. CASE Held(j) \/ NotYet(j)
    BY <1>1, <1>2 DEF Held, NotYet, Keeps
  <1>3. CASE AskPosition(j)
    BY <1>1, <1>3 DEF AskPosition, DriveQueued, Keeps
  <1>4. CASE DriveSubmit(j)
    BY <1>1, <1>4, SubmitMoves DEF DriveSubmit, DriveQueued
  <1>5. CASE ResolveUnknown(j)
    BY <1>1, <1>5 DEF ResolveUnknown, Resolving, Keeps
  <1>6. CASE AwaitMore(j)
    BY <1>1, <1>6 DEF AwaitMore, Keeps
  <1>7. CASE Expire(j)
    <2>1. mem[j].state = "queued" /\ Saved(With(j, "expired")) /\ pc' = "pass"
      BY <1>1, <1>7 DEF Expire, DriveQueued, Finish
    <2> QED
      BY <1>1, <2>1, MovesJob
  <1>8. CASE ResolveUnsigned(j) \/ ResolveLanded(j) \/ ResolveAborted(j) \/ ResolveNeverLanded(j)
    <2>1. PICK state \in {"queued", "submitted", "failed", "unresolved"} : Saved(With(j, state))
      BY <1>8 DEF ResolveUnsigned, ResolveLanded, ResolveAborted, ResolveNeverLanded, Finish
    <2>2. mem[j].state = "submitting" /\ pc' = "pass"
      BY <1>1, <1>8 DEF ResolveUnsigned, ResolveLanded, ResolveAborted, ResolveNeverLanded, Resolving
    <2> QED
      BY <1>1, <2>1, <2>2, MovesJob
  <1>9. CASE AwaitOnchain(j) \/ AwaitReduce(j) \/ AwaitGone(j) \/ AwaitOrder(j) \/ AwaitOverdue(j)
    <2>1. PICK state \in {"filled", "cancelled", "unresolved"} : Saved(With(j, state))
      BY <1>9 DEF AwaitOnchain, AwaitReduce, AwaitGone, AwaitOrder, AwaitOverdue, Finish, Saved
    <2>2. mem[j].state = "submitted" /\ pc' = "pass"
      BY <1>1, <1>9 DEF AwaitOnchain, AwaitReduce, AwaitGone, AwaitOrder, AwaitOverdue,
         Readable, Awaiting
    <2> QED
      BY <1>1, <2>1, <2>2, MovesJob
  <1> QED
    BY <1>2, <1>3, <1>4, <1>5, <1>6, <1>7, <1>8, <1>9 DEF Drive

LEMMA SubmissionMoves ==
    ASSUME RunnerAssumption, TypeOK, Control, pc = "fit" => ~blockedByAmbiguity, Submission
    PROVE  Keeps \/ \E j \in JobId : Moves(j) \/ Begins(j) \/ Signs(j)
  <1> USE DEF storeVars, passVars
  <1>1. /\ cur \in JobId /\ pc \in {"fit", "building", "sending", "answer"}
        /\ IF pc = "fit" THEN mem[cur].state = "queued" ELSE mem[cur].state = "submitting"
    BY DEF Control, Submission, FitReady, FitPointless, FitUnread, FitUnfilled,
           BuildRefused, BuildFailed, onSubmitting, Send, Unsure, Sent
  <1>2. /\ {"queued", "submitted", "failed", "cancelled"} \subseteq JobState \ {"submitting"}
        /\ {"queued", "submitting"} \subseteq Pending
    BY DEF JobState, Pending, Terminal
  <1>3. CASE FitReady
    BY <1>1, <1>3, SubmitMoves DEF FitReady
  <1>4. CASE FitUnread \/ Unsure
    BY <1>1, <1>4 DEF FitUnread, Unsure, Returned, Keeps, Flying
  <1>5. CASE FitUnfilled
    BY <1>1, <1>5 DEF FitUnfilled, Saved, Flushed, FlushThrew, Keeps, Flying
  <1>6. CASE Send
    BY <1>6 DEF Send, Keeps
  <1>7. CASE FitPointless \/ BuildRefused \/ BuildFailed \/ Sent
    <2>1. PICK state \in {"cancelled", "failed", "queued", "submitted"} : Saved(With(cur, state))
      BY <1>7 DEF FitPointless, BuildRefused, BuildFailed, Sent, Finish
    <2>2. pc' = "pass"
      BY <1>7 DEF FitPointless, BuildRefused, BuildFailed, Sent, Returned
    <2> QED
      BY <1>1, <1>2, <2>1, <2>2, MovesJob
  <1>8. CASE onSubmitting
    <2> DEFINE jobs == [mem EXCEPT ![cur].digest = mem[cur].attempts]
    <2>1. /\ mem' = jobs /\ pc = "building"
          /\ \/ disk' = mem' /\ pc' = "sending" /\ cur' = cur
             \/ FlushFaults /\ disk' \in {disk, jobs} /\ pc' = "pass"
      BY <1>8 DEF onSubmitting, Flushed, FlushThrew, Returned
    <2>2. mem[cur] \in Job
      BY <1>1 DEF TypeOK
    <2>3. /\ jobs[cur] = [mem[cur] EXCEPT !.digest = mem[cur].attempts]
          /\ \A k \in JobId \ {cur} : jobs[k] = mem[k]
      BY <1>1, <2>2 DEF TypeOK
    <2>4. jobs[cur].state = "submitting" /\ jobs[cur].inboxId = mem[cur].inboxId
      BY <1>1, <2>1, <2>2, <2>3 DEF Job
    <2> HIDE DEF jobs
    <2>5. Written
      BY <2>1 DEF Written
    <2> QED
      BY <1>1, <1>2, <2>1, <2>3, <2>4, <2>5 DEF Signs, Touches
  <1> QED
    BY <1>3, <1>4, <1>5, <1>6, <1>7, <1>8 DEF Submission

LEMMA DrainMoves ==
    ASSUME Drain
    PROVE  Keeps \/ Ceases \/ Prunes \/ \E i \in InboxId : Adds(i)
  <1> USE DEF storeVars, passVars
  <1>1. CASE BeginTick \/ Ack \/ \E i \in InboxId : IngestKnown(i) \/ IngestRefused(i)
    BY <1>1 DEF BeginTick, Ack, IngestKnown, IngestRefused, Ingesting, Keeps, Flying
  <1>2. ASSUME NEW i \in InboxId, IngestNew(i) PROVE Adds(i)
    BY <1>2 DEF IngestNew, Ingesting, Flushed, FlushThrew, Adds, Written
  <1>3. CASE PruneAndSnapshot
    BY <1>3 DEF PruneAndSnapshot, Flushed, Keeps, Prunes, Flying
  <1>4. CASE PruneThrew
    BY <1>4 DEF PruneThrew, Dead, Ceases
  <1> QED
    BY <1>1, <1>2, <1>3, <1>4 DEF Drain

LEMMA LedgerMoves ==
    ASSUME RunnerAssumption, TypeOK, Control, pc = "fit" => ~blockedByAmbiguity, [Next]_vars
    PROVE  \/ Keeps \/ Ceases \/ Resumes \/ Prunes
           \/ \E i \in InboxId : Adds(i)
           \/ \E j \in JobId : Moves(j) \/ Begins(j) \/ Signs(j)
  <1> USE DEF storeVars, passVars
  <1>1. CASE Drain
    BY <1>1, DrainMoves
  <1>2. CASE Submission
    BY <1>2, SubmissionMoves
  <1>3. ASSUME NEW j \in JobId, Drive(j) PROVE Keeps \/ Moves(j) \/ Begins(j)
    BY <1>3, DriveMoves
  <1>4. CASE World
    BY <1>4 DEF World, Submit, Include, Keeper, Elapse, Bury, Open, Close, Keeps
  <1>5. CASE EndPass \/ UNCHANGED vars
    BY <1>5 DEF EndPass, vars, Keeps, Flying
  <1>6. CASE Start
    BY <1>6 DEF Start, Resumes
  <1>7. CASE Crash
    BY <1>7 DEF Crash, Dead, Ceases
  <1> QED
    BY <1>1, <1>2, <1>3, <1>4, <1>5, <1>6, <1>7 DEF Next, Loop

-----------------------------------------------------------------------------
(* The invariant, conjunct by conjunct.                                   *)
LEMMA Forgotten ==
    \A j \in JobId : /\ NoJobs[j].state = "absent"
                     /\ Kept[j] = mem[j] \/ Kept[j].state = "absent"
                     /\ mem[j].state = "unresolved" => Kept[j] = mem[j]
  BY DEF NoJobs, NoJob, Kept, Prunable

(* A new job takes a slot that neither ledger uses.                       *)
LEMMA Added ==
    ASSUME RunnerAssumption, IInv, NEW i \in InboxId, Adds(i)
    PROVE  /\ nextJob \in JobId /\ disk[nextJob].state = "absent"
           /\ mem'[nextJob].state = "queued" /\ mem'[nextJob].inboxId = i
           /\ \A k \in JobId \ {nextJob} : mem'[k] = mem[k]
  <1>1. nextJob \in JobId /\ mem' = [mem EXCEPT ![nextJob] = NewJob(i)]
    BY DEF Adds
  <1>2. ~(nextJob < nextJob)
    BY <1>1 DEF RunnerAssumption, JobId
  <1>3. disk[nextJob].state = "absent"
    BY <1>1, <1>2 DEF IInv, Books, Ledgers, Vouches, Present
  <1> QED
    BY <1>1, <1>3 DEF IInv, TypeOK, NewJob

LEMMA AmbiguityStep ==
    ASSUME RunnerAssumption, LInv, [Next]_vars
    PROVE  Ambiguity'
  <1>0. TypeOK /\ Control /\ Ambiguity
    BY DEF LInv, IInv
  <1>a. /\ pc \in Flying => /\ disk = mem /\ mem[cur].state = "submitting"
                            /\ \A k \in JobId \ {cur} : mem[k].state \notin {"submitting", "unresolved"}
        /\ \A j, k \in JobId :
             /\ mem[j].state = "submitting" /\ mem[k].state = "submitting" => j = k
             /\ disk[j].state = "submitting" /\ disk[k].state = "submitting" => j = k
    BY <1>0 DEF Ambiguity, Control, Flying
  <1> SUFFICES
        /\ pc' = "fit" => \A k \in JobId : mem'[k].state \notin {"submitting", "unresolved"}
        /\ pc' \in Flying =>
              /\ disk' = mem'
              /\ \A k \in JobId \ {cur'} : mem'[k].state \notin {"submitting", "unresolved"}
        /\ \A j, k \in JobId :
             /\ mem'[j].state = "submitting" /\ mem'[k].state = "submitting" => j = k
             /\ disk'[j].state = "submitting" /\ disk'[k].state = "submitting" => j = k
    BY DEF Ambiguity, blockedByAmbiguity
  <1>1. CASE Keeps
    <2>1. pc = "fit" => \A k \in JobId : mem[k].state \notin {"submitting", "unresolved"}
      BY <1>0 DEF Ambiguity, blockedByAmbiguity
    <2> QED
      BY <1>1, <1>a, <2>1 DEF Keeps, Flying, blockedByAmbiguity
  <1>2. CASE Ceases
    BY <1>2, <1>a, Forgotten DEF Ceases, Flying
  <1>3. CASE Resumes
    BY <1>3, <1>a DEF Resumes, Flying
  <1>4. CASE Prunes
    BY <1>4, <1>a, Forgotten DEF Prunes, Flying
  <1>5. ASSUME NEW i \in InboxId, Adds(i)
        PROVE  /\ pc' \notin Flying \cup {"fit"}
               /\ \A j, k \in JobId :
                    /\ mem'[j].state = "submitting" /\ mem'[k].state = "submitting" => j = k
                    /\ disk'[j].state = "submitting" /\ disk'[k].state = "submitting" => j = k
    <2>1. IInv
      BY DEF LInv
    <2>2. /\ nextJob \in JobId /\ mem'[nextJob].state = "queued"
          /\ \A k \in JobId \ {nextJob} : mem'[k] = mem[k]
      BY <1>5, <2>1, Added
    <2>3. pc' = "drain" /\ disk' \in {disk, mem'}
      BY <1>5 DEF Adds, Written
    <2> QED
      BY <1>a, <2>2, <2>3 DEF Flying
  <1>6. ASSUME NEW j \in JobId, Moves(j)
        PROVE  /\ pc' \notin Flying \cup {"fit"}
               /\ \A l, k \in JobId :
                    /\ mem'[l].state = "submitting" /\ mem'[k].state = "submitting" => l = k
                    /\ disk'[l].state = "submitting" /\ disk'[k].state = "submitting" => l = k
    BY <1>6, <1>a DEF Moves, Touches, Written, Flying
  <1>7. ASSUME NEW j \in JobId, Begins(j)
        PROVE  /\ pc' # "fit"
               /\ pc' \in Flying => disk' = mem' /\ cur' = j
               /\ \A k \in JobId \ {j} : mem'[k].state \notin {"submitting", "unresolved"}
               /\ disk' \in {disk, mem'}
    BY <1>7 DEF Begins, Touches, Written, Flying, blockedByAmbiguity
  <1>8. ASSUME NEW j \in JobId, Signs(j)
        PROVE  /\ pc' # "fit"
               /\ pc' \in Flying => disk' = mem' /\ cur' = j
               /\ \A k \in JobId \ {j} : mem'[k].state \notin {"submitting", "unresolved"}
               /\ disk' \in {disk, mem'}
    BY <1>8, <1>a DEF Signs, Touches, Written, Flying
  <1> QED
    <2>1. ASSUME NEW j \in JobId, Begins(j) \/ Signs(j)
          PROVE  /\ pc' # "fit"
                 /\ pc' \in Flying => disk' = mem' /\ cur' = j
                 /\ \A k \in JobId \ {j} : mem'[k].state \notin {"submitting", "unresolved"}
                 /\ disk' \in {disk, mem'}
      BY <1>7, <1>8, <2>1
    <2>2. ASSUME NEW j \in JobId, Begins(j) \/ Signs(j), NEW l \in JobId, NEW k \in JobId
          PROVE  /\ mem'[l].state = "submitting" /\ mem'[k].state = "submitting" => l = k
                 /\ disk'[l].state = "submitting" /\ disk'[k].state = "submitting" => l = k
      BY <1>a, <2>1, <2>2
    <2> QED
      BY <1>0, <1>1, <1>2, <1>3, <1>4, <1>5, <1>6, <2>1, <2>2, LedgerMoves DEF Ambiguity

LEMMA SyncedStep ==
    ASSUME RunnerAssumption, LInv, [Next]_vars
    PROVE  Synced' /\ Lasting'
  <1>0. TypeOK /\ Control /\ Ambiguity /\ Synced /\ Lasting
    BY DEF LInv, IInv
  <1>1. CASE Keeps
    BY <1>0, <1>1 DEF Keeps, Synced, Lasting
  <1>2. CASE Ceases \/ Resumes \/ Prunes
    BY <1>2 DEF Ceases, Resumes, Prunes, Synced, Lasting
  <1>3. ASSUME NEW i \in InboxId, Adds(i) PROVE Synced' /\ Lasting'
    <2>1. IInv
      BY DEF LInv
    <2>2. /\ nextJob \in JobId /\ mem'[nextJob].state = "queued"
          /\ disk[nextJob].state = "absent"
          /\ \A k \in JobId \ {nextJob} : mem'[k] = mem[k]
      BY <1>3, <2>1, Added
    <2>3. pc = "drain" /\ Written
      BY <1>3 DEF Adds
    <2> QED
      BY <1>0, <2>2, <2>3 DEF Written, Synced, Lasting
  <1>4. ASSUME NEW j \in JobId, Touches(j) PROVE Synced' /\ Lasting'
    <2>1. "unresolved" \notin Pending
      BY DEF Pending
    <2> QED
      BY <1>0, <1>4, <2>1 DEF Touches, Written, Synced, Lasting
  <1> QED
    BY <1>0, <1>1, <1>2, <1>3, <1>4, LedgerMoves DEF Ambiguity, Moves, Begins, Signs

(* A step either leaves the file to be unlinked and the disk alone, or     *)
(* chooses it.                                                            *)
LEMMA AckMoves ==
    ASSUME Control, [Next]_vars, acking' # None
    PROVE  \/ acking' = acking /\ disk' = disk /\ refused \subseteq refused'
           \/ \E i \in InboxId : IngestKnown(i) \/ IngestRefused(i) \/ IngestNew(i)
  <1> USE DEF storeVars, inboxVars, passVars, clockVars, historyVars
  <1>1. CASE Drain
    BY <1>1 DEF Drain, BeginTick, Ack, PruneAndSnapshot, PruneThrew, Dead, Control
  <1>2. CASE Submission \/ EndPass \/ \E j \in JobId : Drive(j)
    <2>1. pc # "drain" /\ acking' = acking
      <3>1. Submission => pc # "drain" /\ acking' = acking
        BY DEF Submission, FitReady, FitPointless, FitUnread, FitUnfilled, BuildRefused,
           BuildFailed, onSubmitting, Send, Unsure, Sent, DriveFrame
      <3>2. \A j \in JobId : Drive(j) => pc # "drain" /\ acking' = acking
        BY DEF Drive, Held, Expire, NotYet, AskPosition, DriveSubmit, DriveQueued,
           ResolveUnsigned, ResolveLanded, ResolveAborted, ResolveNeverLanded, ResolveUnknown,
           Resolving, AwaitOnchain, AwaitReduce, AwaitGone, AwaitOrder, AwaitOverdue, AwaitMore,
           Readable, Awaiting, Reached, DriveFrame
      <3> QED
        BY <1>2, <3>1, <3>2 DEF EndPass
    <2> QED
      BY <2>1 DEF Control
  <1>3. CASE World
    BY <1>3 DEF World, Submit, Include, Keeper, Elapse, Bury, Open, Close
  <1>4. CASE Start \/ Crash \/ UNCHANGED vars
    BY <1>4 DEF Start, Crash, Dead, vars
  <1> QED
    BY <1>1, <1>2, <1>3, <1>4 DEF Next, Loop

LEMMA AcknowledgedStep ==
    ASSUME RunnerAssumption, LInv, [Next]_vars
    PROVE  Acknowledged'
  <1> SUFFICES ASSUME ~FlushFaults, acking' # None
               PROVE  acking' \in refused' \/ \E j \in JobId : disk'[j].inboxId = acking'
    BY DEF Acknowledged
  <1>0. TypeOK /\ Control /\ Synced /\ Acknowledged
    BY DEF LInv, IInv
  <1>1. CASE acking' = acking /\ disk' = disk /\ refused \subseteq refused'
    BY <1>0, <1>1 DEF Acknowledged
  <1>2. ASSUME NEW i \in InboxId, IngestKnown(i)
        PROVE  \E j \in JobId : disk'[j].inboxId = acking'
    BY <1>0, <1>2 DEF IngestKnown, Ingesting, Known, Synced, storeVars
  <1>3. ASSUME NEW i \in InboxId, IngestRefused(i) PROVE acking' \in refused'
    BY <1>3 DEF IngestRefused
  <1>4. ASSUME NEW i \in InboxId, IngestNew(i)
        PROVE  \E j \in JobId : disk'[j].inboxId = acking'
    <2>1. /\ nextJob \in JobId /\ acking' = i
          /\ disk' = [mem EXCEPT ![nextJob] = NewJob(i)]
      BY <1>4 DEF IngestNew, Flushed, FlushThrew
    <2> QED
      BY <1>0, <2>1 DEF TypeOK, NewJob
  <1> QED
    BY <1>0, <1>1, <1>2, <1>3, <1>4, AckMoves

LEMMA KeyStep ==
    ASSUME RunnerAssumption, LInv, [Next]_vars
    PROVE  OnePerKey'
  <1> DEFINE Key(jobs, j) == Entry[jobs[j].inboxId].key
             Unique(jobs) ==
                \A j, k \in JobId :
                    /\ jobs[j].state \in InPlay /\ jobs[k].state \in InPlay
                    /\ Key(jobs, j) = Key(jobs, k) /\ Key(jobs, j) # NoKey
                    => j = k
  <1>0. TypeOK /\ Control /\ Ambiguity /\ IInv /\ Unique(mem) /\ Unique(disk)
    BY DEF LInv, IInv, OnePerKey, InPlay
  <1>1. "absent" \notin InPlay /\ "queued" \in InPlay
    BY DEF InPlay, Pending
  <1> SUFFICES Unique(mem') /\ Unique(disk')
    BY DEF OnePerKey, InPlay
  <1>2. CASE Keeps
    BY <1>0, <1>2 DEF Keeps
  <1>3. Unique(NoJobs) /\ Unique(Kept)
    BY <1>0, <1>1, Forgotten
  <1>4. CASE Ceases \/ Resumes \/ Prunes
    BY <1>0, <1>3, <1>4 DEF Ceases, Resumes, Prunes
  <1>5. ASSUME NEW i \in InboxId, Adds(i) PROVE Unique(mem') /\ disk' \in {disk, mem'}
    <2>1. /\ nextJob \in JobId
          /\ mem'[nextJob].state = "queued" /\ mem'[nextJob].inboxId = i
          /\ \A k \in JobId \ {nextJob} : mem'[k] = mem[k]
      BY <1>0, <1>5, Added
    <2>2. ASSUME NEW k \in JobId, mem[k].state \in InPlay, Key(mem, k) = Entry[i].key
          PROVE  Entry[i].key = NoKey
      BY <1>1, <1>5, <2>2 DEF Adds, blockingJob, Blocks, Present, InPlay
    <2>3. Unique(mem')
      BY <1>0, <2>1, <2>2
    <2> QED
      BY <1>5, <2>3 DEF Adds, Written
  <1>6. ASSUME NEW j \in JobId, Touches(j) PROVE Unique(mem') /\ disk' \in {disk, mem'}
    <2>1. mem[j].state \in InPlay /\ mem'[j].inboxId = mem[j].inboxId
          /\ \A k \in JobId \ {j} : mem'[k] = mem[k]
      BY <1>6 DEF Touches, InPlay
    <2>2. \A k \in JobId : /\ Key(mem', k) = Key(mem, k)
                           /\ mem'[k].state \in InPlay => mem[k].state \in InPlay
      BY <2>1
    <2>3. Unique(mem')
      BY <1>0, <2>2
    <2> QED
      BY <1>6, <2>3 DEF Touches, Written
  <1> QED
    <2>1. (mem' = mem /\ disk' \in {disk, mem}) \/ Ceases \/ Resumes \/ Prunes
          \/ (\E i \in InboxId : Adds(i)) \/ (\E j \in JobId : Touches(j))
      BY <1>0, LedgerMoves DEF Ambiguity, Moves, Begins, Signs, Keeps
    <2>2. CASE mem' = mem /\ disk' \in {disk, mem}
      BY <1>0, <2>2
    <2> QED
      BY <1>0, <1>4, <1>5, <1>6, <2>1, <2>2

LEMMA LedgerInitially ==
    ASSUME RunnerAssumption, Init
    PROVE  LInv
  <1>1. IInv
    BY Initially
  <1>2. mem = NoJobs /\ disk = NoJobs /\ pc = "down" /\ acking = None
    BY DEF Init
  <1>3. \A j \in JobId : NoJobs[j].state = "absent"
    BY Forgotten
  <1> QED
    BY <1>1, <1>2, <1>3
       DEF LInv, Ambiguity, Flying, Synced, Lasting, Acknowledged, OnePerKey, Pending

LEMMA LedgerInvariance == Spec => []LInv
  <1>1. Init => LInv
    BY LedgerInitially, RunnerAssumption
  <1>2. LInv /\ [Next]_vars => LInv'
    <2> SUFFICES ASSUME LInv, [Next]_vars PROVE LInv'
      OBVIOUS
    <2>1. IInv'
      BY Inductive, RunnerAssumption DEF LInv
    <2> QED
      BY <2>1, AmbiguityStep, SyncedStep, AcknowledgedStep, KeyStep, RunnerAssumption DEF LInv
  <1> QED
    BY <1>1, <1>2, PTL DEF Spec

-----------------------------------------------------------------------------
(* While a submission is built or sent, no other job is ambiguous, neither *)
(* in memory nor in what a crash would reload, and no ledger ever holds    *)
(* two jobs that may or may not have been sent: for any number of jobs,    *)
(* retries and crashes, and whatever flushes throw.                       *)
THEOREM OneQuestionAtATime == Spec => []OneOpenQuestion
  <1>1. ASSUME LInv PROVE OneOpenQuestion
    BY <1>1 DEF LInv, Ambiguity, OneOpenQuestion, Flying
  <1> QED
    BY <1>1, LedgerInvariance, PTL

(* Two jobs of one key are never both unfinished or unresolved, in memory  *)
(* or on disk, for any keys, cooldowns, prunings and restarts.            *)
THEOREM OneIdeaInPlay == Spec => []OnePerKey
  <1>1. LInv => OnePerKey
    BY DEF LInv
  <1> QED
    BY <1>1, LedgerInvariance, PTL

(* No step of the runner clears what the ledger on disk says is            *)
(* unresolved, and none drops a job it has not seen finished: what memory  *)
(* holds is never behind the disk in either, so no write can.             *)
THEOREM QuestionsStayOpen == Spec => UnresolvedStays
  <1> DEFINE Stays(j) ==
                /\ disk[j].state = "unresolved" => disk'[j].state = "unresolved"
                /\ disk[j].state \in Pending =>
                      Present(disk', j) \/ mem[j].state \in Terminal \ {"unresolved"}
  <1>1. ASSUME LInv, [Next]_vars, NEW j \in JobId PROVE Stays(j)
    <2>0. TypeOK /\ Control /\ Ambiguity /\ IInv
      BY <1>1 DEF LInv, IInv
    <2>1. /\ "unresolved" \notin Pending /\ "absent" \notin Pending
          /\ "absent" # "unresolved" /\ "absent" \notin JobState
      BY DEF Pending, JobState, Terminal
    <2>2. /\ pc # "down" /\ Present(disk, j) => Present(mem, j)
          /\ pc # "down" /\ disk[j].state = "unresolved" => mem[j].state = "unresolved"
      BY <1>1 DEF LInv, IInv, Books, Ledgers, Lasting
    <2>3. disk' = disk => Stays(j)
      BY <2>1 DEF Present
    <2>4. CASE Keeps
      BY <2>1, <2>2, <2>3, <2>4 DEF Keeps, Present
    <2>5. CASE Prunes \/ Ceases
      <3>1. CASE disk' = Kept /\ pc = "drain"
        <4>1. Prunable(j) => mem[j].state \in Terminal \ {"unresolved"}
          BY DEF Prunable
        <4>2. ~Prunable(j) => Kept[j] = mem[j]
          BY DEF Kept
        <4> QED
          BY <2>1, <2>2, <3>1, <4>1, <4>2, Forgotten DEF Present
      <3> QED
        BY <2>3, <2>5, <3>1 DEF Prunes, Ceases
    <2>6. CASE Resumes
      BY <2>3, <2>6 DEF Resumes
    <2>7. ASSUME NEW i \in InboxId, Adds(i) PROVE Stays(j)
      <3>1. /\ nextJob \in JobId /\ disk[nextJob].state = "absent"
            /\ \A k \in JobId \ {nextJob} : mem'[k] = mem[k]
        BY <1>1, <2>0, <2>7, Added, RunnerAssumption
      <3>2. pc = "drain" /\ disk' \in {disk, mem'}
        BY <2>7 DEF Adds, Written
      <3> QED
        BY <2>1, <2>2, <2>3, <3>1, <3>2 DEF Present
    <2>8. ASSUME NEW k \in JobId, Moves(k) \/ Begins(k) \/ Signs(k) PROVE Stays(j)
      <3>1. /\ pc # "down" /\ disk' \in {disk, mem'} /\ mem[k].state \in Pending
            /\ mem'[k].state \in JobState
            /\ \A l \in JobId \ {k} : mem'[l] = mem[l]
        BY <2>8 DEF Moves, Begins, Signs, Touches, Written, JobState, Pending
      <3> QED
        BY <2>1, <2>2, <2>3, <3>1 DEF Present
    <2> QED
      BY <1>1, <2>0, <2>4, <2>5, <2>6, <2>7, <2>8, LedgerMoves, RunnerAssumption DEF Ambiguity
  <1>2. LInv /\ [Next]_vars => [\A j \in JobId : Stays(j)]_vars
    BY <1>1
  <1> QED
    BY <1>2, LedgerInvariance, PTL DEF Spec, UnresolvedStays

(* "The file is the record until the ledger is": if no flush throws, a     *)
(* file goes only when its intent was refused or its job is on disk.  The  *)
(* hypothesis is needed: a job that only memory holds is recognised too,   *)
(* and its file is unlinked (run lost_intent).                            *)
THEOREM FileIsTheRecord == ~FlushFaults => (Spec => IntentNeverLost)
  <1> DEFINE Lost == \A i \in files \ files' :
                       i \in refused' \/ \E j \in JobId : disk'[j].inboxId = i
  <1> SUFFICES ASSUME ~FlushFaults PROVE Spec => IntentNeverLost
    OBVIOUS
  <1>1. ASSUME LInv, [Next]_vars PROVE Lost
    <2> USE DEF storeVars, inboxVars, passVars, clockVars, historyVars
    <2>1. CASE Ack
      BY <1>1, <2>1 DEF Ack, LInv, Acknowledged
    <2>2. CASE ~Ack
      <3>1. Drain => files \subseteq files'
        BY <2>2 DEF Drain, BeginTick, PruneAndSnapshot, PruneThrew, IngestKnown,
           IngestRefused, IngestNew
      <3>2. Submission => files \subseteq files'
        BY DEF Submission, FitReady, FitPointless, FitUnread, FitUnfilled, BuildRefused,
           BuildFailed, onSubmitting, Send, Unsure, Sent, DriveFrame
      <3>3. \A j \in JobId : Drive(j) => files \subseteq files'
        BY DEF Drive, Held, Expire, NotYet, AskPosition, DriveSubmit,
           ResolveUnsigned, ResolveLanded, ResolveAborted, ResolveNeverLanded, ResolveUnknown,
           Resolving, AwaitOnchain, AwaitReduce, queueStopFits, AwaitGone, AwaitOrder,
           AwaitOverdue, AwaitMore, DriveFrame
      <3>4. World => files \subseteq files'
        BY DEF World, Submit, Include, Keeper, Elapse, Bury, Open, Close
      <3>5. files \subseteq files'
        BY <1>1, <3>1, <3>2, <3>3, <3>4 DEF Next, Loop, EndPass, Start, Crash, vars
      <3> QED
        BY <3>5
    <2> QED
      BY <2>1, <2>2
  <1>2. LInv /\ [Next]_vars => [Lost]_vars
    BY <1>1
  <1> QED
    BY <1>2, LedgerInvariance, PTL DEF Spec, IntentNeverLost
=============================================================================
