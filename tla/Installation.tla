---------------------------- MODULE Installation ----------------------------
(***************************************************************************)
(* One installation under delegated-auto: several processes, one spend     *)
(* ledger, one ledger of submissions, one chain.  Each process seeds its   *)
(* policy gate from the spend ledger when it starts; every write measures  *)
(* what is open, is authorized and counted, is built, spends its permit,   *)
(* is verified, signed and sent; a keeper fills it later.                  *)
(* Source: src/src/policy.ts (PolicyGate), agent/agent.ts (submit, #write, *)
(* #meter, #measureOpenCollateral), agent/spend.ts, agent/submissions.ts,  *)
(* agent/exposure.ts, chain/executor.ts, scripts/agent/execute.ts.         *)
(*                                                                         *)
(* Abstractions: bytes are named by the write they were built for; what    *)
(* the verifier checks is Signing's, here it passes the bytes of an equal  *)
(* intent only; the runner's own job store is Runner's.                    *)
(***************************************************************************)
EXTENDS Integers, Sequences, FiniteSets, Functions

CONSTANTS
    Undefined, NaN,
    Agents,       \* processes that keep an agent: the runner, which makes one
                  \* write at a time, and programs that use the package
    OneShots,     \* commands that execute one approval: they alone record what
                  \* they send in the ledger of submissions
    AtOnce,       \* how many writes an agent may have under way
    Writes,       \* what they are asked to do
    Intent,       \* the intent of each
    TheScope,     \* the ceilings
    MaxCrashes,   \* bound: processes killed
    MaxFaults     \* bound: appends to the spend ledger that go wrong

Gate == INSTANCE PolicyGate

Processes == Agents \cup OneShots

(* A permit names the write it was issued for and the bytes it is bound to. *)
Permits == [for : Writes, boundTo : Writes \cup {Undefined}]

Gates == [spent : Int, permits : SUBSET Permits]

(* What the types of the source and the constructor of the gate guarantee. *)
ASSUME InstallationAssumption ==
    /\ IsFiniteSet(Writes) /\ IsFiniteSet(Processes)
    /\ Undefined \notin Writes \cup Processes /\ Undefined \notin Gates
    /\ \A w \in Writes : Intent[w].collateral \in Int \cup {Undefined, NaN}
    /\ \A ceiling \in Gate!Ceilings : TheScope[ceiling] \in Int \cup {Undefined, NaN}
    /\ Gate!CanBuild("delegated-auto", TheScope, TRUE)

VARIABLES
    spend,       \* disk: [sum, torn]: what the lines that parse add up to, and
                 \* whether the last one is cut short
    submissions, \* disk: the writes recorded as sent and not settled
    gate,        \* memory of each process: [spent, permits], or Undefined
    stage,       \* of each write
    by,          \* the process that took it
    listed,      \* the positions it was told of, until it is authorized
    chain,       \* of each write: "none", "sent", "resting", "open" or "over"
    signed,      \* pairs of a permit and the bytes signed for it, in order
    most,        \* history: the most gates that held the budget at one time
    lost,        \* history: commitments appended to a line cut short, which no
                 \* reader of the ledger will see
    unseen,      \* history: writes at risk that some authorization did not count
    crashes, faults

disk == <<spend, submissions>>
history == <<most, unseen>>
bounds == <<crashes, faults>>
vars == <<disk, gate, stage, by, listed, chain, signed, history, lost, bounds>>

Collateral(w) == IF Intent[w].collateral = Undefined THEN 0 ELSE Intent[w].collateral

Sum(writes) == SumFunctionOnSet([w \in Writes |-> Collateral(w)], writes)

Advance(w, s) == stage' = [stage EXCEPT ![w] = s]

-----------------------------------------------------------------------------
(* The spend ledger.  A line cut short swallows the next one, too.        *)

AppendLine(amount, outcome) ==
    CASE outcome = "written" ->
            /\ spend' = [sum |-> spend.sum + (IF spend.torn THEN 0 ELSE amount), torn |-> FALSE]
            /\ lost' = IF spend.torn /\ amount > 0 THEN lost + amount ELSE lost
      [] outcome = "failed" -> UNCHANGED <<spend, lost>>
      [] outcome = "torn" -> spend' = [spend EXCEPT !.torn = TRUE] /\ UNCHANGED lost

Outcomes == IF faults < MaxFaults THEN {"written", "failed", "torn"} ELSE {"written"}

Tried(outcome) == faults' = faults + (IF outcome = "written" THEN 0 ELSE 1)

(* A gate counts in memory, then in the ledger, what a write commits: both *)
(* or, when the append throws, memory alone.  Nothing is appended for a    *)
(* write that commits nothing.                                             *)
CountFor(p, amount, outcome, permits) ==
    /\ gate' = [gate EXCEPT ![p] = [spent |-> @.spent + amount, permits |-> permits]]
    /\ IF amount = 0 THEN outcome = "written" /\ UNCHANGED <<spend, lost>>
       ELSE AppendLine(amount, outcome)
    /\ Tried(outcome)

-----------------------------------------------------------------------------
(* Authorization.                                                         *)

Load_FromZero(p) ==
    /\ gate[p] = Undefined
    /\ gate' = [gate EXCEPT ![p] = [spent |-> 0, permits |-> {}]]
    /\ most' = LET live == Cardinality({q \in Processes : gate'[q] # Undefined})
               IN IF live > most THEN live ELSE most
    /\ UNCHANGED <<disk, stage, by, listed, chain, signed, unseen, lost, bounds>>

(* The write plane is built on first use: the gate starts from the ledger. *)
Load(p) ==
    /\ gate[p] = Undefined
    /\ gate' = [gate EXCEPT ![p] = [spent |-> spend.sum, permits |-> {}]]
    /\ most' = LET live == Cardinality({q \in Processes : gate'[q] # Undefined})
               IN IF live > most THEN live ELSE most
    /\ UNCHANGED <<disk, stage, by, listed, chain, signed, unseen, lost, bounds>>

Positions == {w \in Writes : chain[w] = "open"}

(* submit: the open positions are read, and that takes a while.           *)
ReadPositions(p, w) ==
    /\ stage[w] = "asked" /\ gate[p] # Undefined
    /\ p \in Agents => Cardinality({v \in Writes : by[v] = p /\ stage[v] # "done"}) < AtOnce
    /\ p \in OneShots => \A v \in Writes : by[v] # p
    /\ by' = [by EXCEPT ![w] = p]
    /\ listed' = [listed EXCEPT ![w] = Positions]
    /\ Advance(w, "listed")
    /\ UNCHANGED <<disk, gate, chain, signed, history, lost, bounds>>

InFlight == {[id |-> v, action |-> Intent[v].action, collateral |-> Intent[v].collateral] :
                v \in submissions}

Measured_PositionsOnly(w) == Sum(listed[w])

(* What the write's authorization weighs: the positions it was told of and *)
(* the submissions nobody has settled.                                     *)
Measured(w) ==
    Sum(listed[w]) + Gate!OpenCollateralOf({}, InFlight, TheScope.maxCollateralPerOrder)

(* Signed or about to be, and neither closed nor known to be void.        *)
AtRisk ==
    {v \in Writes : /\ ~Gate!IsExit(Intent[v].action)
                    /\ \/ chain[v] \in {"sent", "resting", "open"}
                       \/ stage[v] \in {"authorized", "built", "cleared", "signed", "recorded"}}

(* PolicyGate.authorize: count and issue a permit, or refuse.             *)
Authorize(w) ==
    /\ stage[w] = "listed"
    /\ LET p == by[w]
       IN IF Gate!Authorizes("delegated-auto", TheScope, Intent[w], FALSE, 0, Measured(w),
                             gate[p].spent)
          THEN \E outcome \in Outcomes :
                 LET done == outcome = "written"
                 IN /\ CountFor(p, Gate!Commits(Intent[w]), outcome,
                                gate[p].permits \cup
                                    (IF done THEN {[for |-> w, boundTo |-> Undefined]} ELSE {}))
                    /\ Advance(w, IF done THEN "authorized" ELSE "done")
                    /\ unseen' = IF Gate!IsMetered(Intent[w])
                                 THEN unseen \cup (AtRisk \ (listed[w] \cup submissions))
                                 ELSE unseen
          ELSE /\ Advance(w, "done")
               /\ UNCHANGED <<spend, gate, lost, unseen, faults>>
    /\ listed' = [listed EXCEPT ![w] = {}]
    /\ UNCHANGED <<submissions, by, chain, signed, most, crashes>>

(* The backend builds, and the permit is bound to exactly those bytes.    *)
Build(w) ==
    /\ stage[w] = "authorized"
    /\ gate' = [gate EXCEPT ![by[w]].permits =
            (@ \ {[for |-> w, boundTo |-> Undefined]}) \cup {[for |-> w, boundTo |-> w]}]
    /\ Advance(w, "built")
    /\ UNCHANGED <<disk, by, listed, chain, signed, history, lost, bounds>>

Release_Twice(p, w, outcome) ==
    CountFor(p, -2 * Gate!Commits(Intent[w]), outcome,
             {k \in gate[p].permits : k.for # w})

(* #release: what was counted is given back, and the permit with it.      *)
Release(p, w, outcome) ==
    CountFor(p, -Gate!Commits(Intent[w]), outcome, {k \in gate[p].permits : k.for # w})

(* It refuses: no bytes exist, so nothing can be signed.                  *)
BuildFailed(w) ==
    /\ stage[w] = "authorized"
    /\ \E outcome \in Outcomes : Release(by[w], w, outcome)
    /\ Advance(w, "done")
    /\ UNCHANGED <<submissions, by, listed, chain, signed, history, crashes>>

-----------------------------------------------------------------------------
(* Execution.                                                             *)

CanConsume_Unbound(p, permit, w, bytes) ==
    permit \in gate[p].permits /\ Intent[permit.for] = Intent[w]

(* consume: issued here and not spent, for this very intent, and bound to  *)
(* these very bytes.                                                       *)
CanConsume(p, permit, w, bytes) ==
    /\ permit \in gate[p].permits
    /\ Intent[permit.for] = Intent[w]
    /\ permit.boundTo = bytes

Spent(p, permit) == gate' = [gate EXCEPT ![p].permits = @ \ {permit}]

(* execute(built, intent, permit): a caller may present any permit with    *)
(* the intent of w and any bytes that have been built.  A refusal by       *)
(* consume changes nothing; past it the permit is spent, whatever the      *)
(* deployment, the corpus and the verifier then say.                       *)
Present(w, permit, bytes) ==
    /\ stage[w] = "built"
    /\ CanConsume(by[w], permit, w, bytes)
    /\ Spent(by[w], permit)
    /\ \/ /\ Intent[bytes] = Intent[w]
          /\ signed' = Append(signed, [permit |-> permit.for, bytes |-> bytes])
          /\ Advance(w, "signed")
       \/ Advance(w, "done") /\ UNCHANGED signed
    /\ UNCHANGED <<disk, by, listed, chain, history, lost, bounds>>

(* onSubmitting, before the bytes go out: a one-shot writes down what it   *)
(* sends and what it commits; the runner's own record is not this ledger.  *)
Record(w) ==
    /\ stage[w] = "signed"
    /\ submissions' = IF by[w] \in OneShots THEN submissions \cup {w} ELSE submissions
    /\ Advance(w, "recorded")
    /\ UNCHANGED <<spend, gate, by, listed, chain, signed, history, lost, bounds>>

(* The record could not be written: nothing is sent.                      *)
RecordFailed(w) ==
    /\ stage[w] = "signed" /\ by[w] \in OneShots
    /\ Advance(w, "done")
    /\ UNCHANGED <<disk, gate, by, listed, chain, signed, history, lost, bounds>>

Send(w) ==
    /\ stage[w] = "recorded"
    /\ chain' = [chain EXCEPT ![w] = "sent"]
    /\ Advance(w, "waiting")
    /\ UNCHANGED <<disk, gate, by, listed, signed, history, lost, bounds>>

(* The chain's confirmation settles a one-shot's submission: landed, and   *)
(* nothing of what becomes of the order.                                   *)
Confirm(w) ==
    /\ stage[w] = "waiting" /\ chain[w] # "sent"
    /\ submissions' = submissions \ {w}
    /\ Advance(w, "done")
    /\ UNCHANGED <<spend, gate, by, listed, chain, signed, history, lost, bounds>>

(* Or the wait ends first, and a person reconciles later.                 *)
GiveUp(w) ==
    /\ stage[w] = "waiting"
    /\ Advance(w, "done")
    /\ UNCHANGED <<disk, gate, by, listed, chain, signed, history, lost, bounds>>

Reconcile(w) ==
    /\ w \in submissions /\ chain[w] \in {"resting", "open", "over"}
    /\ submissions' = submissions \ {w}
    /\ UNCHANGED <<spend, gate, stage, by, listed, chain, signed, history, lost, bounds>>

-----------------------------------------------------------------------------
(* The chain, the keeper, and processes that die.                         *)

Becomes(w, from, to) ==
    /\ chain[w] = from /\ chain' = [chain EXCEPT ![w] = to]
    /\ UNCHANGED <<disk, gate, stage, by, listed, signed, history, lost, bounds>>

(* The request takes effect, or is dropped or aborted; the keeper fills    *)
(* the order; the position is closed.                                      *)
Lands(w) == Becomes(w, "sent", "resting")
Fails(w) == Becomes(w, "sent", "over")
Fills(w) == Becomes(w, "resting", "open")
Closes(w) == Becomes(w, "open", "over")

Ends(p) ==
    /\ gate' = [gate EXCEPT ![p] = Undefined]
    /\ by' = [w \in Writes |-> IF by[w] = p THEN Undefined ELSE by[w]]

(* A process ends when all it took is done: a command after its write.    *)
Exit(p) ==
    /\ gate[p] # Undefined
    /\ \A w \in Writes : by[w] = p => stage[w] = "done"
    /\ \E w \in Writes : by[w] = p
    /\ Ends(p)
    /\ UNCHANGED <<disk, stage, listed, chain, signed, history, lost, bounds>>

(* The memory goes, and whatever the process was doing.                   *)
Crash(p) ==
    /\ gate[p] # Undefined /\ crashes < MaxCrashes
    /\ crashes' = crashes + 1
    /\ Ends(p)
    /\ stage' = [w \in Writes |-> IF by[w] = p THEN "done" ELSE stage[w]]
    /\ UNCHANGED <<disk, listed, chain, signed, history, lost, faults>>

Init ==
    /\ spend = [sum |-> 0, torn |-> FALSE] /\ submissions = {}
    /\ gate = [p \in Processes |-> Undefined]
    /\ stage = [w \in Writes |-> "asked"] /\ by = [w \in Writes |-> Undefined]
    /\ listed = [w \in Writes |-> {}] /\ chain = [w \in Writes |-> "none"]
    /\ signed = <<>> /\ most = 0 /\ lost = 0 /\ unseen = {}
    /\ crashes = 0 /\ faults = 0

Next ==
    \/ \E p \in Processes : Load(p) \/ Exit(p) \/ Crash(p) \/ \E w \in Writes : ReadPositions(p, w)
    \/ \E w \in Writes :
        \/ Authorize(w) \/ Build(w) \/ BuildFailed(w)
        \/ \E v \in Writes : \E b \in {u \in Writes : stage[u] = "built"} :
              Present(w, [for |-> v, boundTo |-> v], b)
        \/ Record(w) \/ RecordFailed(w) \/ Send(w) \/ Confirm(w) \/ GiveUp(w) \/ Reconcile(w)
        \/ Lands(w) \/ Fails(w) \/ Fills(w) \/ Closes(w)

Spec == Init /\ [][Next]_vars

-----------------------------------------------------------------------------
(* Properties.                                                            *)

SignedAway == SumFunction([i \in DOMAIN signed |-> Gate!Commits(Intent[signed[i].bytes])])

(* SPEND IS WRITTEN BEFORE IT IS SIGNED.  Whatever crashes, refuses or     *)
(* fails to append, the ledger that the next process reads tells of at     *)
(* least everything that was signed: releases never give back more than   *)
(* was counted, and only a line that follows one cut short is lost.        *)
SpendCoversSignatures == SignedAway <= spend.sum + lost

(* THE BUDGET OUTLIVES THE PROCESS.  Restarted as often as it may be, an   *)
(* installation signs away no more than the cumulative ceiling for each of *)
(* the processes that held the budget at one time, as long as the ledger   *)
(* loses no line.                                                          *)
BudgetKept == lost = 0 => SignedAway <= most * TheScope.maxCumulativeCollateral

(* ONE AUTHORIZATION, ONE SIGNATURE.  Whichever permit is presented with   *)
(* whatever bytes, each authorization signs once at most, and only the     *)
(* bytes that were built under it.                                         *)
OneSignaturePerAuthorization ==
    \A i, j \in DOMAIN signed :
        /\ signed[i].bytes = signed[i].permit
        /\ signed[i].permit = signed[j].permit => i = j

(* WHAT THE CEILING CAN SEE, IT HOLDS.  What is at risk exceeds the        *)
(* concurrent ceiling by no more than the orders that some authorization   *)
(* was not told of: not listed as positions when it asked, and not among   *)
(* the submissions nobody had settled.                                     *)
OpenWithinWhatWasSeen == Sum(AtRisk \ unseen) <= TheScope.maxOpenCollateral

(* README: the concurrent ceiling measures "open positions plus orders     *)
(* already sent that nobody has filled".                                   *)
OpenCeilingHolds ==
    Sum({w \in AtRisk : chain[w] # "none"}) <= TheScope.maxOpenCollateral
=============================================================================
