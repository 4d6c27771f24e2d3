-------------------------- MODULE InstallationProofs --------------------------
(***************************************************************************)
(* The theorems about Installation: the ledger covers what was signed, the *)
(* budget outlives the processes, one authorization signs once, and the    *)
(* concurrent ceiling holds what it can see.                               *)
(***************************************************************************)
EXTENDS Installation, SumLemmas

Held == {w \in Writes : stage[w] \in {"authorized", "built"}}

Live == {p \in Processes : gate[p] # Undefined}

Taken == {"listed", "authorized", "built", "signed", "recorded", "waiting"}

TypeOK ==
    /\ spend \in [sum : Int, torn : BOOLEAN] /\ submissions \in SUBSET Writes
    /\ gate \in [Processes -> Gates \cup {Undefined}]
    /\ stage \in [Writes -> Taken \cup {"asked", "done"}]
    /\ by \in [Writes -> Processes \cup {Undefined}]
    /\ listed \in [Writes -> SUBSET Writes]
    /\ chain \in [Writes -> {"none", "sent", "resting", "open", "over"}]
    /\ signed \in Seq([permit : Writes, bytes : Writes])
    /\ most \in Nat /\ lost \in Nat /\ unseen \in SUBSET Writes

(* Whoever has a write under way is running.                              *)
Running == \A w \in Writes : stage[w] \in Taken => by[w] \in Live

(* A permit is in the gate of the process that took the write, unbound     *)
(* until the bytes of that write exist, and bound to them afterwards.      *)
InOrder(p, k) ==
    /\ by[k.for] = p /\ stage[k.for] \notin {"asked", "listed"}
    /\ k.boundTo = (IF stage[k.for] = "authorized" THEN Undefined ELSE k.for)

Issued == \A p \in Live : \A k \in gate[p].permits : InOrder(p, k)

(* What was signed was signed under its own permit, which is gone.        *)
Used ==
    \A i \in DOMAIN signed :
        /\ signed[i].bytes = signed[i].permit
        /\ stage[signed[i].permit] \notin {"asked", "listed", "authorized"}
        /\ \A p \in Live : \A k \in gate[p].permits : k.for # signed[i].permit

(* Nothing that no ceiling can weigh gets past its authorization.         *)
AtStake ==
    {w \in Writes :
        \/ stage[w] \in Taken \ {"listed"}
        \/ chain[w] # "none"
        \/ w \in submissions
        \/ \E v \in Writes : w \in listed[v]
        \/ \E i \in DOMAIN signed : w = signed[i].bytes}

Weighed == \A w \in AtStake : Gate!Measurable(Intent[w])

Commitment == [w \in Writes |-> Gate!Commits(Intent[w])]

Committed(writes) == SumFunctionOnSet(Commitment, writes)

(* What is signed and what is about to be is in the ledger.               *)
Covered == SignedAway + Committed(Held) <= spend.sum + lost

(* What each gate has counted includes what its process holds.            *)
HeldBy(p) == {w \in Held : by[w] = p}

Counted == lost = 0 => \A p \in Live : gate[p].spent >= Committed(HeldBy(p))

(* What the running processes may still authorize.                        *)
Left(spent) ==
    IF spent < TheScope.maxCumulativeCollateral
    THEN TheScope.maxCumulativeCollateral - spent ELSE 0

Room(gates, live) == SumFunctionOnSet([p \in live |-> Left(gates[p].spent)], live)

Budgeted ==
    /\ Cardinality(Live) <= most
    /\ lost = 0 =>
        SignedAway + Committed(Held) + Room(gate, Live)
            <= most * TheScope.maxCumulativeCollateral

IInv ==
    /\ TypeOK /\ Running /\ Issued /\ Used /\ Weighed
    /\ OneSignaturePerAuthorization /\ Covered /\ Counted /\ Budgeted

-----------------------------------------------------------------------------
(* Steps that are past the gate: what they change and what they leave.    *)
Out == {"signed", "recorded", "waiting"}

Onward(w) ==
    \/ Record(w) \/ RecordFailed(w) \/ Send(w) \/ Confirm(w) \/ GiveUp(w) \/ Reconcile(w)
    \/ Lands(w) \/ Fails(w) \/ Fills(w) \/ Closes(w)

LEMMA OnwardStep ==
    ASSUME TypeOK, NEW w \in Writes, Onward(w)
    PROVE  /\ UNCHANGED <<spend, gate, by, listed, signed, most, unseen, lost>>
           /\ submissions' \in SUBSET Writes
           /\ stage' \in [Writes -> Taken \cup {"asked", "done"}]
           /\ chain' \in [Writes -> {"none", "sent", "resting", "open", "over"}]
           /\ \A v \in Writes :
                 stage'[v] # stage[v] => stage[v] \in Out /\ stage'[v] \in Out \cup {"done"}
           /\ \A v \in submissions' \ submissions : stage[v] = "signed"
           /\ \A v \in Writes :
                 chain'[v] # "none" => chain[v] # "none" \/ stage[v] = "recorded"
  <1> USE DEF TypeOK, Taken, Out, Advance, disk, history, bounds
  <1>1. CASE Record(w)
    BY <1>1 DEF Record
  <1>2. CASE RecordFailed(w)
    BY <1>2 DEF RecordFailed
  <1>3. CASE Send(w)
    BY <1>3 DEF Send
  <1>4. CASE Confirm(w)
    BY <1>4 DEF Confirm
  <1>5. CASE GiveUp(w)
    BY <1>5 DEF GiveUp
  <1>6. CASE Reconcile(w)
    BY <1>6 DEF Reconcile
  <1>7. CASE Lands(w) \/ Fails(w) \/ Fills(w) \/ Closes(w)
    BY <1>7 DEF Lands, Fails, Fills, Closes, Becomes
  <1> QED
    BY <1>1, <1>2, <1>3, <1>4, <1>5, <1>6, <1>7 DEF Onward

(* Every step is one of these.                                            *)
LEMMA Steps ==
    ASSUME [Next]_vars
    PROVE  \/ UNCHANGED vars
           \/ \E p \in Processes : Load(p) \/ Exit(p) \/ Crash(p)
           \/ \E p \in Processes, w \in Writes : ReadPositions(p, w)
           \/ \E w \in Writes : Authorize(w) \/ Build(w) \/ BuildFailed(w)
           \/ \E w, v, b \in Writes : stage[b] = "built"
                                      /\ Present(w, [for |-> v, boundTo |-> v], b)
           \/ \E w \in Writes : Onward(w)
  BY DEF Next, Onward

-----------------------------------------------------------------------------
(* What an intent is worth, once no field of it is beyond measure.        *)
LEMMA Measures ==
    ASSUME NEW w \in Writes, Gate!Measurable(Intent[w])
    PROVE  /\ Commitment[w] \in Nat /\ Collateral(w) \in Nat
           /\ Commitment[w] = Gate!Commits(Intent[w])
           /\ Commitment[w] # 0 => /\ ~Gate!IsExit(Intent[w].action)
                                   /\ Intent[w].collateral # Undefined
                                   /\ Commitment[w] = Intent[w].collateral
  BY InstallationAssumption DEF Gate!Measurable, Gate!Commits, Commitment, Collateral

LEMMA Ceiling ==
    /\ TheScope.maxCumulativeCollateral \in Nat /\ TheScope.maxOpenCollateral \in Nat
    /\ TheScope.maxCollateralPerOrder \in Nat
  BY InstallationAssumption DEF Gate!CanBuild, Gate!ScopeIsComplete, Gate!Ceilings

(* What is authorized under the scope.                                    *)
LEMMA Authorized ==
    ASSUME NEW w \in Writes, NEW open, NEW spent \in Int,
           Gate!Authorizes("delegated-auto", TheScope, Intent[w], FALSE, 0, open, spent)
    PROVE  /\ Gate!Measurable(Intent[w])
           /\ Commitment[w] \in Nat
           /\ Commitment[w] # 0 => spent + Commitment[w] <= TheScope.maxCumulativeCollateral
  <1>1. Gate!Measurable(Intent[w]) /\ Gate!InScope(Intent[w], TheScope, 0, open, spent)
    BY DEF Gate!Authorizes
  <1> QED
    BY <1>1, Measures DEF Gate!InScope, Gate!IsMetered

(* A gate that changes is a gate, and so the process keeps running.       *)
LEMMA Updated ==
    ASSUME TypeOK, NEW p \in Processes, NEW r \in Gates, gate' = [gate EXCEPT ![p] = r]
    PROVE  /\ gate' \in [Processes -> Gates \cup {Undefined}]
           /\ Live' = Live \cup {p} /\ gate'[p] = r
           /\ \A q \in Processes : q # p => gate'[q] = gate[q]
  <1>1. r # Undefined
    BY InstallationAssumption
  <1>2. gate' \in [Processes -> Gates \cup {Undefined}] /\ gate'[p] = r
        /\ \A q \in Processes : q # p => gate'[q] = gate[q]
    BY DEF TypeOK
  <1> QED
    BY <1>1, <1>2 DEF Live

(* What counting does to the gate and to the ledger.                      *)
LEMMA Counts ==
    ASSUME TypeOK, NEW p \in Live, NEW amount \in Int, NEW permits \in SUBSET Permits,
           NEW outcome \in {"written", "failed", "torn"}, CountFor(p, amount, outcome, permits)
    PROVE  /\ gate' = [gate EXCEPT ![p] = [spent |-> gate[p].spent + amount,
                                           permits |-> permits]]
           /\ gate[p].spent \in Int /\ gate'[p] \in Gates
           /\ gate' \in [Processes -> Gates \cup {Undefined}] /\ Live' = Live
           /\ spend' \in [sum : Int, torn : BOOLEAN] /\ lost' \in Nat /\ lost' >= lost
           /\ outcome # "written" => spend'.sum = spend.sum /\ lost' = lost
           /\ amount >= 0 /\ outcome = "written" =>
                 spend'.sum + lost' = spend.sum + lost + amount
           /\ amount <= 0 => spend'.sum + lost' >= spend.sum + lost + amount
  <1>1. p \in Processes /\ gate[p] \in Gates
    BY DEF Live, TypeOK
  <1>2. gate' = [gate EXCEPT ![p] = [spent |-> gate[p].spent + amount, permits |-> permits]]
    BY DEF CountFor
  <1>3. gate[p].spent \in Int /\ [spent |-> gate[p].spent + amount, permits |-> permits] \in Gates
    BY <1>1 DEF Gates
  <1>4. gate'[p] \in Gates /\ gate' \in [Processes -> Gates \cup {Undefined}] /\ Live' = Live
    <2> DEFINE r == [spent |-> gate[p].spent + amount, permits |-> permits]
    <2>1. r \in Gates /\ gate' = [gate EXCEPT ![p] = r]
      BY <1>2, <1>3
    <2> HIDE DEF r
    <2>2. Live \cup {p} = Live
      OBVIOUS
    <2> QED
      BY <1>1, <2>1, <2>2, Updated
  <1>5. spend \in [sum : Int, torn : BOOLEAN] /\ lost \in Nat
    BY DEF TypeOK
  <1>6. CASE amount = 0
    BY <1>5, <1>6, <1>2, <1>3, <1>4 DEF CountFor
  <1>7. CASE amount # 0 /\ outcome = "written"
    <2>1. /\ spend' = [sum |-> spend.sum + (IF spend.torn THEN 0 ELSE amount), torn |-> FALSE]
          /\ lost' = IF spend.torn /\ amount > 0 THEN lost + amount ELSE lost
      BY <1>7 DEF CountFor, AppendLine
    <2> QED
      BY <2>1, <1>7, <1>5, <1>2, <1>3, <1>4
  <1>8. CASE amount # 0 /\ outcome \in {"failed", "torn"}
    <2>1. (spend' = spend \/ spend' = [spend EXCEPT !.torn = TRUE]) /\ lost' = lost
      BY <1>8 DEF CountFor, AppendLine
    <2>2. spend' \in [sum : Int, torn : BOOLEAN] /\ spend'.sum = spend.sum
      BY <2>1, <1>5
    <2>3. spend.sum \in Int
      BY <1>5
    <2> QED
      BY <2>1, <2>2, <2>3, <1>8, <1>5, <1>2, <1>3, <1>4
  <1> QED
    BY <1>6, <1>7, <1>8

(* Authorization: refused, counted in vain, or counted and granted.       *)
LEMMA AuthorizeStep ==
    ASSUME TypeOK, Running, NEW w \in Writes, Authorize(w)
    PROVE  /\ stage[w] = "listed" /\ by[w] \in Live
           /\ UNCHANGED <<submissions, by, chain, signed, most>>
           /\ listed' = [listed EXCEPT ![w] = {}]
           /\ unseen' \in SUBSET Writes /\ unseen \subseteq unseen'
           /\ \/ UNCHANGED <<spend, gate, lost>> /\ stage' = [stage EXCEPT ![w] = "done"]
              \/ \E done \in BOOLEAN :
                    /\ Gate!Measurable(Intent[w]) /\ Commitment[w] \in Nat
                    /\ Commitment[w] # 0 => gate[by[w]].spent + Commitment[w]
                                                <= TheScope.maxCumulativeCollateral
                    /\ stage' = [stage EXCEPT ![w] = IF done THEN "authorized" ELSE "done"]
                    /\ gate' = [gate EXCEPT ![by[w]] =
                          [spent |-> gate[by[w]].spent + Commitment[w],
                           permits |-> gate[by[w]].permits \cup
                              (IF done THEN {[for |-> w, boundTo |-> Undefined]} ELSE {})]]
                    /\ gate' \in [Processes -> Gates \cup {Undefined}] /\ Live' = Live
                    /\ spend' \in [sum : Int, torn : BOOLEAN]
                    /\ lost' \in Nat /\ lost' >= lost
                    /\ spend'.sum + lost' =
                          spend.sum + lost + (IF done THEN Commitment[w] ELSE 0)
  <1> DEFINE p == by[w]
             permits(done) == gate[p].permits \cup
                                 (IF done THEN {[for |-> w, boundTo |-> Undefined]} ELSE {})
  <1>1. stage[w] = "listed" /\ UNCHANGED <<submissions, by, chain, signed, most>>
        /\ listed' = [listed EXCEPT ![w] = {}]
    BY DEF Authorize
  <1>2. p \in Live /\ gate[p] \in Gates /\ gate[p].spent \in Int /\ gate[p].permits \in SUBSET Permits
    BY <1>1 DEF Running, Taken, Live, TypeOK, Gates
  <1>3. unseen' \in SUBSET Writes /\ unseen \subseteq unseen'
    BY DEF Authorize, AtRisk, TypeOK
  <1>4. CASE Gate!Authorizes("delegated-auto", TheScope, Intent[w], FALSE, 0, Measured(w),
                             gate[p].spent)
    <2>1. PICK outcome \in Outcomes :
             /\ CountFor(p, Gate!Commits(Intent[w]), outcome, permits(outcome = "written"))
             /\ Advance(w, IF outcome = "written" THEN "authorized" ELSE "done")
      BY <1>4 DEF Authorize
    <2>2. outcome \in {"written", "failed", "torn"}
      BY DEF Outcomes
    <2>3. /\ Gate!Measurable(Intent[w]) /\ Commitment[w] \in Nat
          /\ Commitment[w] # 0 => gate[p].spent + Commitment[w]
                                      <= TheScope.maxCumulativeCollateral
      BY <1>2, <1>4, Authorized
    <2>4. CountFor(p, Commitment[w], outcome, permits(outcome = "written"))
      BY <2>1, <2>3, Measures
    <2>5. permits(outcome = "written") \in SUBSET Permits
      BY <1>2 DEF Permits
    <2>6. stage' = [stage EXCEPT ![w] = IF outcome = "written" THEN "authorized" ELSE "done"]
      BY <2>1 DEF Advance
    <2> HIDE DEF p, permits
    <2>7. /\ gate' = [gate EXCEPT ![p] = [spent |-> gate[p].spent + Commitment[w],
                                          permits |-> permits(outcome = "written")]]
          /\ gate' \in [Processes -> Gates \cup {Undefined}] /\ Live' = Live
          /\ spend' \in [sum : Int, torn : BOOLEAN] /\ lost' \in Nat /\ lost' >= lost
          /\ outcome # "written" => spend'.sum = spend.sum /\ lost' = lost
          /\ outcome = "written" => spend'.sum + lost' = spend.sum + lost + Commitment[w]
      BY <1>2, <2>2, <2>3, <2>4, <2>5, Counts
    <2>8. spend.sum \in Int /\ lost \in Nat
      BY DEF TypeOK
    <2>9. spend'.sum + lost' =
             spend.sum + lost + (IF outcome = "written" THEN Commitment[w] ELSE 0)
      BY <2>3, <2>7, <2>8
    <2> QED
      BY <1>1, <1>2, <1>3, <2>3, <2>6, <2>7, <2>9 DEF p, permits
  <1>5. CASE ~Gate!Authorizes("delegated-auto", TheScope, Intent[w], FALSE, 0, Measured(w),
                              gate[p].spent)
    BY <1>1, <1>2, <1>3, <1>5 DEF Authorize, Advance
  <1> QED
    BY <1>4, <1>5

(* The backend refuses: what was counted comes back, in memory at least.  *)
LEMMA BuildFailedStep ==
    ASSUME TypeOK, Running, Weighed, NEW w \in Writes, BuildFailed(w)
    PROVE  /\ stage[w] = "authorized" /\ by[w] \in Live /\ Commitment[w] \in Nat
           /\ UNCHANGED <<submissions, by, listed, chain, signed, most, unseen>>
           /\ stage' = [stage EXCEPT ![w] = "done"]
           /\ gate' = [gate EXCEPT ![by[w]] =
                 [spent |-> gate[by[w]].spent - Commitment[w],
                  permits |-> {k \in gate[by[w]].permits : k.for # w}]]
           /\ gate' \in [Processes -> Gates \cup {Undefined}] /\ Live' = Live
           /\ spend' \in [sum : Int, torn : BOOLEAN] /\ lost' \in Nat /\ lost' >= lost
           /\ spend'.sum + lost' >= spend.sum + lost - Commitment[w]
  <1> DEFINE p == by[w]
             permits == {k \in gate[p].permits : k.for # w}
  <1>1. /\ stage[w] = "authorized" /\ stage' = [stage EXCEPT ![w] = "done"]
        /\ UNCHANGED <<submissions, by, listed, chain, signed, most, unseen>>
    BY DEF BuildFailed, Advance, history
  <1>2. p \in Live /\ gate[p] \in Gates /\ gate[p].spent \in Int /\ gate[p].permits \in SUBSET Permits
    BY <1>1 DEF Running, Taken, Live, TypeOK, Gates
  <1>3. Commitment[w] \in Nat /\ Commitment[w] = Gate!Commits(Intent[w])
    BY <1>1, Measures DEF Weighed, AtStake, Taken
  <1>4. PICK outcome \in Outcomes : CountFor(p, -Gate!Commits(Intent[w]), outcome, permits)
    BY DEF BuildFailed, Release
  <1>5. CountFor(p, -Commitment[w], outcome, permits)
    BY <1>3, <1>4
  <1>6. outcome \in {"written", "failed", "torn"}
    BY DEF Outcomes
  <1>7. permits \in SUBSET Permits
    BY <1>2
  <1>8. -Commitment[w] \in Int /\ -Commitment[w] <= 0
    BY <1>3
  <1> HIDE DEF p, permits
  <1>9. /\ gate' = [gate EXCEPT ![p] = [spent |-> gate[p].spent + (-Commitment[w]),
                                        permits |-> permits]]
        /\ gate' \in [Processes -> Gates \cup {Undefined}] /\ Live' = Live
        /\ spend' \in [sum : Int, torn : BOOLEAN] /\ lost' \in Nat /\ lost' >= lost
        /\ spend'.sum + lost' >= spend.sum + lost + (-Commitment[w])
    BY <1>2, <1>5, <1>6, <1>7, <1>8, Counts
  <1>10. /\ gate[p].spent + (-Commitment[w]) = gate[p].spent - Commitment[w]
         /\ spend.sum + lost + (-Commitment[w]) = spend.sum + lost - Commitment[w]
    BY <1>2, <1>3 DEF TypeOK
  <1> QED
    BY <1>1, <1>2, <1>3, <1>9, <1>10 DEF p, permits

LEMMA BuildStep ==
    ASSUME TypeOK, Running, NEW w \in Writes, Build(w)
    PROVE  /\ stage[w] = "authorized" /\ by[w] \in Live
           /\ UNCHANGED <<spend, submissions, by, listed, chain, signed, most, unseen, lost>>
           /\ stage' = [stage EXCEPT ![w] = "built"]
           /\ gate' = [gate EXCEPT ![by[w]] =
                 [spent |-> gate[by[w]].spent,
                  permits |-> (gate[by[w]].permits \ {[for |-> w, boundTo |-> Undefined]})
                                  \cup {[for |-> w, boundTo |-> w]}]]
           /\ gate' \in [Processes -> Gates \cup {Undefined}] /\ Live' = Live
  <1> DEFINE p == by[w]
             permits == (gate[p].permits \ {[for |-> w, boundTo |-> Undefined]})
                            \cup {[for |-> w, boundTo |-> w]}
  <1>1. /\ stage[w] = "authorized" /\ stage' = [stage EXCEPT ![w] = "built"]
        /\ UNCHANGED <<spend, submissions, by, listed, chain, signed, most, unseen, lost>>
        /\ gate' = [gate EXCEPT ![p].permits = permits]
    BY DEF Build, Advance, disk, history
  <1>2. p \in Live /\ p \in Processes /\ gate[p] \in Gates
    BY <1>1 DEF Running, Taken, Live, TypeOK
  <1>3. permits \in SUBSET Permits
    BY <1>2 DEF Permits, Gates
  <1> HIDE DEF p, permits
  <1>4. [gate[p] EXCEPT !.permits = permits] = [spent |-> gate[p].spent, permits |-> permits]
    BY <1>2 DEF Gates
  <1>5. gate' = [gate EXCEPT ![p] = [spent |-> gate[p].spent, permits |-> permits]]
    BY <1>1, <1>4, Zenon
  <1>6. [spent |-> gate[p].spent, permits |-> permits] \in Gates
    BY <1>2, <1>3 DEF Gates
  <1>7. gate' \in [Processes -> Gates \cup {Undefined}] /\ Live' = Live
    <2> DEFINE r == [spent |-> gate[p].spent, permits |-> permits]
    <2>1. r \in Gates /\ gate' = [gate EXCEPT ![p] = r]
      BY <1>5, <1>6
    <2>2. Live \cup {p} = Live
      BY <1>2
    <2> HIDE DEF r
    <2> QED
      BY <1>2, <2>1, <2>2, Updated
  <1> QED
    BY <1>1, <1>2, <1>5, <1>7 DEF p, permits

(* A permit presented is spent; the bytes it is bound to are signed, or    *)
(* refused by the verifier.                                                *)
LEMMA PresentStep ==
    ASSUME TypeOK, Running, Issued, NEW w \in Writes, NEW v \in Writes, NEW b \in Writes,
           Present(w, [for |-> v, boundTo |-> v], b)
    PROVE  /\ stage[w] = "built" /\ by[w] \in Live /\ b = v /\ Intent[v] = Intent[w]
           /\ [for |-> v, boundTo |-> v] \in gate[by[w]].permits
           /\ by[v] = by[w] /\ stage[v] \notin {"asked", "listed", "authorized"}
           /\ UNCHANGED <<spend, submissions, by, listed, chain, most, unseen, lost>>
           /\ gate' = [gate EXCEPT ![by[w]] =
                 [spent |-> gate[by[w]].spent,
                  permits |-> gate[by[w]].permits \ {[for |-> v, boundTo |-> v]}]]
           /\ gate' \in [Processes -> Gates \cup {Undefined}] /\ Live' = Live
           /\ \/ /\ signed' = Append(signed, [permit |-> v, bytes |-> v])
                 /\ stage' = [stage EXCEPT ![w] = "signed"]
              \/ signed' = signed /\ stage' = [stage EXCEPT ![w] = "done"]
           /\ signed' \in Seq([permit : Writes, bytes : Writes])
  <1> DEFINE p == by[w]
             k == [for |-> v, boundTo |-> v]
             permits == gate[p].permits \ {k}
  <1>1. /\ stage[w] = "built" /\ k \in gate[p].permits /\ Intent[v] = Intent[w] /\ b = v
        /\ UNCHANGED <<spend, submissions, by, listed, chain, most, unseen, lost>>
        /\ gate' = [gate EXCEPT ![p].permits = permits]
        /\ \/ /\ signed' = Append(signed, [permit |-> v, bytes |-> v])
              /\ stage' = [stage EXCEPT ![w] = "signed"]
           \/ signed' = signed /\ stage' = [stage EXCEPT ![w] = "done"]
    BY DEF Present, CanConsume, Spent, Advance, disk, history
  <1>2. p \in Live /\ p \in Processes /\ gate[p] \in Gates
    BY <1>1 DEF Running, Taken, Live, TypeOK
  <1>3. permits \in SUBSET Permits
    BY <1>2 DEF Gates
  <1>4. by[v] = p /\ stage[v] \notin {"asked", "listed", "authorized"}
    <2>1. by[k.for] = p /\ stage[k.for] \notin {"asked", "listed"}
          /\ k.boundTo = (IF stage[k.for] = "authorized" THEN Undefined ELSE k.for)
      BY <1>1, <1>2 DEF Issued, InOrder
    <2> QED
      BY <2>1, InstallationAssumption
  <1> HIDE DEF p, permits
  <1>5. [gate[p] EXCEPT !.permits = permits] = [spent |-> gate[p].spent, permits |-> permits]
    BY <1>2 DEF Gates
  <1>6. gate' = [gate EXCEPT ![p] = [spent |-> gate[p].spent, permits |-> permits]]
    BY <1>1, <1>5, Zenon
  <1>7. [spent |-> gate[p].spent, permits |-> permits] \in Gates
    BY <1>2, <1>3 DEF Gates
  <1>8. gate' \in [Processes -> Gates \cup {Undefined}] /\ Live' = Live
    <2> DEFINE r == [spent |-> gate[p].spent, permits |-> permits]
    <2>1. r \in Gates /\ gate' = [gate EXCEPT ![p] = r]
      BY <1>6, <1>7
    <2>2. Live \cup {p} = Live
      BY <1>2
    <2> HIDE DEF r
    <2> QED
      BY <1>2, <2>1, <2>2, Updated
  <1>9. signed' \in Seq([permit : Writes, bytes : Writes])
    <2> DEFINE S == [permit : Writes, bytes : Writes]
               e == [permit |-> v, bytes |-> v]
    <2>1. e \in S /\ signed \in Seq(S) /\ (signed' = Append(signed, e) \/ signed' = signed)
      BY <1>1 DEF TypeOK
    <2> HIDE DEF S, e
    <2>2. signed' \in Seq(S)
      BY <2>1
    <2> QED
      BY <2>2 DEF S
  <1> QED
    BY <1>1, <1>2, <1>4, <1>6, <1>8, <1>9 DEF p, permits, k

LEMMA LoadStep ==
    ASSUME TypeOK, NEW p \in Processes, Load(p)
    PROVE  /\ gate[p] = Undefined
           /\ gate' = [gate EXCEPT ![p] = [spent |-> spend.sum, permits |-> {}]]
           /\ gate' \in [Processes -> Gates \cup {Undefined}] /\ Live' = Live \cup {p}
           /\ UNCHANGED <<spend, submissions, stage, by, listed, chain, signed, unseen, lost>>
           /\ most' = IF Cardinality(Live') > most THEN Cardinality(Live') ELSE most
  <1>1. [spent |-> spend.sum, permits |-> {}] \in Gates
    BY DEF TypeOK, Gates
  <1>2. gate' = [gate EXCEPT ![p] = [spent |-> spend.sum, permits |-> {}]]
    BY DEF Load
  <1>3. gate' \in [Processes -> Gates \cup {Undefined}] /\ Live' = Live \cup {p}
    BY <1>1, <1>2, Updated
  <1>4. most' = IF Cardinality(Live') > most THEN Cardinality(Live') ELSE most
    BY DEF Load, Live
  <1> QED
    BY <1>2, <1>3, <1>4 DEF Load, disk

(* A process ends or dies: what it had under way is over.                 *)
LEMMA EndStep ==
    ASSUME TypeOK, NEW p \in Processes, Exit(p) \/ Crash(p)
    PROVE  /\ p \in Live /\ Live' = Live \ {p} /\ gate' = [gate EXCEPT ![p] = Undefined]
           /\ gate' \in [Processes -> Gates \cup {Undefined}]
           /\ by' = [w \in Writes |-> IF by[w] = p THEN Undefined ELSE by[w]]
           /\ by' \in [Writes -> Processes \cup {Undefined}]
           /\ stage' = [w \in Writes |-> IF by[w] = p THEN "done" ELSE stage[w]]
           /\ UNCHANGED <<spend, submissions, listed, chain, signed, most, unseen, lost>>
  <1>1. CASE Exit(p)
    BY <1>1 DEF Exit, Ends, TypeOK, disk, history, Live
  <1>2. CASE Crash(p)
    BY <1>2 DEF Crash, Ends, TypeOK, disk, history, Live
  <1> QED
    BY <1>1, <1>2

LEMMA ReadStep ==
    ASSUME TypeOK, NEW p \in Processes, NEW w \in Writes, ReadPositions(p, w)
    PROVE  /\ p \in Live /\ stage[w] = "asked"
           /\ by' = [by EXCEPT ![w] = p] /\ stage' = [stage EXCEPT ![w] = "listed"]
           /\ listed' = [listed EXCEPT ![w] = Positions] /\ Positions \in SUBSET Writes
           /\ UNCHANGED <<spend, submissions, gate, chain, signed, most, unseen, lost>>
  BY DEF ReadPositions, Advance, disk, history, Live, Positions

-----------------------------------------------------------------------------
(* Preservation, one invariant at a time.                                 *)
LEMMA TypeStep ==
    ASSUME TypeOK, Running, Issued, Weighed, [Next]_vars
    PROVE  TypeOK'
  <1> USE DEF TypeOK, Taken
  <1>1. CASE UNCHANGED vars
    BY <1>1 DEF vars, disk, history, bounds
  <1>2. ASSUME NEW p \in Processes, Load(p) PROVE TypeOK'
    <2>1. Cardinality(Live') \in Nat
      BY InstallationAssumption, FS_Subset, FS_CardinalityType DEF Live
    <2> QED
      BY <1>2, <2>1, LoadStep
  <1>3. ASSUME NEW p \in Processes, Exit(p) \/ Crash(p) PROVE TypeOK'
    BY <1>3, EndStep
  <1>4. ASSUME NEW p \in Processes, NEW w \in Writes, ReadPositions(p, w) PROVE TypeOK'
    BY <1>4, ReadStep
  <1>5. ASSUME NEW w \in Writes, Authorize(w) PROVE TypeOK'
    BY <1>5, AuthorizeStep
  <1>6. ASSUME NEW w \in Writes, Build(w) PROVE TypeOK'
    BY <1>6, BuildStep
  <1>7. ASSUME NEW w \in Writes, BuildFailed(w) PROVE TypeOK'
    BY <1>7, BuildFailedStep
  <1>8. ASSUME NEW w \in Writes, NEW v \in Writes, NEW b \in Writes,
               Present(w, [for |-> v, boundTo |-> v], b)
        PROVE  TypeOK'
    <2>1. /\ stage' = [stage EXCEPT ![w] = "signed"] \/ stage' = [stage EXCEPT ![w] = "done"]
          /\ signed' \in Seq([permit : Writes, bytes : Writes])
          /\ UNCHANGED <<spend, submissions, by, listed, chain, most, unseen, lost>>
          /\ gate' \in [Processes -> Gates \cup {Undefined}]
      BY <1>8, PresentStep
    <2> QED
      BY <2>1
  <1>9. ASSUME NEW w \in Writes, Onward(w) PROVE TypeOK'
    BY <1>9, OnwardStep
  <1> QED
    BY <1>1, <1>2, <1>3, <1>4, <1>5, <1>6, <1>7, <1>8, <1>9, Steps

LEMMA RunningStep ==
    ASSUME TypeOK, Running, Issued, Weighed, [Next]_vars
    PROVE  Running'
  <1> USE DEF Running, Taken
  <1>1. CASE UNCHANGED vars
    BY <1>1 DEF vars, disk, history, bounds, Live
  <1>2. ASSUME NEW p \in Processes, Load(p) PROVE Running'
    BY <1>2, LoadStep
  <1>3. ASSUME NEW p \in Processes, Exit(p) \/ Crash(p) PROVE Running'
    BY <1>3, EndStep DEF TypeOK
  <1>4. ASSUME NEW p \in Processes, NEW w \in Writes, ReadPositions(p, w) PROVE Running'
    <2>1. by' = [by EXCEPT ![w] = p] /\ stage' = [stage EXCEPT ![w] = "listed"]
          /\ p \in Live /\ Live' = Live
      BY <1>4, ReadStep DEF Live
    <2> QED
      BY <2>1 DEF TypeOK
  <1>5. ASSUME NEW w \in Writes, Authorize(w) PROVE Running'
    <2>1. /\ Live' = Live /\ by' = by /\ stage[w] = "listed"
          /\ \/ stage' = [stage EXCEPT ![w] = "authorized"]
             \/ stage' = [stage EXCEPT ![w] = "done"]
      BY <1>5, AuthorizeStep DEF Live
    <2> QED
      BY <2>1 DEF TypeOK
  <1>6. ASSUME NEW w \in Writes, Build(w) PROVE Running'
    BY <1>6, BuildStep DEF TypeOK
  <1>7. ASSUME NEW w \in Writes, BuildFailed(w) PROVE Running'
    BY <1>7, BuildFailedStep DEF TypeOK
  <1>8. ASSUME NEW w \in Writes, NEW v \in Writes, NEW b \in Writes,
               Present(w, [for |-> v, boundTo |-> v], b)
        PROVE  Running'
    <2>1. /\ Live' = Live /\ by' = by /\ stage[w] = "built"
          /\ stage' = [stage EXCEPT ![w] = "signed"] \/ stage' = [stage EXCEPT ![w] = "done"]
      BY <1>8, PresentStep
    <2> QED
      BY <2>1 DEF TypeOK
  <1>9. ASSUME NEW w \in Writes, Onward(w) PROVE Running'
    BY <1>9, OnwardStep DEF Out, Live, TypeOK
  <1> QED
    BY <1>1, <1>2, <1>3, <1>4, <1>5, <1>6, <1>7, <1>8, <1>9, Steps

LEMMA Permitted ==
    ASSUME TypeOK, Issued, NEW p \in Live, NEW k \in gate[p].permits
    PROVE  /\ InOrder(p, k) /\ k.for \in Writes /\ p \in Processes
           /\ k = [for |-> k.for, boundTo |-> k.boundTo]
  <1>1. p \in Processes /\ gate[p] \in Gates
    BY DEF Live, TypeOK
  <1>2. k \in Permits
    BY <1>1 DEF Gates
  <1> QED
    BY <1>1, <1>2 DEF Issued, Permits

LEMMA IssuedStep ==
    ASSUME TypeOK, Running, Issued, Weighed, [Next]_vars
    PROVE  Issued'
  <1> SUFFICES ASSUME NEW p \in Live', NEW k \in gate'[p].permits
               PROVE  InOrder(p, k)'
    BY DEF Issued
  <1> USE DEF InOrder
  <1>1. CASE UNCHANGED vars
    <2>1. p \in Live /\ k \in gate[p].permits /\ by' = by /\ stage' = stage
      BY <1>1 DEF vars, Live
    <2> QED
      BY <2>1, Permitted
  <1>2. ASSUME NEW q \in Processes, Load(q) PROVE InOrder(p, k)'
    <2>1. /\ Live' = Live \cup {q} /\ by' = by /\ stage' = stage
          /\ gate' = [gate EXCEPT ![q] = [spent |-> spend.sum, permits |-> {}]]
      BY <1>2, LoadStep
    <2>2. p \in Processes /\ p # q
      BY <2>1 DEF Live, TypeOK
    <2>3. p \in Live /\ k \in gate[p].permits
      BY <2>1, <2>2 DEF TypeOK
    <2> QED
      BY <2>1, <2>3, Permitted
  <1>3. ASSUME NEW q \in Processes, Exit(q) \/ Crash(q) PROVE InOrder(p, k)'
    <2>1. /\ Live' = Live \ {q} /\ gate' = [gate EXCEPT ![q] = Undefined]
          /\ by' = [w \in Writes |-> IF by[w] = q THEN Undefined ELSE by[w]]
          /\ stage' = [w \in Writes |-> IF by[w] = q THEN "done" ELSE stage[w]]
      BY <1>3, EndStep
    <2>2. p \in Live /\ p # q /\ k \in gate[p].permits
      BY <2>1 DEF Live, TypeOK
    <2> QED
      BY <2>1, <2>2, Permitted
  <1>4. ASSUME NEW q \in Processes, NEW w \in Writes, ReadPositions(q, w) PROVE InOrder(p, k)'
    <2>1. /\ gate' = gate /\ Live' = Live /\ stage[w] = "asked"
          /\ by' = [by EXCEPT ![w] = q] /\ stage' = [stage EXCEPT ![w] = "listed"]
      BY <1>4, ReadStep DEF Live
    <2>2. p \in Live /\ k \in gate[p].permits
      BY <2>1
    <2> QED
      BY <2>1, <2>2, Permitted DEF TypeOK
  <1>5. ASSUME NEW w \in Writes, Authorize(w) PROVE InOrder(p, k)'
    <2>1. stage[w] = "listed" /\ by[w] \in Live /\ by' = by
      BY <1>5, AuthorizeStep
    <2>2. CASE gate' = gate /\ stage' = [stage EXCEPT ![w] = "done"]
      <3>1. p \in Live /\ k \in gate[p].permits
        BY <2>2 DEF Live
      <3> QED
        BY <2>1, <2>2, <3>1, Permitted DEF TypeOK
    <2>3. CASE gate' # gate \/ stage' # [stage EXCEPT ![w] = "done"]
      <3>1. PICK done \in BOOLEAN :
               /\ stage' = [stage EXCEPT ![w] = IF done THEN "authorized" ELSE "done"]
               /\ gate' = [gate EXCEPT ![by[w]] =
                     [spent |-> gate[by[w]].spent + Commitment[w],
                      permits |-> gate[by[w]].permits \cup
                         (IF done THEN {[for |-> w, boundTo |-> Undefined]} ELSE {})]]
               /\ Live' = Live
        BY <1>5, <2>3, AuthorizeStep
      <3>2. p \in Processes /\ p \in Live
        BY <3>1 DEF Live
      <3>3. CASE k \in gate[p].permits
        BY <2>1, <3>1, <3>2, <3>3, Permitted DEF TypeOK
      <3>4. CASE k \notin gate[p].permits
        <4>1. p = by[w] /\ done /\ k = [for |-> w, boundTo |-> Undefined]
          BY <3>1, <3>2, <3>4 DEF TypeOK
        <4> QED
          BY <2>1, <3>1, <4>1 DEF TypeOK
      <3> QED
        BY <3>3, <3>4
    <2> QED
      BY <2>2, <2>3
  <1>6. ASSUME NEW w \in Writes, Build(w) PROVE InOrder(p, k)'
    <2>1. /\ stage[w] = "authorized" /\ by[w] \in Live /\ by' = by /\ Live' = Live
          /\ stage' = [stage EXCEPT ![w] = "built"]
          /\ gate' = [gate EXCEPT ![by[w]] =
                [spent |-> gate[by[w]].spent,
                 permits |-> (gate[by[w]].permits \ {[for |-> w, boundTo |-> Undefined]})
                                 \cup {[for |-> w, boundTo |-> w]}]]
      BY <1>6, BuildStep
    <2>2. p \in Processes /\ p \in Live
      BY <2>1 DEF Live
    <2>3. CASE p = by[w] /\ k = [for |-> w, boundTo |-> w]
      BY <2>1, <2>3 DEF TypeOK
    <2>4. CASE p # by[w] \/ k # [for |-> w, boundTo |-> w]
      <3>1. k \in gate[p].permits
            /\ (p = by[w] => k # [for |-> w, boundTo |-> Undefined])
        BY <2>1, <2>2, <2>4 DEF TypeOK
      <3>2. /\ by[k.for] = p /\ stage[k.for] \notin {"asked", "listed"} /\ k.for \in Writes
            /\ k.boundTo = (IF stage[k.for] = "authorized" THEN Undefined ELSE k.for)
            /\ k = [for |-> k.for, boundTo |-> k.boundTo]
        BY <2>2, <3>1, Permitted
      <3>3. k.for # w
        BY <2>1, <3>1, <3>2
      <3> QED
        BY <2>1, <3>2, <3>3 DEF TypeOK
    <2> QED
      BY <2>3, <2>4
  <1>7. ASSUME NEW w \in Writes, BuildFailed(w) PROVE InOrder(p, k)'
    <2>1. /\ by[w] \in Live /\ by' = by /\ Live' = Live
          /\ stage' = [stage EXCEPT ![w] = "done"]
          /\ gate' = [gate EXCEPT ![by[w]] =
                [spent |-> gate[by[w]].spent - Commitment[w],
                 permits |-> {j \in gate[by[w]].permits : j.for # w}]]
      BY <1>7, BuildFailedStep
    <2>2. p \in Processes /\ p \in Live
      BY <2>1 DEF Live
    <2>3. k \in gate[p].permits /\ (p = by[w] => k.for # w)
      BY <2>1, <2>2 DEF TypeOK
    <2>4. InOrder(p, k) /\ k.for \in Writes
      BY <2>2, <2>3, Permitted
    <2>5. k.for # w
      BY <2>3, <2>4
    <2> QED
      BY <2>1, <2>4, <2>5 DEF TypeOK
  <1>8. ASSUME NEW w \in Writes, NEW v \in Writes, NEW b \in Writes,
               Present(w, [for |-> v, boundTo |-> v], b)
        PROVE  InOrder(p, k)'
    <2>1. /\ stage[w] = "built" /\ by[w] \in Live /\ by' = by /\ Live' = Live
          /\ stage' = [stage EXCEPT ![w] = "signed"] \/ stage' = [stage EXCEPT ![w] = "done"]
          /\ gate' = [gate EXCEPT ![by[w]] =
                [spent |-> gate[by[w]].spent,
                 permits |-> gate[by[w]].permits \ {[for |-> v, boundTo |-> v]}]]
      BY <1>8, PresentStep
    <2>2. p \in Processes /\ p \in Live
      BY <2>1 DEF Live
    <2>3. k \in gate[p].permits
      BY <2>1, <2>2 DEF TypeOK
    <2>4. InOrder(p, k) /\ k.for \in Writes
      BY <2>2, <2>3, Permitted
    <2> QED
      BY <2>1, <2>4 DEF TypeOK
  <1>9. ASSUME NEW w \in Writes, Onward(w) PROVE InOrder(p, k)'
    <2>1. /\ gate' = gate /\ by' = by /\ Live' = Live
          /\ \A v \in Writes :
                stage'[v] # stage[v] => stage[v] \in Out /\ stage'[v] \in Out \cup {"done"}
      BY <1>9, OnwardStep DEF Live
    <2>2. p \in Live /\ k \in gate[p].permits
      BY <2>1
    <2>3. InOrder(p, k) /\ k.for \in Writes
      BY <2>2, Permitted
    <2> QED
      BY <2>1, <2>3 DEF Out
  <1> QED
    BY <1>1, <1>2, <1>3, <1>4, <1>5, <1>6, <1>7, <1>8, <1>9, Steps

(* Nothing goes back behind its authorization, and a permit is new only of *)
(* a write that is being authorized or built.                              *)
Early == {"asked", "listed", "authorized"}

LEMMA Earlier ==
    ASSUME TypeOK, Running, Issued, Weighed, [Next]_vars
    PROVE  /\ \A x \in Writes : stage'[x] \in Early => stage[x] \in Early
           /\ \A p \in Live' : \A k \in gate'[p].permits :
                 (p \in Live /\ k \in gate[p].permits) \/ stage[k.for] \in Early
  <1> DEFINE Forward == \A x \in Writes : stage'[x] \in Early => stage[x] \in Early
             New(p, k) == (p \in Live /\ k \in gate[p].permits) \/ stage[k.for] \in Early
             Kept == \A p \in Live' : \A k \in gate'[p].permits : New(p, k)
  <1>1. CASE UNCHANGED vars
    BY <1>1 DEF vars, Live
  <1>2. ASSUME NEW q \in Processes, Load(q) PROVE Forward /\ Kept
    <2>1. /\ Live' = Live \cup {q} /\ stage' = stage
          /\ gate' = [gate EXCEPT ![q] = [spent |-> spend.sum, permits |-> {}]]
      BY <1>2, LoadStep
    <2> QED
      BY <2>1 DEF TypeOK, Live
  <1>3. ASSUME NEW q \in Processes, Exit(q) \/ Crash(q) PROVE Forward /\ Kept
    <2>1. /\ Live' = Live \ {q} /\ gate' = [gate EXCEPT ![q] = Undefined]
          /\ stage' = [w \in Writes |-> IF by[w] = q THEN "done" ELSE stage[w]]
      BY <1>3, EndStep
    <2> QED
      BY <2>1 DEF TypeOK, Live, Early
  <1>4. ASSUME NEW q \in Processes, NEW w \in Writes, ReadPositions(q, w) PROVE Forward /\ Kept
    <2>1. gate' = gate /\ stage[w] = "asked" /\ stage' = [stage EXCEPT ![w] = "listed"]
      BY <1>4, ReadStep
    <2> QED
      BY <2>1 DEF TypeOK, Live, Early
  <1>5. ASSUME NEW w \in Writes, Authorize(w) PROVE Forward /\ Kept
    <2>1. stage[w] = "listed" /\ by[w] \in Live
      BY <1>5, AuthorizeStep
    <2>2. CASE gate' = gate /\ stage' = [stage EXCEPT ![w] = "done"]
      BY <2>2 DEF TypeOK, Live, Early
    <2>3. CASE gate' # gate \/ stage' # [stage EXCEPT ![w] = "done"]
      <3>1. PICK done \in BOOLEAN :
               /\ stage' = [stage EXCEPT ![w] = IF done THEN "authorized" ELSE "done"]
               /\ gate' = [gate EXCEPT ![by[w]] =
                     [spent |-> gate[by[w]].spent + Commitment[w],
                      permits |-> gate[by[w]].permits \cup
                         (IF done THEN {[for |-> w, boundTo |-> Undefined]} ELSE {})]]
               /\ Live' = Live
        BY <1>5, <2>3, AuthorizeStep
      <3>2. Forward
        BY <2>1, <3>1 DEF TypeOK, Early
      <3>3. ASSUME NEW p \in Live, NEW k \in gate'[p].permits PROVE New(p, k)
        <4>1. p \in Processes
          BY DEF Live
        <4>2. k \in gate[p].permits \/ k = [for |-> w, boundTo |-> Undefined]
          BY <3>1, <3>3, <4>1 DEF TypeOK
        <4> QED
          BY <2>1, <4>2 DEF Early
      <3> QED
        BY <3>1, <3>2, <3>3
    <2> QED
      BY <2>2, <2>3
  <1>6. ASSUME NEW w \in Writes, Build(w) PROVE Forward /\ Kept
    <2>1. /\ stage[w] = "authorized" /\ by[w] \in Live /\ Live' = Live
          /\ stage' = [stage EXCEPT ![w] = "built"]
          /\ gate' = [gate EXCEPT ![by[w]] =
                [spent |-> gate[by[w]].spent,
                 permits |-> (gate[by[w]].permits \ {[for |-> w, boundTo |-> Undefined]})
                                 \cup {[for |-> w, boundTo |-> w]}]]
      BY <1>6, BuildStep
    <2>2. ASSUME NEW p \in Live, NEW k \in gate'[p].permits PROVE New(p, k)
      <3>1. p \in Processes
        BY DEF Live
      <3>2. k \in gate[p].permits \/ k = [for |-> w, boundTo |-> w]
        BY <2>1, <2>2, <3>1 DEF TypeOK
      <3> QED
        BY <2>1, <3>2 DEF Early
    <2> QED
      BY <2>1, <2>2 DEF TypeOK, Early
  <1>7. ASSUME NEW w \in Writes, BuildFailed(w) PROVE Forward /\ Kept
    <2>1. /\ Live' = Live /\ stage' = [stage EXCEPT ![w] = "done"]
          /\ gate' = [gate EXCEPT ![by[w]] =
                [spent |-> gate[by[w]].spent - Commitment[w],
                 permits |-> {j \in gate[by[w]].permits : j.for # w}]]
      BY <1>7, BuildFailedStep
    <2> QED
      BY <2>1 DEF TypeOK, Early, Live
  <1>8. ASSUME NEW w \in Writes, NEW v \in Writes, NEW b \in Writes,
               Present(w, [for |-> v, boundTo |-> v], b)
        PROVE  Forward /\ Kept
    <2>1. /\ Live' = Live
          /\ stage' = [stage EXCEPT ![w] = "signed"] \/ stage' = [stage EXCEPT ![w] = "done"]
          /\ gate' = [gate EXCEPT ![by[w]] =
                [spent |-> gate[by[w]].spent,
                 permits |-> gate[by[w]].permits \ {[for |-> v, boundTo |-> v]}]]
      BY <1>8, PresentStep
    <2> QED
      BY <2>1 DEF TypeOK, Early, Live
  <1>9. ASSUME NEW w \in Writes, Onward(w) PROVE Forward /\ Kept
    BY <1>9, OnwardStep DEF Live, Out, Early
  <1> QED
    BY <1>1, <1>2, <1>3, <1>4, <1>5, <1>6, <1>7, <1>8, <1>9, Steps

(* What one signature does to the list of them.                           *)
LEMMA Appended ==
    ASSUME NEW S, NEW s \in Seq(S), NEW e \in S, NEW t, t = Append(s, e)
    PROVE  /\ DOMAIN t = DOMAIN s \cup {Len(s) + 1} /\ Len(s) + 1 \notin DOMAIN s
           /\ t[Len(s) + 1] = e /\ \A i \in DOMAIN s : t[i] = s[i]
  <1>1. Len(s) \in Nat /\ Len(t) = Len(s) + 1 /\ DOMAIN s = 1..Len(s) /\ t \in Seq(S)
        /\ DOMAIN t = 1..Len(t)
    OBVIOUS
  <1>2. t[Len(s) + 1] = e /\ \A i \in 1..Len(s) : t[i] = s[i]
    BY <1>1
  <1>3. 1..(Len(s) + 1) = (1..Len(s)) \cup {Len(s) + 1} /\ Len(s) + 1 \notin 1..Len(s)
    BY <1>1
  <1> QED
    BY <1>1, <1>2, <1>3

(* Only a permit presented adds a signature.                              *)
LEMMA SignedBy ==
    ASSUME TypeOK, Running, Issued, Weighed, [Next]_vars
    PROVE  \/ signed' = signed
           \/ \E w, v, b \in Writes :
                 /\ Present(w, [for |-> v, boundTo |-> v], b)
                 /\ stage[w] = "built" /\ by[w] \in Live /\ Intent[v] = Intent[w]
                 /\ stage[v] \notin Early
                 /\ [for |-> v, boundTo |-> v] \in gate[by[w]].permits
                 /\ signed' = Append(signed, [permit |-> v, bytes |-> v])
                 /\ stage' = [stage EXCEPT ![w] = "signed"]
  <1>1. CASE UNCHANGED vars
    BY <1>1 DEF vars
  <1>2. ASSUME NEW p \in Processes, Load(p) \/ Exit(p) \/ Crash(p) PROVE signed' = signed
    BY <1>2 DEF Load, Exit, Crash
  <1>3. ASSUME NEW p \in Processes, NEW w \in Writes, ReadPositions(p, w)
        PROVE  signed' = signed
    BY <1>3 DEF ReadPositions
  <1>4. ASSUME NEW w \in Writes, Authorize(w) \/ Build(w) \/ BuildFailed(w)
        PROVE  signed' = signed
    BY <1>4 DEF Authorize, Build, BuildFailed
  <1>5. ASSUME NEW w \in Writes, Onward(w) PROVE signed' = signed
    BY <1>5, OnwardStep
  <1>6. ASSUME NEW w \in Writes, NEW v \in Writes, NEW b \in Writes,
               Present(w, [for |-> v, boundTo |-> v], b), signed' # signed
        PROVE  /\ stage[w] = "built" /\ by[w] \in Live /\ Intent[v] = Intent[w]
               /\ stage[v] \notin Early
               /\ [for |-> v, boundTo |-> v] \in gate[by[w]].permits
               /\ signed' = Append(signed, [permit |-> v, bytes |-> v])
               /\ stage' = [stage EXCEPT ![w] = "signed"]
    BY <1>6, PresentStep DEF Early
  <1> QED
    BY <1>1, <1>2, <1>3, <1>4, <1>5, <1>6, Steps

LEMMA UsedStep ==
    ASSUME TypeOK, Running, Issued, Weighed, Used, OneSignaturePerAuthorization, [Next]_vars
    PROVE  Used' /\ OneSignaturePerAuthorization'
  <1> DEFINE S == [permit : Writes, bytes : Writes]
  <1>0. signed \in Seq(S) /\ \A i \in DOMAIN signed : signed[i] \in S
    <2>1. signed \in Seq(S)
      BY DEF TypeOK
    <2> HIDE DEF S
    <2> QED
      BY <2>1
  <1>1. ASSUME NEW x \in Writes, stage[x] \notin Early,
               \A p \in Live : \A k \in gate[p].permits : k.for # x
        PROVE  /\ stage'[x] \notin Early
               /\ \A p \in Live' : \A k \in gate'[p].permits : k.for # x
    BY <1>1, Earlier
  <1>2. ASSUME NEW i \in DOMAIN signed
        PROVE  /\ signed[i].permit \in Writes /\ signed[i].bytes = signed[i].permit
               /\ stage'[signed[i].permit] \notin Early
               /\ \A p \in Live' : \A k \in gate'[p].permits : k.for # signed[i].permit
    <2>1. signed[i].permit \in Writes
      BY <1>0
    <2>2. /\ signed[i].bytes = signed[i].permit /\ stage[signed[i].permit] \notin Early
          /\ \A p \in Live : \A k \in gate[p].permits : k.for # signed[i].permit
      BY DEF Used, Early
    <2> QED
      BY <1>1, <2>1, <2>2
  <1>3. CASE signed' = signed
    BY <1>2, <1>3 DEF Used, Early, OneSignaturePerAuthorization
  <1>4. CASE signed' # signed
    <2>1. PICK w, v, b \in Writes :
             /\ Present(w, [for |-> v, boundTo |-> v], b)
             /\ by[w] \in Live /\ stage[v] \notin Early
             /\ [for |-> v, boundTo |-> v] \in gate[by[w]].permits
             /\ signed' = Append(signed, [permit |-> v, bytes |-> v])
      BY <1>4, SignedBy
    <2> DEFINE e == [permit |-> v, bytes |-> v]
               n == Len(signed) + 1
    <2>2. e \in S /\ e.permit = v /\ e.bytes = v
      OBVIOUS
    <2>3. /\ DOMAIN signed' = DOMAIN signed \cup {n} /\ n \notin DOMAIN signed
          /\ signed'[n] = e /\ \A i \in DOMAIN signed : signed'[i] = signed[i]
      <3> HIDE DEF e, S
      <3>1. signed' = Append(signed, e)
        BY <2>1 DEF e
      <3> QED
        BY <1>0, <2>2, <3>1, Appended
    <2>4. \A i \in DOMAIN signed : signed[i].permit # v
      BY <2>1 DEF Used
    <2>5. stage'[v] \notin Early
      BY <2>1, Earlier
    <2>6. \A p \in Live' : \A k \in gate'[p].permits : k.for # v
      <3> SUFFICES ASSUME NEW p \in Live', NEW k \in gate'[p].permits, k.for = v PROVE FALSE
        OBVIOUS
      <3>1. p \in Live /\ k \in gate[p].permits
        BY <2>1, Earlier
      <3>2. /\ p = by[v] /\ k = [for |-> v, boundTo |-> k.boundTo]
            /\ k.boundTo = (IF stage[v] = "authorized" THEN Undefined ELSE v)
        BY <3>1, Permitted DEF InOrder
      <3>3. k = [for |-> v, boundTo |-> v] /\ p = by[w]
        <4>1. by[v] = by[w]
          BY <2>1, PresentStep
        <4> QED
          BY <2>1, <3>2, <4>1 DEF Early
      <3>4. /\ gate' = [gate EXCEPT ![by[w]] =
                  [spent |-> gate[by[w]].spent,
                   permits |-> gate[by[w]].permits \ {[for |-> v, boundTo |-> v]}]]
            /\ by[w] \in Processes
        BY <2>1, PresentStep DEF Live
      <3>5. k \notin gate'[p].permits
        BY <3>3, <3>4 DEF TypeOK
      <3> QED
        BY <3>5
    <2> HIDE DEF e, n
    <2>7. Used'
      BY <1>2, <2>2, <2>3, <2>5, <2>6 DEF Used, Early
    <2>8. OneSignaturePerAuthorization'
      BY <1>2, <2>2, <2>3, <2>4 DEF OneSignaturePerAuthorization
    <2> QED
      BY <2>7, <2>8
  <1> QED
    BY <1>3, <1>4

LEMMA WeighedStep ==
    ASSUME TypeOK, Running, Issued, Weighed, [Next]_vars
    PROVE  Weighed'
  <1> SUFFICES ASSUME NEW x \in AtStake', x \notin AtStake
               PROVE  Gate!Measurable(Intent[x])
    BY DEF Weighed
  <1>0. x \in Writes
    BY DEF AtStake
  <1> USE DEF AtStake
  <1>1. CASE UNCHANGED vars
    BY <1>1 DEF vars, disk
  <1>2. ASSUME NEW p \in Processes, Load(p) PROVE FALSE
    BY <1>2, LoadStep
  <1>3. ASSUME NEW p \in Processes, Exit(p) \/ Crash(p) PROVE FALSE
    <2>1. /\ UNCHANGED <<submissions, listed, chain, signed>>
          /\ stage' = [w \in Writes |-> IF by[w] = p THEN "done" ELSE stage[w]]
      BY <1>3, EndStep
    <2> QED
      BY <1>0, <2>1 DEF Taken
  <1>4. ASSUME NEW p \in Processes, NEW w \in Writes, ReadPositions(p, w) PROVE FALSE
    <2>1. /\ UNCHANGED <<submissions, chain, signed>>
          /\ stage' = [stage EXCEPT ![w] = "listed"] /\ listed' = [listed EXCEPT ![w] = Positions]
      BY <1>4, ReadStep
    <2>2. \A v \in Writes : x \in listed'[v] => x \in listed[v] \/ chain[x] # "none"
      BY <2>1 DEF TypeOK, Positions
    <2> QED
      BY <1>0, <2>1, <2>2 DEF TypeOK, Taken
  <1>5. ASSUME NEW w \in Writes, Authorize(w) PROVE Gate!Measurable(Intent[x])
    <2>1. /\ UNCHANGED <<submissions, chain, signed>> /\ listed' = [listed EXCEPT ![w] = {}]
          /\ \/ stage' = [stage EXCEPT ![w] = "done"]
             \/ Gate!Measurable(Intent[w]) /\ stage' = [stage EXCEPT ![w] = "authorized"]
      BY <1>5, AuthorizeStep
    <2>2. \A v \in Writes : x \in listed'[v] => x \in listed[v]
      BY <2>1 DEF TypeOK
    <2> QED
      BY <1>0, <2>1, <2>2 DEF TypeOK, Taken
  <1>6. ASSUME NEW w \in Writes, Build(w) PROVE FALSE
    <2>1. /\ UNCHANGED <<submissions, listed, chain, signed>> /\ stage[w] = "authorized"
          /\ stage' = [stage EXCEPT ![w] = "built"]
      BY <1>6, BuildStep
    <2> QED
      BY <1>0, <2>1 DEF TypeOK, Taken
  <1>7. ASSUME NEW w \in Writes, BuildFailed(w) PROVE FALSE
    <2>1. /\ UNCHANGED <<submissions, listed, chain, signed>>
          /\ stage' = [stage EXCEPT ![w] = "done"]
      BY <1>7, BuildFailedStep
    <2> QED
      BY <1>0, <2>1 DEF TypeOK, Taken
  <1>8. ASSUME NEW w \in Writes, NEW v \in Writes, NEW b \in Writes,
               Present(w, [for |-> v, boundTo |-> v], b)
        PROVE  Gate!Measurable(Intent[x])
    <2>1. /\ UNCHANGED <<submissions, listed, chain>> /\ stage[w] = "built"
          /\ stage' = [stage EXCEPT ![w] = "signed"] \/ stage' = [stage EXCEPT ![w] = "done"]
          /\ signed' = Append(signed, [permit |-> v, bytes |-> v]) \/ signed' = signed
          /\ Intent[v] = Intent[w]
      BY <1>8, PresentStep
    <2>2. PICK i \in DOMAIN signed' : x = signed'[i].bytes
      BY <1>0, <2>1 DEF TypeOK, Taken
    <2>3. signed' = Append(signed, [permit |-> v, bytes |-> v])
      BY <1>0, <2>1, <2>2
    <2>4. x = v
      <3> DEFINE S == [permit : Writes, bytes : Writes]
                 e == [permit |-> v, bytes |-> v]
      <3>1. signed \in Seq(S) /\ e \in S /\ signed' = Append(signed, e)
        BY <2>3 DEF TypeOK
      <3> HIDE DEF S, e
      <3>2. signed'[i] = e \/ (i \in DOMAIN signed /\ signed'[i] = signed[i])
        BY <2>2, <3>1, Appended
      <3> QED
        BY <1>0, <2>2, <3>2 DEF e
    <2>5. w \in AtStake
      BY <2>1 DEF Taken
    <2> QED
      BY <2>1, <2>4, <2>5 DEF Weighed
  <1>9. ASSUME NEW w \in Writes, Onward(w) PROVE FALSE
    <2>1. /\ UNCHANGED <<listed, signed>>
          /\ \A v \in Writes :
                stage'[v] # stage[v] => stage[v] \in Out /\ stage'[v] \in Out \cup {"done"}
          /\ \A v \in submissions' \ submissions : stage[v] = "signed"
          /\ \A v \in Writes : chain'[v] # "none" => chain[v] # "none" \/ stage[v] = "recorded"
      BY <1>9, OnwardStep
    <2> QED
      BY <1>0, <2>1 DEF Taken, Out
  <1> QED
    BY <1>1, <1>2, <1>3, <1>4, <1>5, <1>6, <1>7, <1>8, <1>9, Steps

-----------------------------------------------------------------------------
(* Sums of what is held, and of what is signed.                           *)
LEMMA HeldSums ==
    ASSUME TypeOK, Weighed, NEW T, T \subseteq Held
    PROVE  /\ IsFiniteSet(T) /\ Committed(T) \in Nat
           /\ \A U \in SUBSET T : Committed(U) \in Nat /\ Committed(U) <= Committed(T)
           /\ \A w \in T : Committed(T) = Commitment[w] + Committed(T \ {w})
           /\ \A w \in Writes \ T : Gate!Measurable(Intent[w]) =>
                 Committed(T \cup {w}) = Committed(T) + Commitment[w]
  <1>1. IsFiniteSet(T) /\ T \subseteq Writes
    BY InstallationAssumption, FS_Subset DEF Held
  <1>2. \A w \in T : Commitment[w] \in Nat /\ Commitment[w] \in Int
    <2>1. \A w \in T : w \in AtStake
      BY DEF Held, AtStake, Taken
    <2> QED
      BY <1>1, <2>1, Measures DEF Weighed
  <1>3. \A U \in SUBSET T : Committed(U) \in Nat /\ Committed(U) <= Committed(T)
    BY <1>1, <1>2, SumPart DEF Committed
  <1>4. \A w \in T : Committed(T) = Commitment[w] + Committed(T \ {w})
    BY <1>1, <1>2, SumRemove DEF Committed
  <1>5. ASSUME NEW w \in Writes \ T, Gate!Measurable(Intent[w])
        PROVE  Committed(T \cup {w}) = Committed(T) + Commitment[w]
    <2>1. Commitment[w] \in Int
      BY <1>5, Measures
    <2>2. \A y \in T \cup {w} : Commitment[y] \in Int
      BY <1>2, <2>1
    <2> QED
      BY <1>1, <2>2, SumAdd DEF Committed
  <1> QED
    BY <1>1, <1>3, <1>4, <1>5

Amounts(s) == [i \in DOMAIN s |-> Gate!Commits(Intent[s[i].bytes])]

LEMMA SignedSums ==
    ASSUME TypeOK, Weighed
    PROVE  /\ SignedAway = SumFunctionOnSet(Amounts(signed), DOMAIN signed)
           /\ SignedAway' = SumFunctionOnSet(Amounts(signed'), DOMAIN signed')
           /\ SignedAway \in Nat
           /\ signed' = signed => SignedAway' = SignedAway
           /\ IsFiniteSet(DOMAIN signed)
           /\ \A i \in DOMAIN signed : Amounts(signed)[i] \in Nat
  <1>1. /\ SignedAway = SumFunctionOnSet(Amounts(signed), DOMAIN signed)
        /\ SignedAway' = SumFunctionOnSet(Amounts(signed'), DOMAIN signed')
    BY DEF SignedAway, SumFunction, Amounts
  <1>2. IsFiniteSet(DOMAIN signed)
    <2>1. DOMAIN signed = 1..Len(signed) /\ Len(signed) \in Nat
      BY DEF TypeOK
    <2> QED
      BY <2>1, FS_Interval
  <1>3. \A i \in DOMAIN signed : signed[i].bytes \in Writes
    <2> DEFINE S == [permit : Writes, bytes : Writes]
    <2>1. signed \in Seq(S)
      BY DEF TypeOK
    <2> HIDE DEF S
    <2>2. \A i \in DOMAIN signed : signed[i] \in S
      BY <2>1
    <2> QED
      BY <2>2 DEF S
  <1>4. ASSUME NEW i \in DOMAIN signed PROVE Amounts(signed)[i] \in Nat
    <2>1. signed[i].bytes \in AtStake
      BY <1>3 DEF AtStake
    <2> QED
      BY <1>3, <2>1, Measures DEF Weighed, Amounts
  <1>5. SignedAway \in Nat
    BY <1>1, <1>2, <1>4, SumType
  <1> QED
    BY <1>1, <1>2, <1>4, <1>5

LEMMA SignedAdds ==
    ASSUME TypeOK, Weighed, NEW v \in Writes, Gate!Measurable(Intent[v]),
           signed' = Append(signed, [permit |-> v, bytes |-> v])
    PROVE  SignedAway' = SignedAway + Commitment[v]
  <1> DEFINE S == [permit : Writes, bytes : Writes]
             e == [permit |-> v, bytes |-> v]
             n == Len(signed) + 1
             old == Amounts(signed)
             new == Amounts(signed')
             D == DOMAIN signed
  <1>1. signed \in Seq(S) /\ e \in S /\ signed' = Append(signed, e)
    BY DEF TypeOK
  <1>2. e.bytes = v
    OBVIOUS
  <1> HIDE DEF S, e, old, new
  <1>3. /\ DOMAIN signed' = D \cup {n} /\ n \notin D /\ IsFiniteSet(D)
        /\ signed'[n] = e /\ \A i \in D : signed'[i] = signed[i]
    <2>1. /\ DOMAIN signed' = DOMAIN signed \cup {Len(signed) + 1}
          /\ Len(signed) + 1 \notin DOMAIN signed
          /\ signed'[Len(signed) + 1] = e
          /\ \A i \in DOMAIN signed : signed'[i] = signed[i]
      BY <1>1, Appended
    <2> QED
      BY <2>1, SignedSums
  <1>4. new[n] = Commitment[v] /\ \A i \in D : new[i] = old[i]
    BY <1>2, <1>3, Measures DEF Amounts, old, new
  <1>5. (\A i \in D : old[i] \in Nat) /\ Commitment[v] \in Nat
    BY SignedSums, Measures DEF old
  <1> HIDE DEF D, n, old, new
  <1>6. \A i \in D \cup {n} : new[i] \in Int
    BY <1>4, <1>5
  <1>7. SumFunctionOnSet(new, D \cup {n}) = SumFunctionOnSet(new, D) + new[n]
    BY <1>3, <1>6, SumAdd
  <1>8. SumFunctionOnSet(new, D) = SumFunctionOnSet(old, D)
    BY <1>3, <1>4, SumSame
  <1>9. SignedAway = SumFunctionOnSet(old, D) /\ SignedAway' = SumFunctionOnSet(new, D \cup {n})
    BY <1>3, SignedSums DEF D, old, new
  <1> QED
    BY <1>4, <1>7, <1>8, <1>9

(* The ledger keeps covering: it takes in what is held before it is held,  *)
(* and gives back no more than stops being held.                           *)
LEMMA CoveredStep ==
    ASSUME TypeOK, Running, Issued, Weighed, Covered, [Next]_vars
    PROVE  Covered'
  <1> DEFINE held == Committed(Held)
             held2 == Committed(Held')
  <1>0. /\ spend.sum + lost \in Int /\ SignedAway \in Nat /\ held \in Nat
        /\ SignedAway + held <= spend.sum + lost
    <2>1. spend.sum + lost \in Int
      <3>1. spend \in [sum : Int, torn : BOOLEAN] /\ lost \in Nat
        BY DEF TypeOK
      <3> QED
        BY <3>1
    <2>2. SignedAway \in Nat
      BY SignedSums
    <2>3. held \in Nat
      <3>1. Held \subseteq Held
        OBVIOUS
      <3> HIDE DEF held
      <3>2. Committed(Held) \in Nat
        BY <3>1, HeldSums
      <3> QED
        BY <3>2 DEF held
    <2>4. SignedAway + held <= spend.sum + lost
      BY DEF Covered
    <2> QED
      BY <2>1, <2>2, <2>3, <2>4
  <1>1. Covered' <=> SignedAway' + held2 <= spend'.sum + lost'
    BY DEF Covered, Committed
  <1>2. ASSUME spend'.sum + lost' = spend.sum + lost, signed' = signed, Held' \subseteq Held
        PROVE  Covered'
    <2>1. SignedAway' = SignedAway
      BY <1>2, SignedSums
    <2>2. held2 \in Nat /\ held2 <= held
      BY <1>2, HeldSums
    <2> HIDE DEF held, held2
    <2>3. SignedAway + held2 <= spend.sum + lost
      BY <1>0, <2>2
    <2> QED
      BY <1>1, <1>2, <2>1, <2>3
  <1>3. CASE UNCHANGED vars
    BY <1>2, <1>3 DEF vars, disk, Held
  <1>4. ASSUME NEW p \in Processes, Load(p) PROVE Covered'
    BY <1>2, <1>4, LoadStep DEF Held
  <1>5. ASSUME NEW p \in Processes, Exit(p) \/ Crash(p) PROVE Covered'
    <2>1. UNCHANGED <<spend, lost, signed>>
          /\ stage' = [w \in Writes |-> IF by[w] = p THEN "done" ELSE stage[w]]
      BY <1>5, EndStep
    <2> QED
      BY <1>2, <2>1 DEF Held
  <1>6. ASSUME NEW p \in Processes, NEW w \in Writes, ReadPositions(p, w) PROVE Covered'
    <2>1. UNCHANGED <<spend, lost, signed>> /\ stage' = [stage EXCEPT ![w] = "listed"]
      BY <1>6, ReadStep DEF ReadPositions
    <2> QED
      BY <1>2, <2>1 DEF Held, TypeOK
  <1>7. ASSUME NEW w \in Writes, Authorize(w) PROVE Covered'
    <2>1. stage[w] = "listed" /\ signed' = signed
      BY <1>7, AuthorizeStep
    <2>2. CASE UNCHANGED <<spend, lost>> /\ stage' = [stage EXCEPT ![w] = "done"]
      BY <1>2, <2>1, <2>2 DEF Held, TypeOK
    <2>3. CASE ~(UNCHANGED <<spend, lost>> /\ stage' = [stage EXCEPT ![w] = "done"])
      <3>1. PICK done \in BOOLEAN :
               /\ Gate!Measurable(Intent[w]) /\ Commitment[w] \in Nat
               /\ stage' = [stage EXCEPT ![w] = IF done THEN "authorized" ELSE "done"]
               /\ spend'.sum + lost' = spend.sum + lost + (IF done THEN Commitment[w] ELSE 0)
        BY <1>7, <2>3, AuthorizeStep
      <3>2. CASE ~done
        <4>1. spend'.sum + lost' = spend.sum + lost
          BY <1>0, <3>1, <3>2
        <4> QED
          BY <1>2, <2>1, <3>1, <3>2, <4>1 DEF Held, TypeOK
      <3>3. CASE done
        <4>1. w \in Writes \ Held /\ Held' = Held \cup {w}
          BY <2>1, <3>1, <3>3 DEF Held, TypeOK
        <4>2. held2 = held + Commitment[w]
          BY <3>1, <4>1, HeldSums
        <4>3. SignedAway' = SignedAway
          BY <2>1, SignedSums
        <4> HIDE DEF held, held2
        <4>4. SignedAway + held2 <= spend.sum + lost + Commitment[w]
          BY <1>0, <3>1, <4>2
        <4> QED
          BY <1>1, <3>1, <3>3, <4>3, <4>4
      <3> QED
        BY <3>2, <3>3
    <2> QED
      BY <2>2, <2>3
  <1>8. ASSUME NEW w \in Writes, Build(w) PROVE Covered'
    BY <1>2, <1>8, BuildStep DEF Held, TypeOK
  <1>9. ASSUME NEW w \in Writes, BuildFailed(w) PROVE Covered'
    <2>1. /\ stage[w] = "authorized" /\ stage' = [stage EXCEPT ![w] = "done"]
          /\ signed' = signed /\ Commitment[w] \in Nat
          /\ spend' \in [sum : Int, torn : BOOLEAN] /\ lost' \in Nat
          /\ spend'.sum + lost' >= spend.sum + lost - Commitment[w]
      BY <1>9, BuildFailedStep
    <2>2. w \in Held /\ Held' = Held \ {w}
      BY <2>1 DEF Held, TypeOK
    <2>3. held = Commitment[w] + held2 /\ held2 \in Nat
      BY <2>2, HeldSums
    <2>4. SignedAway' = SignedAway
      BY <2>1, SignedSums
    <2>5. spend'.sum + lost' \in Int
      BY <2>1
    <2>6. spend'.sum + lost' >= (spend.sum + lost) - Commitment[w]
      BY <2>1 DEF TypeOK
    <2> DEFINE before == spend.sum + lost
               after == spend'.sum + lost'
    <2> HIDE DEF held, held2, before, after
    <2>7. SignedAway + held2 <= after
      <3>1. /\ before \in Int /\ after \in Int /\ SignedAway \in Nat /\ held \in Nat
            /\ SignedAway + held <= before
        BY <1>0, <2>5 DEF before, after
      <3>2. after >= before - Commitment[w]
        BY <2>6 DEF before, after
      <3> QED
        BY <2>1, <2>3, <3>1, <3>2
    <2> QED
      BY <1>1, <2>4, <2>7 DEF after
  <1>10. ASSUME NEW w \in Writes, NEW v \in Writes, NEW b \in Writes,
                Present(w, [for |-> v, boundTo |-> v], b)
         PROVE  Covered'
    <2>1. /\ stage[w] = "built" /\ UNCHANGED <<spend, lost>> /\ Intent[v] = Intent[w]
          /\ \/ /\ signed' = Append(signed, [permit |-> v, bytes |-> v])
                /\ stage' = [stage EXCEPT ![w] = "signed"]
             \/ signed' = signed /\ stage' = [stage EXCEPT ![w] = "done"]
      BY <1>10, PresentStep
    <2>2. w \in Held /\ Held' = Held \ {w} /\ w \in AtStake
      BY <2>1 DEF Held, TypeOK, AtStake, Taken
    <2>3. CASE signed' = signed
      BY <1>2, <2>1, <2>2, <2>3
    <2>4. CASE signed' = Append(signed, [permit |-> v, bytes |-> v])
      <3>1. held = Commitment[w] + held2 /\ held2 \in Nat
        BY <2>2, HeldSums
      <3>2. Gate!Measurable(Intent[w]) /\ Gate!Measurable(Intent[v])
        BY <2>1, <2>2 DEF Weighed
      <3>3. Commitment[v] = Commitment[w] /\ Commitment[w] \in Nat
        BY <2>1, <3>2, Measures
      <3>4. SignedAway' = SignedAway + Commitment[v]
        BY <2>4, <3>2, SignedAdds
      <3> HIDE DEF held, held2
      <3>5. SignedAway + Commitment[w] + held2 <= spend.sum + lost
        BY <1>0, <3>1, <3>3
      <3> QED
        BY <1>1, <2>1, <3>3, <3>4, <3>5
    <2> QED
      BY <2>1, <2>3, <2>4
  <1>11. ASSUME NEW w \in Writes, Onward(w) PROVE Covered'
    <2>1. /\ UNCHANGED <<spend, lost, signed>>
          /\ \A v \in Writes :
                stage'[v] # stage[v] => stage[v] \in Out /\ stage'[v] \in Out \cup {"done"}
      BY <1>11, OnwardStep
    <2> QED
      BY <1>2, <2>1 DEF Held, Out
  <1> QED
    BY <1>3, <1>4, <1>5, <1>6, <1>7, <1>8, <1>9, <1>10, <1>11, Steps

LEMMA LostStays ==
    ASSUME TypeOK, Running, Issued, Weighed, [Next]_vars
    PROVE  lost' >= lost
  <1>0. lost \in Nat
    BY DEF TypeOK
  <1>1. ASSUME UNCHANGED vars PROVE lost' = lost
    BY <1>1 DEF vars
  <1>2. ASSUME NEW p \in Processes, Load(p) \/ Exit(p) \/ Crash(p) PROVE lost' = lost
    BY <1>2, LoadStep, EndStep
  <1>3. ASSUME NEW p \in Processes, NEW w \in Writes, ReadPositions(p, w) PROVE lost' = lost
    BY <1>3, ReadStep
  <1>4. ASSUME NEW w \in Writes, Authorize(w) PROVE lost' = lost \/ lost' >= lost
    BY <1>4, AuthorizeStep, Zenon
  <1>5. ASSUME NEW w \in Writes, Build(w) PROVE lost' = lost
    BY <1>5, BuildStep
  <1>6. ASSUME NEW w \in Writes, BuildFailed(w) PROVE lost' >= lost
    BY <1>6, BuildFailedStep
  <1>7. ASSUME NEW w \in Writes, NEW v \in Writes, NEW b \in Writes,
               Present(w, [for |-> v, boundTo |-> v], b)
        PROVE  lost' = lost
    BY <1>7, PresentStep
  <1>8. ASSUME NEW w \in Writes, Onward(w) PROVE lost' = lost
    BY <1>8, OnwardStep
  <1>9. lost' = lost \/ lost' >= lost
    BY <1>1, <1>2, <1>3, <1>4, <1>5, <1>6, <1>7, <1>8, Steps, Zenon
  <1> QED
    BY <1>0, <1>9

(* What a running process holds, and what it has counted.                 *)
LEMMA LiveGate ==
    ASSUME TypeOK, NEW p \in Live
    PROVE  p \in Processes /\ gate[p] \in Gates /\ gate[p].spent \in Int /\ HeldBy(p) \subseteq Held
  BY DEF TypeOK, Live, Gates, HeldBy

LEMMA CountedStep ==
    ASSUME TypeOK, Running, Issued, Weighed, Covered, Counted, [Next]_vars
    PROVE  Counted'
  <1> SUFFICES ASSUME lost' = 0, NEW p \in Live'
               PROVE  gate'[p].spent >= Committed(HeldBy(p)')
    BY DEF Counted, Committed
  <1> DEFINE before == HeldBy(p)
             after == HeldBy(p)'
  <1>0. lost = 0
    BY LostStays DEF TypeOK
  <1>1. ASSUME p \in Live PROVE /\ gate[p].spent \in Int /\ Committed(before) \in Nat
                                /\ gate[p].spent >= Committed(before)
    BY <1>0, <1>1, LiveGate, HeldSums DEF Counted
  <1>2. ASSUME p \in Live, gate'[p].spent = gate[p].spent, after \subseteq before
        PROVE  gate'[p].spent >= Committed(after)
    <2>1. Committed(after) \in Nat /\ Committed(after) <= Committed(before)
      BY <1>2, LiveGate, HeldSums
    <2> HIDE DEF before, after
    <2> QED
      BY <1>1, <1>2, <2>1
  <1>3. CASE UNCHANGED vars
    BY <1>2, <1>3 DEF vars, HeldBy, Held, Live
  <1>4. ASSUME NEW q \in Processes, Load(q) PROVE gate'[p].spent >= Committed(after)
    <2>1. /\ gate[q] = Undefined /\ gate' = [gate EXCEPT ![q] = [spent |-> spend.sum, permits |-> {}]]
          /\ Live' = Live \cup {q} /\ UNCHANGED <<stage, by>>
      BY <1>4, LoadStep
    <2>2. after = before
      BY <2>1 DEF HeldBy, Held
    <2>3. CASE p # q
      <3>1. p \in Live /\ gate'[p] = gate[p]
        BY <2>1, <2>3 DEF TypeOK
      <3> QED
        BY <1>2, <2>2, <3>1
    <2>4. CASE p = q
      <3>1. before = {}
        BY <2>1, <2>4 DEF HeldBy, Held, Running, Taken, Live
      <3>2. Committed(after) = 0
        BY <2>2, <3>1, SumEmpty DEF Committed
      <3>3. gate'[p].spent = spend.sum
        BY <2>1, <2>4 DEF TypeOK
      <3>4. spend \in [sum : Int, torn : BOOLEAN]
        BY DEF TypeOK
      <3>5. SignedAway \in Nat
        BY SignedSums
      <3>6. Committed(Held) \in Nat
        <4>1. Held \subseteq Held
          OBVIOUS
        <4> QED
          BY <4>1, HeldSums
      <3>7. SignedAway + Committed(Held) <= spend.sum + 0
        BY <1>0 DEF Covered
      <3>8. spend.sum >= 0
        BY <3>4, <3>5, <3>6, <3>7
      <3> QED
        BY <3>2, <3>3, <3>8
    <2> QED
      BY <2>3, <2>4
  <1>5. ASSUME NEW q \in Processes, Exit(q) \/ Crash(q) PROVE gate'[p].spent >= Committed(after)
    <2>1. /\ gate' = [gate EXCEPT ![q] = Undefined] /\ Live' = Live \ {q}
          /\ by' = [w \in Writes |-> IF by[w] = q THEN Undefined ELSE by[w]]
          /\ stage' = [w \in Writes |-> IF by[w] = q THEN "done" ELSE stage[w]]
      BY <1>5, EndStep
    <2>2. p \in Live /\ p # q /\ gate'[p] = gate[p]
      BY <2>1 DEF TypeOK
    <2>3. p # Undefined
      BY <2>2, InstallationAssumption DEF Live
    <2>4. after \subseteq before
      BY <2>1, <2>2, <2>3 DEF HeldBy, Held
    <2> QED
      BY <1>2, <2>2, <2>4
  <1>6. ASSUME NEW q \in Processes, NEW w \in Writes, ReadPositions(q, w)
        PROVE  gate'[p].spent >= Committed(after)
    <2>1. /\ gate' = gate /\ by' = [by EXCEPT ![w] = q] /\ stage' = [stage EXCEPT ![w] = "listed"]
      BY <1>6, ReadStep
    <2>2. p \in Live /\ after \subseteq before
      BY <2>1 DEF HeldBy, Held, Live, TypeOK
    <2> QED
      BY <1>2, <2>1, <2>2
  <1>7. ASSUME NEW w \in Writes, Authorize(w) PROVE gate'[p].spent >= Committed(after)
    <2>1. stage[w] = "listed" /\ by' = by /\ by[w] \in Live
      BY <1>7, AuthorizeStep
    <2>2. CASE UNCHANGED gate /\ stage' = [stage EXCEPT ![w] = "done"]
      <3>1. p \in Live /\ after \subseteq before
        BY <2>1, <2>2 DEF HeldBy, Held, Live, TypeOK
      <3> QED
        BY <1>2, <2>2, <3>1
    <2>3. CASE ~(UNCHANGED gate /\ stage' = [stage EXCEPT ![w] = "done"])
      <3>1. PICK done \in BOOLEAN :
               /\ Gate!Measurable(Intent[w]) /\ Commitment[w] \in Nat
               /\ stage' = [stage EXCEPT ![w] = IF done THEN "authorized" ELSE "done"]
               /\ gate' = [gate EXCEPT ![by[w]] =
                     [spent |-> gate[by[w]].spent + Commitment[w],
                      permits |-> gate[by[w]].permits \cup
                         (IF done THEN {[for |-> w, boundTo |-> Undefined]} ELSE {})]]
               /\ Live' = Live
        BY <1>7, <2>3, AuthorizeStep
      <3>2. p \in Live
        BY <3>1
      <3>3. w \in Writes \ before /\ after \subseteq before \cup (IF by[w] = p THEN {w} ELSE {})
        BY <2>1, <3>1 DEF HeldBy, Held, TypeOK
      <3>4. CASE p # by[w]
        <4>1. gate'[p] = gate[p]
          BY <3>1, <3>2, <3>4 DEF TypeOK, Live
        <4> QED
          BY <1>2, <3>2, <3>3, <3>4, <4>1
      <3>5. CASE p = by[w]
        <4>1. gate'[p].spent = gate[p].spent + Commitment[w]
          BY <3>1, <3>2, <3>5 DEF TypeOK, Live
        <4>2. Committed(after) \in Nat /\ Committed(after) <= Committed(before) + Commitment[w]
          <5>1. /\ before \subseteq Held /\ \A U \in SUBSET before : Committed(U) \in Nat
                                                         /\ Committed(U) <= Committed(before)
                /\ Committed(before \cup {w}) = Committed(before) + Commitment[w]
            BY <3>1, <3>2, <3>3, LiveGate, HeldSums
          <5>2. CASE w \notin after
            <6>1. after \in SUBSET before
              BY <3>3, <5>2
            <6>2. Committed(after) \in Nat /\ Committed(after) <= Committed(before)
              BY <5>1, <6>1
            <6> HIDE DEF before, after
            <6> QED
              BY <1>1, <3>1, <3>2, <6>2
          <5>3. CASE w \in after
            <6>1. after = before \cup {w}
              BY <2>1, <3>1, <5>3 DEF HeldBy, Held, TypeOK
            <6>2. Committed(after) = Committed(before) + Commitment[w]
              BY <5>1, <6>1
            <6> HIDE DEF before, after
            <6> QED
              BY <1>1, <3>1, <3>2, <6>2
          <5> QED
            BY <5>2, <5>3
        <4> HIDE DEF before, after
        <4> QED
          BY <1>1, <3>1, <3>2, <4>1, <4>2
      <3> QED
        BY <3>4, <3>5
    <2> QED
      BY <2>2, <2>3
  <1>8. ASSUME NEW w \in Writes, Build(w) PROVE gate'[p].spent >= Committed(after)
    <2>1. /\ stage[w] = "authorized" /\ by' = by /\ stage' = [stage EXCEPT ![w] = "built"]
          /\ gate'[p].spent = gate[p].spent /\ Live' = Live
      BY <1>8, BuildStep DEF TypeOK, Live
    <2>2. after \subseteq before
      BY <2>1 DEF HeldBy, Held, TypeOK
    <2> QED
      BY <1>2, <2>1, <2>2
  <1>9. ASSUME NEW w \in Writes, BuildFailed(w) PROVE gate'[p].spent >= Committed(after)
    <2>1. /\ stage[w] = "authorized" /\ by' = by /\ stage' = [stage EXCEPT ![w] = "done"]
          /\ Commitment[w] \in Nat /\ Live' = Live
          /\ gate' = [gate EXCEPT ![by[w]] =
                [spent |-> gate[by[w]].spent - Commitment[w],
                 permits |-> {k \in gate[by[w]].permits : k.for # w}]]
      BY <1>9, BuildFailedStep
    <2>2. p \in Live /\ after = before \ {w}
      BY <2>1 DEF HeldBy, Held, TypeOK
    <2>3. CASE p # by[w]
      <3>1. gate'[p] = gate[p]
        BY <2>1, <2>2, <2>3 DEF TypeOK, Live
      <3> QED
        BY <1>2, <2>2, <3>1
    <2>4. CASE p = by[w]
      <3>1. gate'[p].spent = gate[p].spent - Commitment[w]
        BY <2>1, <2>2, <2>4 DEF TypeOK, Live
      <3>2. w \in before
        BY <2>1, <2>4 DEF HeldBy, Held
      <3>3. Committed(before) = Commitment[w] + Committed(after) /\ Committed(after) \in Nat
        BY <2>2, <3>2, LiveGate, HeldSums
      <3> HIDE DEF before, after
      <3> QED
        BY <1>1, <2>1, <2>2, <3>1, <3>3
    <2> QED
      BY <2>3, <2>4
  <1>10. ASSUME NEW w \in Writes, NEW v \in Writes, NEW b \in Writes,
                Present(w, [for |-> v, boundTo |-> v], b)
         PROVE  gate'[p].spent >= Committed(after)
    <2>1. /\ stage' = [stage EXCEPT ![w] = "signed"] \/ stage' = [stage EXCEPT ![w] = "done"]
          /\ Live' = Live /\ by' = by
          /\ gate' = [gate EXCEPT ![by[w]] =
                [spent |-> gate[by[w]].spent,
                 permits |-> gate[by[w]].permits \ {[for |-> v, boundTo |-> v]}]]
      BY <1>10, PresentStep
    <2>2. gate'[p].spent = gate[p].spent /\ p \in Live /\ after \subseteq before
      BY <2>1 DEF HeldBy, Held, TypeOK, Live
    <2> QED
      BY <1>2, <2>2
  <1>11. ASSUME NEW w \in Writes, Onward(w) PROVE gate'[p].spent >= Committed(after)
    <2>1. /\ gate' = gate /\ by' = by
          /\ \A v \in Writes :
                stage'[v] # stage[v] => stage[v] \in Out /\ stage'[v] \in Out \cup {"done"}
      BY <1>11, OnwardStep
    <2>2. p \in Live /\ after \subseteq before
      BY <2>1 DEF HeldBy, Held, Live, Out
    <2> QED
      BY <1>2, <2>1, <2>2
  <1> QED
    BY <1>3, <1>4, <1>5, <1>6, <1>7, <1>8, <1>9, <1>10, <1>11, Steps

(* What is left of a budget, of one process and of several.               *)
LEMMA LeftBounds ==
    ASSUME NEW s \in Nat
    PROVE  /\ Left(s) \in Nat /\ Left(s) <= TheScope.maxCumulativeCollateral
           /\ \A c \in Nat :
                 /\ s + c <= TheScope.maxCumulativeCollateral => Left(s + c) + c = Left(s)
                 /\ c <= s => Left(s - c) <= Left(s) + c
  BY Ceiling DEF Left

LEMMA RoomSums ==
    ASSUME NEW live, IsFiniteSet(live), NEW gates, \A p \in live : gates[p].spent \in Nat
    PROVE  /\ Room(gates, live) \in Nat
           /\ Room(gates, live) <= Cardinality(live) * TheScope.maxCumulativeCollateral
           /\ \A p \in live :
                 /\ Room(gates, live \ {p}) \in Nat
                 /\ Room(gates, live) = Left(gates[p].spent) + Room(gates, live \ {p})
  <1> DEFINE c == [p \in live |-> Left(gates[p].spent)]
             M == TheScope.maxCumulativeCollateral
  <1>1. M \in Int /\ \A p \in live : c[p] \in Nat /\ c[p] \in Int /\ c[p] <= M
    <2>1. M \in Int
      BY Ceiling
    <2>2. ASSUME NEW p \in live PROVE c[p] \in Nat /\ c[p] <= M
      BY <2>2, LeftBounds
    <2> QED
      BY <2>1, <2>2
  <1>2. \A p \in live : c[p] = Left(gates[p].spent)
    OBVIOUS
  <1>3. Room(gates, live) = SumFunctionOnSet(c, live)
    BY DEF Room
  <1>4. ASSUME NEW p \in live
        PROVE  Room(gates, live \ {p}) = SumFunctionOnSet(c, live \ {p})
    <2> DEFINE d == [q \in live \ {p} |-> Left(gates[q].spent)]
    <2>1. IsFiniteSet(live \ {p}) /\ \A q \in live \ {p} : d[q] = c[q]
      BY FS_Subset
    <2>2. Room(gates, live \ {p}) = SumFunctionOnSet(d, live \ {p})
      BY DEF Room
    <2> HIDE DEF c, d
    <2> QED
      BY <2>1, <2>2, SumSame
  <1> HIDE DEF c, M
  <1>5. SumFunctionOnSet(c, live) \in Nat
    BY <1>1, SumType
  <1>6. SumFunctionOnSet(c, live) <= Cardinality(live) * M
    BY <1>1, SumBound
  <1>7. ASSUME NEW p \in live
        PROVE  /\ SumFunctionOnSet(c, live \ {p}) \in Nat
               /\ SumFunctionOnSet(c, live) = c[p] + SumFunctionOnSet(c, live \ {p})
    <2>1. IsFiniteSet(live \ {p}) /\ \A q \in live \ {p} : c[q] \in Nat
      BY <1>1, FS_Subset
    <2>2. SumFunctionOnSet(c, live \ {p}) \in Nat
      BY <2>1, SumType
    <2> QED
      BY <1>1, <2>2, SumRemove
  <1> QED
    BY <1>2, <1>3, <1>4, <1>5, <1>6, <1>7 DEF M

LEMMA RoomPart ==
    ASSUME NEW live, IsFiniteSet(live), NEW gates, \A p \in live : gates[p].spent \in Nat,
           NEW others, NEW some \in SUBSET live,
           \A p \in some : others[p].spent = gates[p].spent
    PROVE  Room(others, some) \in Nat /\ Room(others, some) <= Room(gates, live)
  <1> DEFINE c == [p \in live |-> Left(gates[p].spent)]
             d == [p \in some |-> Left(others[p].spent)]
  <1>1. \A p \in live : c[p] \in Nat
    BY LeftBounds
  <1>2. IsFiniteSet(some) /\ \A p \in some : d[p] = c[p]
    BY FS_Subset
  <1>3. Room(gates, live) = SumFunctionOnSet(c, live)
        /\ Room(others, some) = SumFunctionOnSet(d, some)
    BY DEF Room
  <1> HIDE DEF c, d
  <1>4. SumFunctionOnSet(d, some) = SumFunctionOnSet(c, some)
    BY <1>2, SumSame
  <1>5. SumFunctionOnSet(c, some) \in Nat
        /\ SumFunctionOnSet(c, some) <= SumFunctionOnSet(c, live)
    BY <1>1, SumPart
  <1> QED
    BY <1>3, <1>4, <1>5

(* One process more, or another one, is one ceiling more, or less.        *)
LEMMA OneMore ==
    ASSUME NEW k \in Nat, NEW n \in Nat, NEW M \in Nat
    PROVE  /\ k * M \in Nat /\ (k + 1) * M = k * M + M
           /\ k <= n => k * M <= n * M
  OBVIOUS

(* THE BUDGET, step by step: what is authorized is taken from the room of  *)
(* one process; what starts brings the room of the ledger it read, which   *)
(* has what is signed and held in it.                                      *)
LEMMA BudgetedStep ==
    ASSUME TypeOK, Running, Issued, Weighed, Covered, Counted, Budgeted, [Next]_vars
    PROVE  Budgeted'
  <1> DEFINE M == TheScope.maxCumulativeCollateral
             held == Committed(Held)
             held2 == Committed(Held')
             room == Room(gate, Live)
             room2 == Room(gate', Live')
  <1>0. /\ SignedAway \in Nat /\ held \in Nat /\ M \in Nat /\ most \in Nat
        /\ \A U \in SUBSET Held : Committed(U) \in Nat /\ Committed(U) <= held
    <2>1. Held \subseteq Held
      OBVIOUS
    <2>2. held \in Nat /\ \A U \in SUBSET Held : Committed(U) \in Nat /\ Committed(U) <= held
      BY <2>1, HeldSums
    <2>3. most \in Nat
      BY DEF TypeOK
    <2> QED
      BY <2>2, <2>3, SignedSums, Ceiling
  <1>1. IsFiniteSet(Live) /\ Cardinality(Live) \in Nat /\ Cardinality(Live) <= most
    BY InstallationAssumption, FS_Subset, FS_CardinalityType DEF Live, Budgeted
  <1>2. ASSUME lost = 0
        PROVE  /\ \A p \in Live : gate[p].spent \in Nat /\ Committed(HeldBy(p)) \in Nat
                                  /\ Committed(HeldBy(p)) <= gate[p].spent
               /\ room \in Nat /\ SignedAway + held + room <= most * M
    <2>1. ASSUME NEW p \in Live
          PROVE  gate[p].spent \in Nat /\ Committed(HeldBy(p)) \in Nat
                 /\ Committed(HeldBy(p)) <= gate[p].spent
      <3>1. gate[p].spent \in Int /\ Committed(HeldBy(p)) \in Nat
        BY LiveGate, HeldSums
      <3>2. gate[p].spent >= Committed(HeldBy(p))
        BY <1>2 DEF Counted
      <3> QED
        BY <3>1, <3>2
    <2>2. room \in Nat
      BY <1>1, <2>1, RoomSums
    <2>3. SignedAway + held + room <= most * M
      BY <1>2 DEF Budgeted
    <2> QED
      BY <2>1, <2>2, <2>3
  <1>3. lost' = 0 => lost = 0
    BY LostStays DEF TypeOK
  <1>4. Budgeted' <=> /\ Cardinality(Live') <= most'
                      /\ lost' = 0 => SignedAway' + held2 + room2 <= most' * M
    BY DEF Budgeted, Committed, Room
  (* A step by which nothing grows.                                        *)
  <1>5. ASSUME most' = most, Live' \subseteq Live,
               lost = 0 => /\ SignedAway' \in Nat /\ held2 \in Nat
                           /\ SignedAway' + held2 <= SignedAway + held,
               \A p \in Live' : gate'[p].spent = gate[p].spent
        PROVE  Budgeted'
    <2>1. Cardinality(Live') <= most'
      <3>1. Cardinality(Live') \in Nat /\ Cardinality(Live') <= Cardinality(Live)
        BY <1>1, <1>5, FS_Subset, FS_CardinalityType
      <3> QED
        BY <1>0, <1>1, <1>5, <3>1
    <2>2. ASSUME lost' = 0 PROVE SignedAway' + held2 + room2 <= most' * M
      <3>1. lost = 0
        BY <1>3, <2>2
      <3>2. room2 \in Nat /\ room2 <= room
        BY <1>1, <1>2, <1>5, <3>1, RoomPart
      <3>3. most * M \in Int
        BY <1>0
      <3> HIDE DEF held, held2, room, room2, M
      <3> QED
        BY <1>0, <1>2, <1>5, <3>1, <3>2, <3>3
    <2> QED
      BY <1>4, <2>1, <2>2
  <1>6. ASSUME signed' = signed, Held' \subseteq Held
        PROVE  /\ SignedAway' \in Nat /\ held2 \in Nat
               /\ SignedAway' = SignedAway /\ SignedAway' + held2 <= SignedAway + held
    <2>1. SignedAway' = SignedAway
      BY <1>6, SignedSums
    <2>2. held2 \in Nat /\ held2 <= held
      BY <1>0, <1>6
    <2> HIDE DEF held, held2
    <2> QED
      BY <1>0, <2>1, <2>2
  <1>7. CASE UNCHANGED vars
    <2>1. most' = most /\ Live' = Live /\ gate' = gate /\ signed' = signed /\ Held' = Held
      BY <1>7 DEF vars, history, Live, Held
    <2> QED
      BY <1>5, <1>6, <2>1
  <1>8. ASSUME NEW q \in Processes, Exit(q) \/ Crash(q) PROVE Budgeted'
    <2>1. /\ Live' = Live \ {q} /\ gate' = [gate EXCEPT ![q] = Undefined]
          /\ stage' = [w \in Writes |-> IF by[w] = q THEN "done" ELSE stage[w]]
          /\ signed' = signed /\ most' = most
      BY <1>8, EndStep
    <2>2. Held' \subseteq Held
      BY <2>1 DEF Held
    <2>3. \A p \in Live' : gate'[p].spent = gate[p].spent
      BY <2>1 DEF Live, TypeOK
    <2> QED
      BY <1>5, <1>6, <2>1, <2>2, <2>3
  <1>9. ASSUME NEW q \in Processes, NEW w \in Writes, ReadPositions(q, w) PROVE Budgeted'
    <2>1. /\ gate' = gate /\ stage' = [stage EXCEPT ![w] = "listed"]
          /\ signed' = signed /\ most' = most
      BY <1>9, ReadStep
    <2>2. Live' = Live /\ Held' \subseteq Held
      BY <2>1 DEF Live, Held, TypeOK
    <2> QED
      BY <1>5, <1>6, <2>1, <2>2
  <1>10. ASSUME NEW w \in Writes, Build(w) PROVE Budgeted'
    <2>1. /\ stage[w] = "authorized" /\ stage' = [stage EXCEPT ![w] = "built"]
          /\ signed' = signed /\ most' = most /\ Live' = Live
      BY <1>10, BuildStep
    <2>2. \A p \in Live' : gate'[p].spent = gate[p].spent
      BY <1>10, BuildStep DEF TypeOK, Live
    <2>3. Held' \subseteq Held
      BY <2>1 DEF Held, TypeOK
    <2> QED
      BY <1>5, <1>6, <2>1, <2>2, <2>3
  <1>11. ASSUME NEW w \in Writes, Onward(w) PROVE Budgeted'
    <2>1. /\ gate' = gate /\ signed' = signed /\ most' = most
          /\ \A v \in Writes :
                stage'[v] # stage[v] => stage[v] \in Out /\ stage'[v] \in Out \cup {"done"}
      BY <1>11, OnwardStep
    <2>2. Live' = Live /\ Held' \subseteq Held
      BY <2>1 DEF Live, Held, Out
    <2> QED
      BY <1>5, <1>6, <2>1, <2>2
  <1>12. ASSUME NEW w \in Writes, NEW v \in Writes, NEW b \in Writes,
                Present(w, [for |-> v, boundTo |-> v], b)
         PROVE  Budgeted'
    <2>1. /\ stage[w] = "built" /\ Intent[v] = Intent[w] /\ most' = most /\ Live' = Live
          /\ \/ /\ signed' = Append(signed, [permit |-> v, bytes |-> v])
                /\ stage' = [stage EXCEPT ![w] = "signed"]
             \/ signed' = signed /\ stage' = [stage EXCEPT ![w] = "done"]
      BY <1>12, PresentStep
    <2>2. \A p \in Live' : gate'[p].spent = gate[p].spent
      <3>1. gate' = [gate EXCEPT ![by[w]] =
               [spent |-> gate[by[w]].spent,
                permits |-> gate[by[w]].permits \ {[for |-> v, boundTo |-> v]}]]
        BY <1>12, PresentStep
      <3> QED
        BY <2>1, <3>1 DEF TypeOK, Live
    <2>3. w \in Held /\ Held' = Held \ {w} /\ w \in AtStake
      BY <2>1 DEF Held, TypeOK, AtStake, Taken
    <2>4. CASE signed' = signed
      BY <1>5, <1>6, <2>1, <2>2, <2>3, <2>4
    <2>5. CASE signed' = Append(signed, [permit |-> v, bytes |-> v])
      <3>1. held = Commitment[w] + held2 /\ held2 \in Nat
        <4>1. Held \subseteq Held
          OBVIOUS
        <4> QED
          BY <1>0, <2>3, <4>1, HeldSums
      <3>2. Gate!Measurable(Intent[w]) /\ Gate!Measurable(Intent[v])
        BY <2>1, <2>3 DEF Weighed
      <3>3. Commitment[v] = Commitment[w] /\ Commitment[w] \in Nat
        BY <2>1, <3>2, Measures
      <3>4. SignedAway' = SignedAway + Commitment[v]
        BY <2>5, <3>2, SignedAdds
      <3>5. SignedAway' \in Nat /\ SignedAway' + held2 <= SignedAway + held
        <4> HIDE DEF held, held2
        <4> QED
          BY <1>0, <3>1, <3>3, <3>4
      <3> QED
        BY <1>5, <2>1, <2>2, <3>1, <3>5
    <2> QED
      BY <2>1, <2>4, <2>5
  (* What one process counts more or less is room it has less or more.     *)
  <1>13. ASSUME NEW p \in Live, Live' = Live, lost = 0, gate'[p].spent \in Nat,
                \A q \in Live : q # p => gate'[q].spent = gate[q].spent
         PROVE  /\ room2 \in Nat /\ Left(gate[p].spent) \in Nat /\ Left(gate'[p].spent) \in Nat
                /\ room2 - Left(gate'[p].spent) = room - Left(gate[p].spent)
    <2> DEFINE rest == Room(gate, Live \ {p})
               rest2 == Room(gate', Live \ {p})
    <2>1. \A q \in Live : gate[q].spent \in Nat /\ gate'[q].spent \in Nat
      BY <1>2, <1>13
    <2>2. rest \in Nat /\ room = Left(gate[p].spent) + rest
      BY <1>1, <2>1, RoomSums
    <2>3. rest2 \in Nat /\ room2 = Left(gate'[p].spent) + rest2
      BY <1>1, <1>13, <2>1, RoomSums
    <2>4. rest = rest2
      BY <1>13 DEF Room
    <2>5. Left(gate[p].spent) \in Nat /\ Left(gate'[p].spent) \in Nat
      BY <2>1, LeftBounds
    <2> HIDE DEF rest, rest2, room, room2
    <2> QED
      BY <2>2, <2>3, <2>4, <2>5
  <1>14. ASSUME NEW w \in Writes, BuildFailed(w) PROVE Budgeted'
    <2> DEFINE p == by[w]
    <2>1. /\ stage[w] = "authorized" /\ stage' = [stage EXCEPT ![w] = "done"]
          /\ p \in Live /\ Commitment[w] \in Nat /\ Live' = Live
          /\ signed' = signed /\ most' = most
          /\ gate' = [gate EXCEPT ![p] = [spent |-> gate[p].spent - Commitment[w],
                                          permits |-> {k \in gate[p].permits : k.for # w}]]
      BY <1>14, BuildFailedStep
    <2>2. w \in HeldBy(p) /\ w \in Held /\ Held' = Held \ {w}
      BY <2>1 DEF HeldBy, Held, TypeOK
    <2>3. /\ gate'[p].spent = gate[p].spent - Commitment[w]
          /\ \A q \in Live : q # p => gate'[q].spent = gate[q].spent
      BY <2>1 DEF TypeOK, Live
    <2>4. held = Commitment[w] + held2 /\ held2 \in Nat
      <3>1. Held \subseteq Held
        OBVIOUS
      <3> QED
        BY <1>0, <2>2, <3>1, HeldSums
    <2>5. SignedAway' = SignedAway
      BY <2>1, SignedSums
    <2>6. ASSUME lost' = 0 PROVE SignedAway' + held2 + room2 <= most' * M
      <3> DEFINE mine == Committed(HeldBy(p))
      <3>1. lost = 0
        BY <1>3, <2>6
      <3>2. gate[p].spent \in Nat /\ mine \in Nat /\ mine <= gate[p].spent
        BY <1>2, <2>1, <3>1
      <3>3. Commitment[w] <= mine
        <4>1. mine = Commitment[w] + Committed(HeldBy(p) \ {w}) /\ Committed(HeldBy(p) \ {w}) \in Nat
          BY <2>1, <2>2, LiveGate, HeldSums
        <4> HIDE DEF mine
        <4> QED
          BY <2>1, <4>1
      <3>4. Commitment[w] <= gate[p].spent /\ gate'[p].spent \in Nat
        <4> HIDE DEF mine, p
        <4> QED
          BY <2>1, <2>3, <3>2, <3>3
      <3>5. Left(gate'[p].spent) <= Left(gate[p].spent) + Commitment[w]
        BY <2>1, <2>3, <3>2, <3>4, LeftBounds
      <3>6. /\ room2 \in Nat /\ Left(gate[p].spent) \in Nat /\ Left(gate'[p].spent) \in Nat
            /\ room2 - Left(gate'[p].spent) = room - Left(gate[p].spent)
        BY <1>13, <2>1, <2>3, <3>1, <3>4
      <3>7. most * M \in Int /\ room \in Nat /\ SignedAway + held + room <= most * M
        BY <1>0, <1>2, <3>1
      <3> HIDE DEF held, held2, room, room2, M, p
      <3> QED
        BY <1>0, <2>1, <2>4, <2>5, <3>5, <3>6, <3>7
    <2> QED
      BY <1>0, <1>1, <1>4, <2>1, <2>6
  <1>15. ASSUME NEW w \in Writes, Authorize(w) PROVE Budgeted'
    <2> DEFINE p == by[w]
    <2>1. /\ stage[w] = "listed" /\ p \in Live /\ signed' = signed /\ most' = most
      BY <1>15, AuthorizeStep
    <2>2. CASE UNCHANGED gate /\ stage' = [stage EXCEPT ![w] = "done"]
      <3>1. Live' = Live /\ Held' \subseteq Held
        BY <2>1, <2>2 DEF Held, Live, TypeOK
      <3> QED
        BY <1>5, <1>6, <2>1, <2>2, <3>1
    <2>3. CASE ~(UNCHANGED gate /\ stage' = [stage EXCEPT ![w] = "done"])
      <3>1. PICK done \in BOOLEAN :
               /\ Gate!Measurable(Intent[w]) /\ Commitment[w] \in Nat
               /\ Commitment[w] # 0 => gate[p].spent + Commitment[w] <= M
               /\ stage' = [stage EXCEPT ![w] = IF done THEN "authorized" ELSE "done"]
               /\ gate' = [gate EXCEPT ![p] =
                     [spent |-> gate[p].spent + Commitment[w],
                      permits |-> gate[p].permits \cup
                         (IF done THEN {[for |-> w, boundTo |-> Undefined]} ELSE {})]]
               /\ Live' = Live
        BY <1>15, <2>3, AuthorizeStep
      <3>2. w \notin Held /\ Held' = Held \cup (IF done THEN {w} ELSE {})
        BY <2>1, <3>1 DEF Held, TypeOK
      <3>3. held2 \in Nat /\ held2 <= held + Commitment[w]
        <4>1. CASE done
          <5>1. Held \subseteq Held /\ w \in Writes \ Held /\ Held' = Held \cup {w}
            BY <3>2, <4>1
          <5>2. held2 = held + Commitment[w]
            BY <3>1, <5>1, HeldSums
          <5> HIDE DEF held, held2
          <5> QED
            BY <1>0, <3>1, <5>2
        <4>2. CASE ~done
          <5>1. held2 = held
            BY <3>2, <4>2
          <5> HIDE DEF held, held2
          <5> QED
            BY <1>0, <3>1, <5>1
        <4> QED
          BY <4>1, <4>2
      <3>4. SignedAway' = SignedAway
        BY <2>1, SignedSums
      <3>5. /\ gate'[p].spent = gate[p].spent + Commitment[w]
            /\ \A q \in Live : q # p => gate'[q].spent = gate[q].spent
        BY <2>1, <3>1 DEF TypeOK, Live
      <3>6. ASSUME lost' = 0 PROVE SignedAway' + held2 + room2 <= most' * M
        <4>1. lost = 0 /\ gate[p].spent \in Nat
          BY <1>2, <1>3, <2>1, <3>6
        <4>2. gate'[p].spent \in Nat
          <5> HIDE DEF p
          <5> QED
            BY <3>1, <3>5, <4>1
        <4>3. Left(gate'[p].spent) + Commitment[w] = Left(gate[p].spent)
          <5>1. CASE Commitment[w] = 0
            <6>1. gate'[p].spent = gate[p].spent
              BY <3>5, <4>1, <5>1
            <6> QED
              BY <4>1, <5>1, <6>1, LeftBounds
          <5>2. CASE Commitment[w] # 0
            BY <3>1, <3>5, <4>1, <5>2, LeftBounds
          <5> QED
            BY <5>1, <5>2
        <4>4. /\ room2 \in Nat /\ Left(gate[p].spent) \in Nat /\ Left(gate'[p].spent) \in Nat
              /\ room2 - Left(gate'[p].spent) = room - Left(gate[p].spent)
          BY <1>13, <2>1, <3>1, <3>5, <4>1, <4>2
        <4>5. most * M \in Int /\ room \in Nat /\ SignedAway + held + room <= most * M
          BY <1>0, <1>2, <4>1
        <4> HIDE DEF held, held2, room, room2, M, p
        <4> QED
          BY <1>0, <2>1, <3>1, <3>3, <3>4, <4>3, <4>4, <4>5
      <3> QED
        BY <1>0, <1>1, <1>4, <2>1, <3>1, <3>6
    <2> QED
      BY <2>2, <2>3
  <1>16. ASSUME NEW q \in Processes, Load(q) PROVE Budgeted'
    <2> DEFINE k == Cardinality(Live)
    <2>1. /\ q \notin Live /\ Live' = Live \cup {q} /\ signed' = signed /\ stage' = stage
          /\ gate' = [gate EXCEPT ![q] = [spent |-> spend.sum, permits |-> {}]]
          /\ most' = IF Cardinality(Live') > most THEN Cardinality(Live') ELSE most
      BY <1>16, LoadStep DEF Live
    <2>2. IsFiniteSet(Live') /\ Cardinality(Live') = k + 1
      BY <1>1, <2>1, FS_AddElement
    <2>3. k \in Nat /\ k <= most
      BY <1>1
    <2> HIDE DEF k
    <2>4. most' \in Nat /\ Cardinality(Live') <= most'
      BY <1>0, <2>1, <2>2, <2>3
    <2>5. SignedAway' = SignedAway /\ held2 = held
      <3>1. Held' = Held
        BY <2>1 DEF Held
      <3> QED
        BY <2>1, <3>1, SignedSums
    <2>6. ASSUME lost' = 0 PROVE SignedAway' + held2 + room2 <= most' * M
      <3> DEFINE t == spend.sum
      <3>1. lost = 0
        BY <1>3, <2>6
      <3>2. t \in Int
        <4>1. spend \in [sum : Int, torn : BOOLEAN]
          BY DEF TypeOK
        <4> QED
          BY <4>1
      <3>3. SignedAway + held <= t
        <4>1. SignedAway + held <= t + 0
          BY <3>1 DEF Covered
        <4> QED
          BY <3>2, <4>1
      <3>4. t \in Nat
        <4> HIDE DEF t, held
        <4> QED
          BY <1>0, <3>2, <3>3
      <3>5. gate'[q].spent = t /\ \A p \in Live : gate'[p] = gate[p]
        BY <2>1 DEF TypeOK, Live
      <3>6. \A p \in Live : gate[p].spent \in Nat
        BY <1>2, <3>1
      <3>7. /\ room \in Nat /\ room <= k * M /\ SignedAway + held + room <= most * M
        BY <1>1, <1>2, <3>1, <3>6, RoomSums DEF k
      <3>8. room2 = Left(t) + room
        <4>1. \A p \in Live' : gate'[p].spent \in Nat
          BY <2>1, <3>4, <3>5, <3>6
        <4>2. room2 = Left(gate'[q].spent) + Room(gate', Live' \ {q})
          <5>1. q \in Live'
            BY <2>1
          <5> QED
            BY <2>2, <4>1, <5>1, RoomSums
        <4>3. Live' \ {q} = Live
          BY <2>1
        <4>4. Room(gate', Live) = room
          BY <3>5 DEF Room
        <4> QED
          BY <3>5, <4>2, <4>3, <4>4
      <3>9. Left(t) \in Nat /\ Left(t) <= M
        BY <3>4, LeftBounds
      <3>10. t < M => Left(t) = M - t
        BY DEF Left
      <3>11. t >= M => Left(t) = 0
        BY <1>0, <3>4 DEF Left
      <3>12. /\ k * M \in Nat /\ (k + 1) * M = k * M + M /\ most * M \in Nat
             /\ (most + 1) * M = most * M + M
        BY <1>0, <2>3, OneMore
      <3>13. k + 1 <= most => (k + 1) * M <= most * M
        <4>1. k + 1 \in Nat
          BY <2>3
        <4> QED
          BY <1>0, <4>1, OneMore
      <3> HIDE DEF held, held2, room, room2, M, t
      <3>14. CASE k + 1 <= most
        <4>1. most' = most
          BY <1>0, <2>1, <2>2, <2>3, <3>14
        <4>2. SignedAway + held + room + Left(t) <= most * M
          BY <1>0, <3>3, <3>4, <3>7, <3>9, <3>10, <3>11, <3>12, <3>13, <3>14
        <4> QED
          BY <1>0, <2>5, <3>7, <3>8, <3>9, <3>12, <4>1, <4>2
      <3>15. CASE ~(k + 1 <= most)
        <4>1. k = most /\ most' = most + 1
          BY <1>0, <2>1, <2>2, <2>3, <3>15
        <4>2. SignedAway + held + room + Left(t) <= most * M + M
          BY <1>0, <3>7, <3>9, <3>12
        <4>3. most' * M = most * M + M
          BY <3>12, <4>1
        <4> QED
          BY <1>0, <2>5, <3>7, <3>8, <3>9, <3>12, <4>2, <4>3
      <3> QED
        BY <3>14, <3>15
    <2> QED
      BY <1>4, <2>4, <2>6
  <1> QED
    BY <1>7, <1>8, <1>9, <1>10, <1>11, <1>12, <1>14, <1>15, <1>16, Steps

-----------------------------------------------------------------------------
(* The concurrent ceiling.                                                *)
LEMMA RiskSums ==
    ASSUME TypeOK, Weighed, NEW T, T \subseteq AtStake
    PROVE  /\ IsFiniteSet(T) /\ T \subseteq Writes /\ Sum(T) \in Nat
           /\ \A U \in SUBSET T : Sum(U) \in Nat /\ Sum(U) <= Sum(T)
  <1> DEFINE c == [w \in Writes |-> Collateral(w)]
  <1>1. IsFiniteSet(T) /\ T \subseteq Writes
    BY InstallationAssumption, FS_Subset DEF AtStake
  <1>2. \A w \in T : c[w] \in Nat
    BY <1>1, Measures DEF Weighed
  <1>3. \A U : Sum(U) = SumFunctionOnSet(c, U)
    BY DEF Sum
  <1> HIDE DEF c
  <1>4. \A U \in SUBSET T : SumFunctionOnSet(c, U) \in Nat
            /\ SumFunctionOnSet(c, U) <= SumFunctionOnSet(c, T)
    BY <1>1, <1>2, SumPart
  <1>5. SumFunctionOnSet(c, T) \in Nat
    BY <1>1, <1>2, SumType
  <1> QED
    BY <1>1, <1>3, <1>4, <1>5

LEMMA GateSums ==
    ASSUME NEW f
    PROVE  Gate!SumFunction(f) = SumFunctionOnSet(f, DOMAIN f)
  BY DEF Gate!SumFunction, Gate!SumFunctionOnSet, Gate!FoldFunctionOnSet, Gate!MapThenFoldSet,
         SumFunctionOnSet, FoldFunctionOnSet, MapThenFoldSet

(* Of the submissions, a gate weighs at least what those at risk are worth. *)
LEMMA InFlightWeighed ==
    ASSUME TypeOK, Weighed
    PROVE  LET open == {v \in submissions : ~Gate!IsExit(Intent[v].action)}
               weighed == Gate!OpenCollateralOf({}, InFlight, TheScope.maxCollateralPerOrder)
           IN  Sum(open) \in Nat /\ weighed \in Int /\ Sum(open) <= weighed
  <1> DEFINE open == {v \in submissions : ~Gate!IsExit(Intent[v].action)}
             perOrder == TheScope.maxCollateralPerOrder
             order(v) == [id |-> v, action |-> Intent[v].action,
                          collateral |-> Intent[v].collateral]
             r == [v \in Writes |-> order(v)]
             c == [v \in Writes |-> Collateral(v)]
             e == [v \in Writes |-> IF Intent[v].collateral = Undefined
                                    THEN perOrder ELSE Intent[v].collateral]
             atRisk == {o \in InFlight : ~Gate!IsExit(o.action)}
             d == [o \in atRisk |-> IF o.collateral = Undefined THEN perOrder ELSE o.collateral]
  <1>1. IsFiniteSet(open) /\ open \subseteq Writes /\ open \subseteq AtStake
    BY InstallationAssumption, FS_Subset DEF TypeOK, AtStake
  <1>2. \A v \in open : c[v] \in Nat /\ e[v] \in Nat /\ c[v] <= e[v]
    <2> SUFFICES ASSUME NEW v \in open PROVE c[v] \in Nat /\ e[v] \in Nat /\ c[v] <= e[v]
      OBVIOUS
    <2>1. Collateral(v) \in Nat /\ perOrder \in Nat
      BY <1>1, Measures, Ceiling DEF Weighed
    <2>2. c[v] = Collateral(v) /\ e[v] = IF Intent[v].collateral = Undefined
                                         THEN perOrder ELSE Intent[v].collateral
      BY <1>1
    <2> QED
      BY <2>1, <2>2 DEF Collateral
  <1>3. atRisk = {r[v] : v \in open}
    <2>1. submissions \subseteq Writes
      BY DEF TypeOK
    <2>2. \A v \in submissions : r[v].action = Intent[v].action /\ r[v] = order(v)
      BY <2>1
    <2>3. InFlight = {order(v) : v \in submissions}
      BY DEF InFlight
    <2> HIDE DEF r, order
    <2>4. \A o : o \in InFlight <=> \E v \in submissions : o = r[v]
      BY <2>2, <2>3
    <2>5. \A o : o \in atRisk <=> \E v \in open : o = r[v]
      BY <2>2, <2>4, Zenon
    <2> QED
      BY <2>5, Zenon
  <1>4. \A v, u \in open : r[v] = r[u] => v = u
    <2> SUFFICES ASSUME NEW v \in open, NEW u \in open, r[v] = r[u] PROVE v = u
      OBVIOUS
    <2>1. order(v).id = order(u).id
      BY <1>1
    <2> QED
      BY <2>1
  <1>5. \A v \in open : d[r[v]] = e[v]
    BY <1>1, <1>3
  <1>6. Gate!OpenCollateralOf({}, InFlight, perOrder) = 0 + SumFunctionOnSet(d, atRisk)
    <2> DEFINE none == [p \in {} |-> p.collateral]
    <2>1. Gate!OpenCollateralOf({}, InFlight, perOrder)
             = Gate!SumFunction(none) + Gate!SumFunction(d)
      BY DEF Gate!OpenCollateralOf
    <2>2. DOMAIN none = {} /\ DOMAIN d = atRisk
      OBVIOUS
    <2> HIDE DEF none, d, atRisk
    <2>3. Gate!SumFunction(none) = 0 /\ Gate!SumFunction(d) = SumFunctionOnSet(d, atRisk)
      BY <2>2, GateSums, SumEmpty
    <2> QED
      BY <2>1, <2>3
  <1>7. Sum(open) = SumFunctionOnSet(c, open)
    BY DEF Sum
  <1> HIDE DEF c, d, e, r, atRisk, open
  <1>8. SumFunctionOnSet(d, atRisk) = SumFunctionOnSet(e, open)
    <2>1. \A v \in open : e[v] \in Int /\ d[r[v]] = e[v]
      BY <1>2, <1>5
    <2>2. SumFunctionOnSet(d, {r[v] : v \in open}) = SumFunctionOnSet(e, open)
      BY <1>1, <1>4, <2>1, SumRenamed
    <2> QED
      BY <1>3, <2>2
  <1>9. SumFunctionOnSet(c, open) \in Nat /\ SumFunctionOnSet(e, open) \in Nat
        /\ SumFunctionOnSet(c, open) <= SumFunctionOnSet(e, open)
    <2>1. \A v \in open : c[v] \in Int /\ e[v] \in Int /\ c[v] <= e[v]
      BY <1>2
    <2>2. SumFunctionOnSet(c, open) <= SumFunctionOnSet(e, open)
      BY <1>1, <2>1, SumPointwise
    <2>3. SumFunctionOnSet(c, open) \in Nat /\ SumFunctionOnSet(e, open) \in Nat
      BY <1>1, <1>2, SumType
    <2> QED
      BY <2>2, <2>3
  <1>10. Sum(open) \in Nat /\ Gate!OpenCollateralOf({}, InFlight, perOrder) \in Int
         /\ Sum(open) <= Gate!OpenCollateralOf({}, InFlight, perOrder)
    BY <1>6, <1>7, <1>8, <1>9
  <1> QED
    BY <1>10 DEF open

(* Only an authorization puts at risk what was not.                       *)
LEMMA RiskStep ==
    ASSUME TypeOK, Running, Issued, Weighed, [Next]_vars
    PROVE  \/ AtRisk' \subseteq AtRisk /\ unseen \subseteq unseen'
           \/ \E w \in Writes : /\ Authorize(w) /\ stage' = [stage EXCEPT ![w] = "authorized"]
                                /\ chain' = chain /\ ~Gate!IsExit(Intent[w].action)
  <1> USE DEF AtRisk
  <1>1. CASE UNCHANGED vars
    BY <1>1 DEF vars, history
  <1>2. ASSUME NEW p \in Processes, Load(p)
        PROVE  AtRisk' \subseteq AtRisk /\ unseen \subseteq unseen'
    BY <1>2 DEF Load
  <1>3. ASSUME NEW p \in Processes, Exit(p) \/ Crash(p)
        PROVE  AtRisk' \subseteq AtRisk /\ unseen \subseteq unseen'
    <2>1. /\ stage' = [w \in Writes |-> IF by[w] = p THEN "done" ELSE stage[w]]
          /\ UNCHANGED <<chain, unseen>>
      BY <1>3, EndStep
    <2> QED
      BY <2>1
  <1>4. ASSUME NEW p \in Processes, NEW w \in Writes, ReadPositions(p, w)
        PROVE  AtRisk' \subseteq AtRisk /\ unseen \subseteq unseen'
    <2>1. stage' = [stage EXCEPT ![w] = "listed"] /\ UNCHANGED <<chain, unseen>>
      BY <1>4, ReadStep
    <2> QED
      BY <2>1 DEF TypeOK
  <1>5. ASSUME NEW w \in Writes, Authorize(w)
        PROVE  \/ AtRisk' \subseteq AtRisk /\ unseen \subseteq unseen'
               \/ /\ stage' = [stage EXCEPT ![w] = "authorized"] /\ chain' = chain
                  /\ ~Gate!IsExit(Intent[w].action)
    <2>1. /\ chain' = chain /\ unseen \subseteq unseen'
          /\ \/ stage' = [stage EXCEPT ![w] = "done"]
             \/ stage' = [stage EXCEPT ![w] = "authorized"]
      BY <1>5, AuthorizeStep
    <2>2. CASE stage' = [stage EXCEPT ![w] = "done"]
      BY <2>1, <2>2 DEF TypeOK
    <2>3. CASE stage' = [stage EXCEPT ![w] = "authorized"] /\ Gate!IsExit(Intent[w].action)
      BY <2>1, <2>3 DEF TypeOK
    <2> QED
      BY <2>1, <2>2, <2>3
  <1>6. ASSUME NEW w \in Writes, Build(w) \/ BuildFailed(w)
        PROVE  AtRisk' \subseteq AtRisk /\ unseen \subseteq unseen'
    <2>1. /\ stage[w] = "authorized" /\ UNCHANGED <<chain, unseen>>
          /\ stage' = [stage EXCEPT ![w] = "built"] \/ stage' = [stage EXCEPT ![w] = "done"]
      BY <1>6, BuildStep, BuildFailedStep
    <2> QED
      BY <2>1 DEF TypeOK
  <1>7. ASSUME NEW w \in Writes, NEW v \in Writes, NEW b \in Writes,
               Present(w, [for |-> v, boundTo |-> v], b)
        PROVE  AtRisk' \subseteq AtRisk /\ unseen \subseteq unseen'
    <2>1. /\ stage[w] = "built" /\ UNCHANGED <<chain, unseen>>
          /\ stage' = [stage EXCEPT ![w] = "signed"] \/ stage' = [stage EXCEPT ![w] = "done"]
      BY <1>7, PresentStep
    <2> QED
      BY <2>1 DEF TypeOK
  <1>8. ASSUME NEW w \in Writes, Onward(w)
        PROVE  AtRisk' \subseteq AtRisk /\ unseen \subseteq unseen'
    <2>1. unseen' = unseen
      BY <1>8, OnwardStep
    <2>2. CASE Record(w)
      BY <2>1, <2>2 DEF Record, Advance, TypeOK
    <2>3. CASE Send(w)
      BY <2>1, <2>3 DEF Send, Advance, TypeOK
    <2>4. CASE RecordFailed(w) \/ Confirm(w) \/ GiveUp(w)
      BY <2>1, <2>4 DEF RecordFailed, Confirm, GiveUp, Advance, TypeOK
    <2>5. CASE Reconcile(w)
      BY <2>1, <2>5 DEF Reconcile
    <2>6. CASE Lands(w) \/ Fails(w) \/ Fills(w) \/ Closes(w)
      BY <2>1, <2>6 DEF Lands, Fails, Fills, Closes, Becomes, TypeOK
    <2> QED
      BY <1>8, <2>2, <2>3, <2>4, <2>5, <2>6 DEF Onward
  <1> QED
    BY <1>1, <1>2, <1>3, <1>4, <1>5, <1>6, <1>7, <1>8, Steps

LEMMA OpenStep ==
    ASSUME TypeOK, Running, Issued, Weighed, OpenWithinWhatWasSeen, [Next]_vars
    PROVE  OpenWithinWhatWasSeen'
  <1> DEFINE max == TheScope.maxOpenCollateral
  <1>0. AtRisk \subseteq AtStake /\ Weighed' /\ TypeOK' /\ max \in Nat
    BY TypeStep, WeighedStep, Ceiling DEF AtRisk, AtStake, Taken, TypeOK
  <1>1. OpenWithinWhatWasSeen' <=> Sum(AtRisk' \ unseen') <= max
    BY DEF OpenWithinWhatWasSeen, Sum, Collateral
  <1>2. ASSUME NEW T, T \subseteq AtRisk \ unseen PROVE Sum(T) \in Nat /\ Sum(T) <= max
    <2>1. AtRisk \ unseen \subseteq AtStake /\ T \in SUBSET (AtRisk \ unseen)
      BY <1>0, <1>2
    <2>2. Sum(AtRisk \ unseen) \in Nat /\ Sum(T) \in Nat /\ Sum(T) <= Sum(AtRisk \ unseen)
      BY <2>1, RiskSums
    <2>3. Sum(AtRisk \ unseen) <= max
      BY DEF OpenWithinWhatWasSeen
    <2> QED
      BY <1>0, <2>2, <2>3
  <1>3. CASE AtRisk' \subseteq AtRisk /\ unseen \subseteq unseen'
    BY <1>1, <1>2, <1>3
  <1>4. ASSUME NEW w \in Writes, Authorize(w), stage' = [stage EXCEPT ![w] = "authorized"],
               chain' = chain, ~Gate!IsExit(Intent[w].action)
        PROVE  OpenWithinWhatWasSeen'
    <2> DEFINE T == AtRisk' \ unseen'
               R == T \ {w}
               seen == listed[w]
               open == {v \in submissions : ~Gate!IsExit(Intent[v].action)}
               weighed == Gate!OpenCollateralOf({}, InFlight, TheScope.maxCollateralPerOrder)
               p == by[w]
    <2>1. /\ AtRisk' \subseteq AtRisk \cup {w} /\ IsFiniteSet(R) /\ R \subseteq AtRisk
          /\ stage[w] = "listed"
      <3>1. AtRisk' \subseteq AtRisk \cup {w}
        BY <1>4 DEF AtRisk, TypeOK
      <3>2. R \subseteq AtRisk
        BY <3>1
      <3>3. IsFiniteSet(R)
        BY <1>0, <3>2, RiskSums
      <3> QED
        BY <1>4, <3>1, <3>2, <3>3 DEF Authorize
    <2>2. /\ unseen' = unseen \cup (AtRisk \ (seen \cup submissions))
          /\ Gate!Authorizes("delegated-auto", TheScope, Intent[w], FALSE, 0, Measured(w),
                             gate[p].spent)
      <3>1. Gate!IsMetered(Intent[w])
        BY <1>4 DEF Gate!IsMetered
      <3>2. stage'[w] = "authorized"
        BY <1>4 DEF TypeOK
      <3> QED
        BY <3>1, <3>2, <1>4 DEF Authorize, Advance, TypeOK
    <2>3. Gate!Measurable(Intent[w]) /\ Collateral(w) \in Nat
      BY <2>2, Measures DEF Gate!Authorizes
    <2>4. Sum(R) \in Nat /\ Sum(T) \in Int /\ Sum(T) <= Sum(R) + Collateral(w)
      <3> DEFINE c == [v \in Writes |-> Collateral(v)]
      <3>1. Sum(R) \in Nat /\ R \subseteq AtStake
        BY <1>0, <2>1, RiskSums
      <3>2. CASE w \notin T
        <4>1. T = R
          BY <3>2
        <4>2. Sum(T) = Sum(R)
          BY <4>1
        <4> HIDE DEF T, R
        <4> QED
          BY <2>3, <3>1, <4>2
      <3>3. CASE w \in T
        <4>1. T = R \cup {w} /\ w \notin R
          BY <3>3
        <4>2. \A v \in R \cup {w} : c[v] \in Int
          BY <2>3, <3>1, Measures DEF Weighed, AtStake
        <4>3. c[w] = Collateral(w) /\ Sum(R) = SumFunctionOnSet(c, R)
              /\ Sum(R \cup {w}) = SumFunctionOnSet(c, R \cup {w})
          BY DEF Sum
        <4> HIDE DEF T, R, c
        <4>4. SumFunctionOnSet(c, R \cup {w}) = SumFunctionOnSet(c, R) + c[w]
          BY <2>1, <4>1, <4>2, SumAdd
        <4>5. Sum(T) = Sum(R) + Collateral(w)
          BY <4>1, <4>3, <4>4
        <4> QED
          BY <2>3, <3>1, <4>5
      <3> QED
        BY <3>2, <3>3
    <2>5. CASE Intent[w].collateral = Undefined
      <3>1. Collateral(w) = 0
        BY <2>5 DEF Collateral
      <3>2. R \subseteq AtRisk \ unseen
        BY <2>1, <2>2
      <3>3. Sum(R) <= max
        BY <1>2, <3>2
      <3>4. Sum(T) <= Sum(R) + 0
        BY <2>4, <3>1
      <3>5. Sum(T) <= max
        <4> HIDE DEF T, R, max
        <4> QED
          BY <1>0, <2>4, <3>3, <3>4
      <3> QED
        BY <1>1, <3>5
    <2>6. CASE Intent[w].collateral # Undefined
      <3> DEFINE mine == R \cap seen
                 sent == R \cap open
      <3>1. Measured(w) + Collateral(w) <= max
        <4>1. Measured(w) + Intent[w].collateral <= max
          BY <1>4, <2>2, <2>6 DEF Gate!Authorizes, Gate!InScope, Gate!IsMetered
        <4> QED
          BY <2>6, <4>1 DEF Collateral
      <3>2. Measured(w) = Sum(seen) + weighed
        BY DEF Measured
      <3>3. seen \subseteq AtStake /\ open \subseteq AtStake
        BY DEF AtStake, TypeOK
      <3>4. Sum(seen) \in Nat /\ Sum(mine) \in Nat /\ Sum(mine) <= Sum(seen)
        BY <3>3, RiskSums
      <3>5. Sum(open) \in Nat /\ Sum(sent) \in Nat /\ Sum(sent) <= Sum(open)
        BY <3>3, RiskSums
      <3>6. weighed \in Int /\ Sum(open) <= weighed
        BY InFlightWeighed
      <3>7. R = mine \cup sent
        <4>1. \A v \in R : v \in seen \/ v \in submissions
          BY <2>1, <2>2
        <4>2. \A v \in R : ~Gate!IsExit(Intent[v].action)
          BY <2>1 DEF AtRisk
        <4> QED
          BY <4>1, <4>2
      <3>8. Sum(R) <= Sum(mine) + Sum(sent)
        <4> DEFINE c == [v \in Writes |-> Collateral(v)]
        <4>1. mine \subseteq AtStake /\ sent \subseteq AtStake
          BY <3>3
        <4>2. IsFiniteSet(mine) /\ IsFiniteSet(sent)
          BY <4>1, RiskSums
        <4>3. \A v \in mine \cup sent : c[v] \in Nat
          BY <4>1, Measures DEF Weighed, AtStake
        <4>4. /\ Sum(mine \cup sent) = SumFunctionOnSet(c, mine \cup sent)
              /\ Sum(mine) = SumFunctionOnSet(c, mine) /\ Sum(sent) = SumFunctionOnSet(c, sent)
          BY DEF Sum
        <4>5. Sum(R) = Sum(mine \cup sent)
          BY <3>7
        <4> HIDE DEF mine, sent, c, R
        <4>6. SumFunctionOnSet(c, mine \cup sent)
                 <= SumFunctionOnSet(c, mine) + SumFunctionOnSet(c, sent)
          BY <4>2, <4>3, SumUnion
        <4> QED
          BY <4>4, <4>5, <4>6
      <3>9. Sum(T) <= max
        <4> HIDE DEF T, R, seen, open, weighed, mine, sent, max
        <4> QED
          BY <1>0, <2>3, <2>4, <3>1, <3>2, <3>4, <3>5, <3>6, <3>8
      <3> QED
        BY <1>1, <3>9
    <2> QED
      BY <2>5, <2>6
  <1> QED
    BY <1>3, <1>4, RiskStep

-----------------------------------------------------------------------------
(* Theorems.                                                              *)

LEMMA Start == Init => IInv
  <1> SUFFICES ASSUME Init PROVE IInv
    OBVIOUS
  <1> USE DEF Init, disk, history
  <1>1. TypeOK
    <2> DEFINE S == [permit : Writes, bytes : Writes]
    <2>1. signed \in Seq(S)
      OBVIOUS
    <2> HIDE DEF S
    <2> QED
      BY <2>1 DEF TypeOK, S
  <1>2. Held = {} /\ Live = {} /\ DOMAIN signed = {}
    BY DEF Held, Live
  <1>3. AtStake = {}
    BY <1>2 DEF AtStake, Taken
  <1>4. Running /\ Issued /\ Used /\ Weighed /\ OneSignaturePerAuthorization
    BY <1>2, <1>3 DEF Running, Issued, Used, Weighed, OneSignaturePerAuthorization, Taken
  <1>5. Committed(Held) = 0
    BY <1>2, SumEmpty DEF Committed
  <1>6. SignedAway = 0
    BY <1>2, SumEmpty DEF SignedAway, SumFunction
  <1>7. Covered
    BY <1>5, <1>6 DEF Covered
  <1>8. Counted
    BY <1>2 DEF Counted
  <1>9. Room(gate, Live) = 0
    BY <1>2, SumEmpty DEF Room
  <1>10. 0 * TheScope.maxCumulativeCollateral = 0
    BY Ceiling
  <1>11. Cardinality(Live) = 0
    BY <1>2, FS_EmptySet
  <1>12. Budgeted
    BY <1>5, <1>6, <1>9, <1>10, <1>11 DEF Budgeted
  <1> QED
    BY <1>1, <1>4, <1>7, <1>8, <1>12 DEF IInv

LEMMA Inductive == IInv /\ [Next]_vars => IInv'
  <1> SUFFICES ASSUME IInv, [Next]_vars PROVE IInv'
    OBVIOUS
  <1>1. /\ TypeOK /\ Running /\ Issued /\ Used /\ Weighed
        /\ OneSignaturePerAuthorization /\ Covered /\ Counted /\ Budgeted
    BY DEF IInv
  <1>2. TypeOK' /\ Running' /\ Issued' /\ Weighed'
    BY <1>1, TypeStep, RunningStep, IssuedStep, WeighedStep
  <1>3. Used' /\ OneSignaturePerAuthorization'
    BY <1>1, UsedStep
  <1>4. Covered' /\ Counted' /\ Budgeted'
    BY <1>1, CoveredStep, CountedStep, BudgetedStep
  <1> QED
    BY <1>2, <1>3, <1>4 DEF IInv

(* The invariant that carries the four below: it types the state, ties     *)
(* every permit to the process that issued it and to the stage of the      *)
(* write it was issued for, and adds up what is signed, what is held and   *)
(* what may still be authorized.                                           *)
THEOREM InstallationInvariant == Spec => []IInv
  BY Start, Inductive, PTL DEF Spec

(* SPEND IS WRITTEN BEFORE IT IS SIGNED, for any processes, any writes and  *)
(* any number of crashes and faults: the ledger covers what was signed     *)
(* because it covers what is signed and what is held together.             *)
THEOREM LedgerCoversSignatures == Spec => []SpendCoversSignatures
  <1>1. IInv => SpendCoversSignatures
    <2> SUFFICES ASSUME IInv PROVE SignedAway <= spend.sum + lost
      BY DEF SpendCoversSignatures
    <2>1. SignedAway + Committed(Held) <= spend.sum + lost
      BY DEF IInv, Covered
    <2>2. Committed(Held) \in Nat
      <3>1. TypeOK /\ Weighed /\ Held \subseteq Held
        BY DEF IInv
      <3> QED
        BY <3>1, HeldSums
    <2>3. SignedAway \in Nat
      BY SignedSums DEF IInv
    <2>4. spend.sum + lost \in Int
      <3>1. spend \in [sum : Int, torn : BOOLEAN] /\ lost \in Nat
        BY DEF IInv, TypeOK
      <3> QED
        BY <3>1
    <2> QED
      BY <2>1, <2>2, <2>3, <2>4
  <1> QED
    BY <1>1, InstallationInvariant, PTL

(* THE BUDGET OUTLIVES THE PROCESS, for any number of them: what is left   *)
(* to the running ones is part of what the ceilings of as many allow.      *)
THEOREM BudgetOutlivesProcesses == Spec => []BudgetKept
  <1> DEFINE M == TheScope.maxCumulativeCollateral
  <1>1. IInv => BudgetKept
    <2> SUFFICES ASSUME IInv, lost = 0 PROVE SignedAway <= most * M
      BY DEF BudgetKept
    <2>0. TypeOK /\ Weighed /\ Counted /\ Budgeted
      BY DEF IInv
    <2>1. SignedAway + Committed(Held) + Room(gate, Live) <= most * M
      BY <2>0 DEF Budgeted
    <2>2. \A p \in Live : gate[p].spent \in Nat
      <3> SUFFICES ASSUME NEW p \in Live PROVE gate[p].spent \in Nat
        OBVIOUS
      <3>1. gate[p].spent \in Int /\ Committed(HeldBy(p)) \in Nat
        BY <2>0, LiveGate, HeldSums
      <3>2. gate[p].spent >= Committed(HeldBy(p))
        BY <2>0 DEF Counted
      <3> QED
        BY <3>1, <3>2
    <2>3. Room(gate, Live) \in Nat
      <3>1. IsFiniteSet(Live)
        BY InstallationAssumption, FS_Subset DEF Live
      <3> QED
        BY <2>2, <3>1, RoomSums
    <2>4. Committed(Held) \in Nat
      <3>1. Held \subseteq Held
        OBVIOUS
      <3> QED
        BY <2>0, <3>1, HeldSums
    <2>5. SignedAway \in Nat
      BY <2>0, SignedSums
    <2>6. most * M \in Nat
      BY <2>0, Ceiling DEF TypeOK
    <2> HIDE DEF M
    <2> QED
      BY <2>1, <2>3, <2>4, <2>5, <2>6
  <1> QED
    BY <1>1, InstallationInvariant, PTL

(* ONE AUTHORIZATION, ONE SIGNATURE, whichever permit a caller presents    *)
(* with whichever bytes.                                                   *)
THEOREM PermitSignsOnce == Spec => []OneSignaturePerAuthorization
  <1>1. IInv => OneSignaturePerAuthorization
    BY DEF IInv
  <1> QED
    BY <1>1, InstallationInvariant, PTL

(* WHAT THE CEILING CAN SEE, IT HOLDS, whatever lands, is filled, closes    *)
(* or is reconciled between the measurement and the authorization.         *)
THEOREM CeilingHoldsWhatItSees == Spec => []OpenWithinWhatWasSeen
  <1>1. Init => OpenWithinWhatWasSeen
    <2> SUFFICES ASSUME Init PROVE OpenWithinWhatWasSeen
      OBVIOUS
    <2>1. AtRisk \ unseen = {}
      BY DEF Init, AtRisk
    <2>2. Sum(AtRisk \ unseen) = 0
      BY <2>1, SumEmpty DEF Sum
    <2> QED
      BY <2>2, Ceiling DEF OpenWithinWhatWasSeen
  <1>2. IInv /\ OpenWithinWhatWasSeen /\ [Next]_vars => OpenWithinWhatWasSeen'
    BY OpenStep DEF IInv
  <1> QED
    BY <1>1, <1>2, InstallationInvariant, PTL DEF Spec

=============================================================================
