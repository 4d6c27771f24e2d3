--------------------------- MODULE OnboardingProofs ---------------------------
(***************************************************************************)
(* The theorems about Onboarding: an account is adopted on a grant that    *)
(* was live, a wait never chooses between grants nor mistakes an outage    *)
(* for the absence of one, and a trade is offered last.                    *)
(***************************************************************************)
EXTENDS Onboarding, FiniteSetTheorems, TLAPS

Owners == {Undefined, ConfiguredOwner} \cup {Owner[a] : a \in Accounts}

Memory ==
    [owner : Owners, failing : SUBSET Checks, readReady : BOOLEAN, looks : Int,
     listed : SUBSET Accounts, toRead : SUBSET Accounts, granted : SUBSET Accounts,
     unverified : SUBSET Accounts, target : Accounts \cup {Undefined}]

Offers == [do : Commands \cup {"onboard", "adopt"}, account : Accounts \cup {Undefined}]

Words ==
    {"done", "cut short", "asking", "waiting", "adopting", "adopted", "granted", "no-wallet",
     "unavailable", "unknown", "several", "nobody", "not-a-grant", "mismatch", "unsettled",
     "awaiting-approval", "not-set-up", "granted-not-adopted", "awaiting-grant",
     "not-delegated", "read-only", "no-collateral", "ready"}

Reports == [state : Words, offers : SUBSET Offers]

TypeOK ==
    /\ grant \in [Accounts -> Grants] /\ view \in [Accounts -> Grants]
    /\ recent \in SUBSET Accounts /\ up \in SUBSET Services
    /\ asked \in BOOLEAN /\ wallet \in BOOLEAN
    /\ env \in Accounts \cup {Undefined} /\ ledger \in SUBSET Accounts
    /\ policy \in {"read-only", "auto"} /\ funded \in BOOLEAN
    /\ pending \in BOOLEAN /\ inFlight \in BOOLEAN
    /\ at \in {"idle", "advising", "looking", "reading", "adopting", "saving", "recording"}
    /\ mem \in Memory /\ said \in Reports
    /\ throughout \in SUBSET Accounts /\ sometime \in SUBSET Accounts

(* What has granted all through the look grants now.                      *)
StillGrants == throughout \subseteq LiveAccounts

(* Of what the source listed, whatever has granted all through the look is *)
(* yet to be read, was found to grant, or could not be read.               *)
Accounted ==
    at = "reading" =>
        throughout \cap mem.listed \subseteq mem.toRead \cup mem.granted \cup mem.unverified

(* Whatever grants while an adoption goes on has granted since it began,   *)
(* and what is about to be saved did.                                      *)
Witnessed ==
    at \in {"adopting", "saving", "recording"} =>
        /\ mem.target \in Accounts /\ LiveAccounts \subseteq sometime
        /\ at = "saving" => mem.target \in sometime

(* While `next` reads, nothing is offered.                                *)
OffersNothing == at = "advising" => said.offers = {}

IInv == TypeOK /\ StillGrants /\ Accounted /\ Witnessed /\ OffersNothing

-----------------------------------------------------------------------------
(* What the surfaces make of what they read, typed.                       *)
LEMMA Discoveries ==
    ASSUME TypeOK
    PROVE  Candidates \in SUBSET Accounts /\ Discovered \in {Undefined} \cup SUBSET Accounts
  BY DEF TypeOK, Candidates, Discovered

LEMMA Identities ==
    ASSUME TypeOK
    PROVE  IdentityRead \in Owners
  BY DEF TypeOK, IdentityRead, Owners

LEMMA Failings == FailingChecks \in SUBSET Checks
  BY DEF FailingChecks

LEMMA Reported ==
    ASSUME NEW state \in Words, NEW offers \in SUBSET Offers
    PROVE  /\ Says(state, offers) \in Reports
           /\ Says(state, offers).state = state /\ Says(state, offers).offers = offers
  BY DEF Says, Reports

LEMMA Offered ==
    /\ \A command \in Commands \cup {"onboard"} :
          /\ {Do(command)} \in SUBSET Offers
          /\ command # "preview" => Do("preview") \notin {Do(command)}
    /\ \A found \in SUBSET Accounts :
          /\ {Adopt(a) : a \in found} \in SUBSET Offers
          /\ Do("preview") \notin {Adopt(a) : a \in found}
  <1>1. \A a \in Accounts : Adopt(a) \in Offers /\ Adopt(a).do = "adopt"
    BY DEF Adopt, Offers
  <1>2. \A command \in Commands \cup {"onboard"} : Do(command) \in Offers /\ Do(command).do = command
    BY DEF Do, Offers, Commands
  <1>3. "preview" \in Commands /\ "preview" # "adopt"
    BY DEF Commands
  <1>4. \A a \in Accounts : Adopt(a) # Do("preview")
    BY <1>1, <1>2, <1>3
  <1>5. ASSUME NEW command \in Commands \cup {"onboard"}
        PROVE  {Do(command)} \in SUBSET Offers
               /\ (command # "preview" => Do("preview") \notin {Do(command)})
    BY <1>2, <1>3
  <1>6. ASSUME NEW found \in SUBSET Accounts
        PROVE  {Adopt(a) : a \in found} \in SUBSET Offers
               /\ Do("preview") \notin {Adopt(a) : a \in found}
    BY <1>1, <1>4
  <1> QED
    BY <1>5, <1>6

LEMMA Advice ==
    ASSUME TypeOK, NEW open, NEW waiting, NEW configured, NEW mode, NEW delegation, NEW margin,
           NEW discovered \in {Undefined} \cup SUBSET Accounts
    PROVE  LET r == Choose(open, waiting, configured, mode, discovered, delegation, margin)
           IN  /\ r \in Reports /\ r.state # "nobody"
               /\ Do("preview") \in r.offers =>
                     ~open /\ ~waiting /\ configured /\ margin /\ ~NotDelegated(delegation)
  <1> DEFINE r == Choose(open, waiting, configured, mode, discovered, delegation, margin)
             trade == ~open /\ ~waiting /\ configured /\ margin /\ ~NotDelegated(delegation)
  <1>1. \/ \E state \in Words, command \in Commands \cup {"onboard"} :
              r = Says(state, {Do(command)}) /\ state # "nobody" /\ command # "preview"
        \/ \E found \in SUBSET Accounts :
              r = Says("granted-not-adopted", {Adopt(a) : a \in found})
        \/ r = Says("ready", {Do("preview")}) /\ trade
    BY DEF Choose, Undecided, Words, Commands
  <1> HIDE DEF r, trade
  <1>2. ASSUME NEW state \in Words, NEW command \in Commands \cup {"onboard"}, state # "nobody",
               command # "preview", r = Says(state, {Do(command)})
        PROVE  r \in Reports /\ r.state # "nobody" /\ Do("preview") \notin r.offers
    BY <1>2, Reported, Offered
  <1>3. ASSUME NEW found \in SUBSET Accounts,
               r = Says("granted-not-adopted", {Adopt(a) : a \in found})
        PROVE  r \in Reports /\ r.state # "nobody" /\ Do("preview") \notin r.offers
    <2> DEFINE offers == {Adopt(a) : a \in found}
    <2>1. offers \in SUBSET Offers /\ Do("preview") \notin offers
      BY Offered
    <2>2. "granted-not-adopted" \in Words /\ r = Says("granted-not-adopted", offers)
      BY <1>3 DEF Words
    <2> HIDE DEF offers
    <2> QED
      BY <2>1, <2>2, Reported
  <1>4. ASSUME r = Says("ready", {Do("preview")}) PROVE r \in Reports /\ r.state # "nobody"
    <2>1. "ready" \in Words /\ {Do("preview")} \in SUBSET Offers
      BY Offered DEF Words, Commands
    <2> QED
      BY <1>4, <2>1, Reported
  <1>5. r \in Reports /\ r.state # "nobody" /\ (Do("preview") \in r.offers => trade)
    BY <1>1, <1>2, <1>3, <1>4
  <1> QED
    BY <1>5 DEF r, trade

-----------------------------------------------------------------------------
(* What commands hold in memory, action by action.                        *)
LEMMA Empty == Nothing \in Memory
  BY DEF Nothing, Memory, Owners

LEMMA Ended ==
    ASSUME NEW report \in Reports, Ends(report)
    PROVE  at' = "idle" /\ mem' \in Memory /\ said' \in Reports /\ said' = report
  BY Empty DEF Ends

LEMMA AdviseStep ==
    ASSUME TypeOK, Advise
    PROVE  /\ at = "advising" /\ at' = "idle" /\ mem' \in Memory /\ said' \in Reports
           /\ asked' \in BOOLEAN /\ said'.state # "nobody"
           /\ UNCHANGED <<outside, disk, trading, history, bounds>>
  <1> DEFINE owner == IF mem.readReady THEN IdentityRead ELSE ConfiguredOwner
             delegate == wallet /\ owner # Undefined
             reads == mem.readReady /\ env # Undefined
             found == IF wallet /\ mem.readReady /\ env = Undefined THEN Discovered ELSE Undefined
             report == Choose(inFlight, pending,
                           wallet /\ env # Undefined /\ mem.failing = {},
                           IF delegate THEN "delegate" ELSE IF env # Undefined THEN "owner"
                           ELSE "undecided",
                           found,
                           IF delegate THEN DelegationState(owner, Listed, Undefined)
                           ELSE Undefined,
                           reads /\ funded)
  <1>1. found \in {Undefined} \cup SUBSET Accounts
    BY Discoveries
  <1>2. report \in Reports /\ report.state # "nobody"
    <2> HIDE DEF found, owner, delegate, reads
    <2> QED
      BY <1>1, Advice
  <1>3. Says("unavailable", {}) \in Reports /\ Says("unavailable", {}).state # "nobody"
    BY DEF Says, Reports, Words
  <1>4. Ends(Says("unavailable", {})) \/ Ends(report)
    BY DEF Advise
  <1> HIDE DEF report
  <1>5. at' = "idle" /\ mem' \in Memory /\ said' \in Reports /\ said'.state # "nobody"
    BY <1>2, <1>3, <1>4, Ended
  <1>6. asked' \in BOOLEAN /\ UNCHANGED <<outside, disk, trading, history, bounds>>
        /\ at = "advising"
    BY DEF Advise, TypeOK
  <1> QED
    BY <1>5, <1>6

LEMMA OnboardStep ==
    ASSUME TypeOK, Onboard
    PROVE  /\ at = "idle" /\ at' \in {"idle", "looking"} /\ mem' \in Memory
           /\ said' \in Reports /\ said'.state # "nobody" /\ asked' \in BOOLEAN
           /\ UNCHANGED <<outside, disk, trading, history, bounds>>
  <1> DEFINE owner == IdentityRead
             state == DelegationState(owner, IF owner = Undefined THEN Undefined ELSE Listed,
                                 IF env = Undefined THEN Discovered ELSE Undefined)
  <1>1. /\ at = "idle" /\ UNCHANGED <<outside, disk, trading, history, bounds>>
        /\ asked' = (asked \/ state \in NeedsGrant)
        /\ IF state \in {"granted", "no-wallet"} THEN Ends(Says(state, {}))
           ELSE /\ at' = "looking" /\ said' = Says("waiting", {})
                /\ mem' = [Nothing EXCEPT !.owner = owner, !.looks = Looks]
    BY DEF Onboard, Idle
  <1>2. owner \in Owners
    BY Identities
  <1> HIDE DEF owner, state
  <1>3. asked' \in BOOLEAN
    BY <1>1 DEF TypeOK
  <1>4. CASE state \in {"granted", "no-wallet"}
    <2>1. Says(state, {}) \in Reports /\ Says(state, {}).state # "nobody"
      BY <1>4 DEF Says, Reports, Words
    <2> QED
      BY <1>1, <1>3, <1>4, <2>1, Ended
  <1>5. CASE state \notin {"granted", "no-wallet"}
    <2>1. /\ at' = "looking" /\ said' = Says("waiting", {})
          /\ mem' = [Nothing EXCEPT !.owner = owner, !.looks = Looks]
      BY <1>1, <1>5
    <2>2. mem' \in Memory
      <3>1. Nothing \in Memory /\ Looks \in Int
        BY Empty, OnboardingAssumption
      <3> QED
        BY <1>2, <2>1, <3>1 DEF Memory
    <2>3. said' \in Reports /\ said'.state # "nobody"
      BY <2>1 DEF Says, Reports, Words
    <2> QED
      BY <1>1, <1>3, <2>1, <2>2, <2>3
  <1> QED
    BY <1>4, <1>5

LEMMA LookStep ==
    ASSUME TypeOK, Look
    PROVE  /\ at = "looking" /\ at' \in {"idle", "looking", "reading"} /\ mem' \in Memory
           /\ said' \in Reports /\ (said' # said => said'.state # "nobody")
           /\ throughout' = LiveAccounts
           /\ at' = "reading" => mem'.toRead = mem'.listed /\ said' = said
           /\ UNCHANGED <<outside, asked, disk, trading, sometime, bounds>>
  <1>1. /\ at = "looking" /\ UNCHANGED <<outside, asked, disk, trading, sometime, bounds>>
        /\ throughout' = LiveAccounts
    BY DEF Look, LookBegins
  <1>2. mem \in Memory /\ said \in Reports
    BY DEF TypeOK
  <1>3. CASE up \cap {"backend", "events"} # {}
    <2>1. /\ mem' = [mem EXCEPT !.looks = @ - 1, !.listed = Candidates, !.toRead = Candidates,
                                  !.granted = {}, !.unverified = {}]
          /\ at' = "reading" /\ said' = said
      BY <1>3 DEF Look
    <2>2. mem' \in Memory /\ mem'.toRead = mem'.listed
      <3> DEFINE found == Candidates
                 once == [mem EXCEPT !.looks = @ - 1]
                 twice == [once EXCEPT !.listed = found, !.toRead = found]
      <3>1. found \in SUBSET Accounts
        BY Discoveries
      <3> HIDE DEF found
      <3>2. mem' = [twice EXCEPT !.granted = {}, !.unverified = {}]
        BY <2>1 DEF found
      <3>3. once \in Memory
        BY <1>2 DEF Memory
      <3> HIDE DEF once
      <3>4. twice \in Memory /\ twice.toRead = twice.listed
        BY <3>1, <3>3 DEF Memory
      <3> HIDE DEF twice
      <3> QED
        BY <3>2, <3>4 DEF Memory
    <2> QED
      BY <1>1, <1>2, <2>1, <2>2
  <1>4. CASE up \cap {"backend", "events"} = {} /\ mem.looks > 1
    <2>1. mem' = [mem EXCEPT !.looks = @ - 1] /\ at' = at /\ said' = said
      BY <1>4 DEF Look
    <2>2. mem' \in Memory
      BY <1>2, <2>1 DEF Memory
    <2> QED
      BY <1>1, <1>2, <2>1, <2>2
  <1>5. CASE up \cap {"backend", "events"} = {} /\ ~(mem.looks > 1)
    <2>1. Ends(Says("unknown", {}))
      BY <1>5 DEF Look
    <2>2. Says("unknown", {}) \in Reports /\ Says("unknown", {}).state # "nobody"
      BY DEF Says, Reports, Words
    <2> QED
      BY <1>1, <2>1, <2>2, Ended
  <1> QED
    BY <1>3, <1>4, <1>5

LEMMA ReadStep ==
    ASSUME TypeOK, NEW a \in Accounts, Read(a)
    PROVE  /\ at = "reading" /\ at' = at /\ mem' \in Memory /\ said' = said
           /\ mem'.listed = mem.listed /\ mem'.toRead = mem.toRead \ {a}
           /\ mem'.unverified = IF "chain" \in up THEN mem.unverified
                                ELSE mem.unverified \cup {a}
           /\ mem'.granted = IF "chain" \in up /\ Live(grant[a])
                             THEN mem.granted \cup {a} ELSE mem.granted
           /\ UNCHANGED <<outside, asked, disk, trading, history, bounds>>
  <1>1. mem \in Memory /\ mem' = NotedAs(a)
    BY DEF TypeOK, Read
  <1>2. /\ mem' \in Memory /\ mem'.listed = mem.listed /\ mem'.toRead = mem.toRead \ {a}
        /\ mem'.unverified = IF "chain" \in up THEN mem.unverified ELSE mem.unverified \cup {a}
        /\ mem'.granted = IF "chain" \in up /\ Live(grant[a])
                          THEN mem.granted \cup {a} ELSE mem.granted
    BY <1>1 DEF NotedAs, Memory
  <1> QED
    BY <1>2 DEF Read

(* It looks again, adopts the one grant it found, or ends with a report.  *)
LEMMA ConcludeStep ==
    ASSUME TypeOK, Conclude
    PROVE  /\ at = "reading" /\ mem.toRead = {} /\ throughout' = throughout
           /\ UNCHANGED <<outside, asked, disk, trading, bounds>>
           /\ mem' \in Memory /\ said' \in Reports /\ sometime' \in SUBSET Accounts
           /\ \/ at' = "looking" /\ said' = said
              \/ /\ at' = "adopting" /\ sometime' = LiveAccounts /\ said' = said
                 /\ mem'.target \in Accounts /\ mem.granted = {mem'.target}
              \/ /\ at' = "idle"
                 /\ said'.state = "nobody" => mem.granted = {} /\ mem.unverified = {}
  <1>1. /\ at = "reading" /\ mem.toRead = {} /\ throughout' = throughout
        /\ UNCHANGED <<outside, asked, disk, trading, bounds>>
    BY DEF Conclude
  <1>2. mem \in Memory /\ said \in Reports /\ sometime \in SUBSET Accounts
        /\ LiveAccounts \in SUBSET Accounts /\ mem.granted \in SUBSET Accounts
    BY DEF TypeOK, LiveAccounts, Memory
  <1>3. CASE Inconclusive /\ mem.looks > 0
    <2>1. at' = "looking" /\ UNCHANGED <<mem, said, sometime>>
      BY <1>3 DEF Conclude
    <2> QED
      BY <1>1, <1>2, <2>1
  <1>4. CASE ~(Inconclusive /\ mem.looks > 0) /\ TakesOne
    <2>1. /\ at' = "adopting" /\ said' = said /\ sometime' = LiveAccounts
          /\ mem' = [mem EXCEPT !.target = CHOOSE a \in mem.granted : TRUE]
      BY <1>4 DEF Conclude
    <2>2. \E x : mem.granted = {x}
      <3>1. IsFiniteSet(mem.granted)
        BY <1>2, OnboardingAssumption, FS_Subset
      <3> QED
        BY <1>4, <3>1, FS_Singleton DEF TakesOne
    <2>3. mem.granted = {CHOOSE a \in mem.granted : TRUE}
      BY <2>2
    <2> DEFINE one == CHOOSE a \in mem.granted : TRUE
    <2>4. one \in Accounts /\ mem' = [mem EXCEPT !.target = one] /\ mem.granted = {one}
      BY <1>2, <2>1, <2>3
    <2> HIDE DEF one
    <2>5. mem' \in Memory /\ mem'.target = one
      BY <1>2, <2>4 DEF Memory
    <2> QED
      BY <1>1, <1>2, <2>1, <2>4, <2>5
  <1>5. CASE ~(Inconclusive /\ mem.looks > 0) /\ ~TakesOne
    <2> DEFINE several == Says("several", {Adopt(a) : a \in mem.granted})
               unknown == Says("unknown", {})
               nobody == Says("nobody", {})
               report == IF mem.granted # {} THEN several
                         ELSE IF mem.unverified # {} THEN unknown ELSE nobody
    <2>1. Ends(report) /\ sometime' = sometime
      BY <1>5 DEF Conclude
    <2>2. several \in Reports /\ several.state = "several"
      <3> DEFINE offers == {Adopt(a) : a \in mem.granted}
      <3>1. offers \in SUBSET Offers /\ "several" \in Words
        BY <1>2, Offered DEF Words
      <3> HIDE DEF offers
      <3> QED
        BY <3>1, Reported DEF offers
    <2>3. unknown \in Reports /\ unknown.state = "unknown" /\ nobody \in Reports
      BY DEF Says, Reports, Words
    <2> HIDE DEF several, unknown, nobody
    <2>4. report \in Reports
          /\ (report.state = "nobody" => mem.granted = {} /\ mem.unverified = {})
      BY <2>2, <2>3
    <2> HIDE DEF report
    <2>5. at' = "idle" /\ mem' \in Memory /\ said' \in Reports /\ said' = report
      BY <2>1, <2>4, Ended
    <2> QED
      BY <1>1, <1>2, <2>1, <2>4, <2>5
  <1> QED
    BY <1>3, <1>4, <1>5

LEMMA AdoptStep ==
    ASSUME TypeOK, NEW a \in Accounts, AdoptAdvised(a) \/ AdoptUnadvised(a)
    PROVE  /\ at = "idle" /\ at' = "adopting" /\ mem' \in Memory /\ said' \in Reports
           /\ mem'.target = a /\ sometime' = LiveAccounts /\ said'.state # "nobody"
           /\ UNCHANGED <<outside, asked, disk, trading, throughout>>
  <1>1. at = "idle" /\ AdoptBegins(a)
    BY DEF AdoptAdvised, AdoptUnadvised, Idle
  <1>2. mem' \in Memory /\ mem'.target = a
    <2>1. mem' = [Nothing EXCEPT !.target = a, !.owner = ConfiguredOwner]
          /\ ConfiguredOwner \in Owners
      BY <1>1 DEF AdoptBegins, Owners
    <2> QED
      BY <2>1, Empty DEF Memory
  <1>3. said' \in Reports /\ said'.state # "nobody"
    BY <1>1 DEF AdoptBegins, Says, Reports, Words
  <1> QED
    BY <1>1, <1>2, <1>3 DEF AdoptBegins

LEMMA VerifyStep ==
    ASSUME TypeOK, Verify
    PROVE  /\ at = "adopting" /\ UNCHANGED <<outside, asked, disk, trading, history, bounds>>
           /\ mem' \in Memory /\ said' \in Reports
           /\ \/ at' = "idle" /\ said'.state # "nobody"
              \/ at' = "saving" /\ mem' = mem /\ said' = said /\ Live(grant[mem.target])
  <1>1. at = "adopting" /\ UNCHANGED <<outside, asked, disk, trading, history, bounds>>
    BY DEF Verify
  <1>2. \/ \E word \in {"unavailable", "not-a-grant", "mismatch"} : Ends(Says(word, {}))
        \/ at' = "saving" /\ mem' = mem /\ said' = said /\ Live(grant[mem.target])
    BY DEF Verify, Adoptable
  <1>3. ASSUME NEW word \in {"unavailable", "not-a-grant", "mismatch"}, Ends(Says(word, {}))
        PROVE  at' = "idle" /\ mem' \in Memory /\ said' \in Reports /\ said'.state # "nobody"
    <2>1. Says(word, {}) \in Reports /\ Says(word, {}).state # "nobody"
      BY DEF Says, Reports, Words
    <2> QED
      BY <1>3, <2>1, Ended
  <1> QED
    BY <1>1, <1>2, <1>3 DEF TypeOK

(* Commands that do one thing, and those that are cut short.              *)
LEMMA PlainStep ==
    ASSUME TypeOK, Preflight \/ Save \/ Record \/ CutShort \/ \E c \in Commands : Follow(c)
    PROVE  /\ UNCHANGED <<outside, history>> /\ mem' \in Memory /\ said' \in Reports
           /\ said' # said => said'.state # "nobody"
           /\ asked' \in BOOLEAN /\ wallet' \in BOOLEAN /\ env' \in Accounts \cup {Undefined, mem.target}
           /\ ledger' \in SUBSET (Accounts \cup {mem.target})
           /\ policy' \in {"read-only", "auto"} /\ funded' \in BOOLEAN
           /\ pending' \in BOOLEAN /\ inFlight' \in BOOLEAN
           /\ \/ at' = "idle"
              \/ at = "idle" /\ at' = "advising" /\ said'.offers = {}
              \/ at = "saving" /\ at' = "recording" /\ mem' = mem /\ said' = said
           /\ env' # env => at = "saving" /\ env' = mem.target
           /\ at = "advising" => said'.offers = {}
           /\ ledger' # ledger => at = "recording"
  <1> USE DEF TypeOK, outside, history, disk, trading, Idle
  <1>0. \A word \in Words : /\ Says(word, {}) \in Reports /\ Says(word, {}).state = word
                            /\ Says(word, {}).offers = {}
    BY DEF Says, Reports
  <1>1. CASE Preflight
    <2>1. /\ UNCHANGED <<outside, asked, disk, trading, history>>
          /\ at = "idle" /\ at' = "advising" /\ said' = Says("asking", {})
          /\ mem' = [Nothing EXCEPT !.failing = FailingChecks, !.readReady = "backend" \in up]
      BY <1>1 DEF Preflight
    <2>2. mem' \in Memory
      <3> DEFINE ready == "backend" \in up
      <3>1. FailingChecks \in SUBSET Checks /\ ready \in BOOLEAN
        BY Failings
      <3>2. mem' = [Nothing EXCEPT !.failing = FailingChecks, !.readReady = ready]
        BY <2>1
      <3> HIDE DEF ready
      <3> QED
        BY <3>1, <3>2, Empty DEF Memory
    <2>3. "asking" \in Words /\ "asking" # "nobody"
      BY DEF Words
    <2> QED
      BY <1>0, <2>1, <2>2, <2>3
  <1>2. CASE Save
    BY <1>2 DEF Save
  <1>3. CASE Record
    <2>1. Ends(Says("adopted", {})) /\ at = "recording" /\ ledger' = ledger \cup {mem.target}
          /\ UNCHANGED <<outside, asked, wallet, env, trading, history>>
      BY <1>3 DEF Record
    <2>2. "adopted" \in Words /\ "adopted" # "nobody"
      BY DEF Words
    <2>3. /\ at' = "idle" /\ mem' \in Memory /\ said' \in Reports
          /\ said'.state = "adopted" /\ said'.offers = {}
      BY <1>0, <2>1, <2>2, Ended
    <2> QED
      BY <2>1, <2>2, <2>3
  <1>4. CASE CutShort
    <2>1. Ends(Says("cut short", {})) /\ UNCHANGED <<outside, asked, disk, trading, history>>
      BY <1>4 DEF CutShort
    <2>2. "cut short" \in Words /\ "cut short" # "nobody"
      BY DEF Words
    <2>3. /\ at' = "idle" /\ mem' \in Memory /\ said' \in Reports
          /\ said'.state = "cut short" /\ said'.offers = {}
      BY <1>0, <2>1, <2>2, Ended
    <2> QED
      BY <2>1, <2>2, <2>3
  <1>5. ASSUME NEW c \in Commands, Follow(c)
        PROVE  /\ UNCHANGED <<outside, history>> /\ mem' = mem /\ at = "idle" /\ at' = at
               /\ said' = Says("done", {}) /\ UNCHANGED <<env, ledger>>
               /\ asked' \in BOOLEAN /\ wallet' \in BOOLEAN
               /\ policy' \in {"read-only", "auto"} /\ funded' \in BOOLEAN
               /\ pending' \in BOOLEAN /\ inFlight' \in BOOLEAN
    BY <1>5 DEF Follow, Commands
  <1>6. "done" \in Words /\ "done" # "nobody"
    BY DEF Words
  <1>7. CASE \E c \in Commands : Follow(c)
    BY <1>0, <1>5, <1>6, <1>7
  <1> QED
    BY <1>1, <1>2, <1>3, <1>4, <1>7

(* A grant changes, and with it what has granted throughout and sometimes. *)
LEMMA ChainStep ==
    ASSUME TypeOK, NEW a \in Accounts,
           Signs(a) \/ Lapses(a) \/ \E g \in Grants : Meddles(a, g)
    PROVE  /\ UNCHANGED <<view, up, disk, trading, at, said>>
           /\ recent' \in SUBSET Accounts /\ asked' \in BOOLEAN /\ mem' \in Memory
           /\ mem'.target = mem.target /\ mem'.listed = mem.listed
           /\ mem'.toRead = mem.toRead /\ mem'.unverified = mem.unverified
           /\ \E g \in Grants :
                 /\ Becomes(a, g)
                 /\ \/ mem'.granted = mem.granted
                    \/ mem'.granted = mem.granted \ {a} /\ ~Live(g)
  <1>1. mem \in Memory /\ recent \in SUBSET Accounts /\ asked \in BOOLEAN
    BY DEF TypeOK
  <1>2. CASE Signs(a)
    <2>1. /\ UNCHANGED <<view, up, disk, trading, at, mem, said>> /\ Becomes(a, "full")
          /\ recent' = recent \cup {a} /\ asked' = FALSE
      BY <1>2 DEF Signs
    <2> QED
      BY <1>1, <2>1 DEF Grants
  <1>3. CASE \E g \in Grants : Meddles(a, g)
    <2>1. PICK g \in Grants : Meddles(a, g)
      BY <1>3
    <2>2. /\ UNCHANGED <<view, up, asked, disk, trading, at, mem, said>> /\ Becomes(a, g)
          /\ recent' \in {recent, recent \cup {a}}
      BY <2>1 DEF Meddles
    <2> QED
      BY <1>1, <2>2
  <1>4. CASE Lapses(a)
    <2>1. /\ UNCHANGED <<view, recent, up, asked, disk, trading, at, said>>
          /\ Becomes(a, "expired")
          /\ mem' = IF at = "reading" THEN [mem EXCEPT !.granted = @ \ {a}] ELSE mem
      BY <1>4 DEF Lapses
    <2>2. "expired" \in Grants /\ ~Live("expired")
      BY DEF Grants, Live
    <2>3. /\ mem' \in Memory /\ mem'.target = mem.target /\ mem'.listed = mem.listed
          /\ mem'.toRead = mem.toRead /\ mem'.unverified = mem.unverified
          /\ mem'.granted \in {mem.granted, mem.granted \ {a}}
      BY <1>1, <2>1 DEF Memory
    <2> QED
      BY <1>1, <2>1, <2>2, <2>3
  <1> QED
    BY <1>2, <1>3, <1>4

(* The index, the event window and the services move by themselves.       *)
LEMMA DriftStep ==
    ASSUME TypeOK,
           \/ \E a \in Accounts : Indexed(a) \/ Scrolls(a)
           \/ \E s \in Services : Goes(s) \/ Returns(s)
    PROVE  /\ view' \in [Accounts -> Grants] /\ recent' \in SUBSET Accounts
           /\ up' \in SUBSET Services
           /\ UNCHANGED <<grant, asked, disk, trading, at, mem, said, history>>
  BY DEF TypeOK, Indexed, Scrolls, Goes, Returns

(* What a step may be.                                                    *)
LEMMA Steps ==
    ASSUME [Next]_vars
    PROVE  \/ UNCHANGED vars
           \/ Preflight \/ Save \/ Record \/ CutShort \/ \E c \in Commands : Follow(c)
           \/ Advise \/ Onboard \/ Look \/ Conclude \/ Verify
           \/ \E a \in Accounts : Read(a)
           \/ \E a \in Accounts : AdoptAdvised(a) \/ AdoptUnadvised(a)
           \/ \E a \in Accounts : Signs(a) \/ Lapses(a) \/ \E g \in Grants : Meddles(a, g)
           \/ \/ \E a \in Accounts : Indexed(a) \/ Scrolls(a)
              \/ \E s \in Services : Goes(s) \/ Returns(s)
  BY DEF Next, Operates, Happens

-----------------------------------------------------------------------------
(* The invariant is inductive.                                            *)
LEMMA TypeStep ==
    ASSUME IInv, [Next]_vars
    PROVE  TypeOK'
  <1>0. TypeOK /\ Witnessed
    BY DEF IInv
  <1>1. CASE UNCHANGED vars
    BY <1>0, <1>1 DEF TypeOK, vars, outside, disk, trading, history, bounds
  <1>2. CASE Preflight \/ Save \/ Record \/ CutShort \/ \E c \in Commands : Follow(c)
    <2>1. /\ UNCHANGED <<outside, history>> /\ mem' \in Memory /\ said' \in Reports
          /\ asked' \in BOOLEAN /\ wallet' \in BOOLEAN
          /\ env' \in Accounts \cup {Undefined, mem.target}
          /\ ledger' \in SUBSET (Accounts \cup {mem.target})
          /\ policy' \in {"read-only", "auto"} /\ funded' \in BOOLEAN
          /\ pending' \in BOOLEAN /\ inFlight' \in BOOLEAN
          /\ \/ at' = "idle" \/ at' = "advising" \/ at' = "recording"
          /\ env' # env => at = "saving" /\ env' = mem.target
          /\ ledger' # ledger => at = "recording"
      BY <1>0, <1>2, PlainStep
    <2>2. at \in {"saving", "recording"} => mem.target \in Accounts
      BY <1>0 DEF Witnessed
    <2>3. env' \in Accounts \cup {Undefined} /\ ledger' \in SUBSET Accounts
      BY <1>0, <2>1, <2>2 DEF TypeOK
    <2> QED
      BY <1>0, <2>1, <2>3 DEF TypeOK, outside, history
  <1>3. CASE Advise
    <2>1. /\ at' = "idle" /\ mem' \in Memory /\ said' \in Reports /\ asked' \in BOOLEAN
          /\ UNCHANGED <<outside, disk, trading, history, bounds>>
      BY <1>0, <1>3, AdviseStep
    <2> QED
      BY <1>0, <2>1 DEF TypeOK, outside, disk, trading, history
  <1>4. CASE Onboard
    <2>1. /\ at' \in {"idle", "looking"} /\ mem' \in Memory /\ said' \in Reports
          /\ asked' \in BOOLEAN /\ UNCHANGED <<outside, disk, trading, history, bounds>>
      BY <1>0, <1>4, OnboardStep
    <2> QED
      BY <1>0, <2>1 DEF TypeOK, outside, disk, trading, history
  <1>5. CASE Look
    <2>1. /\ at' \in {"idle", "looking", "reading"} /\ mem' \in Memory /\ said' \in Reports
          /\ throughout' = LiveAccounts
          /\ UNCHANGED <<outside, asked, disk, trading, sometime, bounds>>
      BY <1>0, <1>5, LookStep
    <2> QED
      BY <1>0, <2>1 DEF TypeOK, outside, disk, trading, LiveAccounts
  <1>6. CASE Conclude
    <2>1. /\ at' \in {"looking", "adopting", "idle"} /\ mem' \in Memory /\ said' \in Reports
          /\ sometime' \in SUBSET Accounts /\ throughout' = throughout
          /\ UNCHANGED <<outside, asked, disk, trading, bounds>>
      BY <1>0, <1>6, ConcludeStep
    <2> QED
      BY <1>0, <2>1 DEF TypeOK, outside, disk, trading
  <1>7. CASE Verify
    <2>1. /\ at' \in {"idle", "saving"} /\ mem' \in Memory /\ said' \in Reports
          /\ UNCHANGED <<outside, asked, disk, trading, history, bounds>>
      BY <1>0, <1>7, VerifyStep
    <2> QED
      BY <1>0, <2>1 DEF TypeOK, outside, disk, trading, history
  <1>8. ASSUME NEW a \in Accounts, Read(a) PROVE TypeOK'
    <2>1. /\ at' = at /\ mem' \in Memory /\ said' = said
          /\ UNCHANGED <<outside, asked, disk, trading, history, bounds>>
      BY <1>0, <1>8, ReadStep
    <2> QED
      BY <1>0, <2>1 DEF TypeOK, outside, disk, trading, history
  <1>9. ASSUME NEW a \in Accounts, AdoptAdvised(a) \/ AdoptUnadvised(a) PROVE TypeOK'
    <2>1. /\ at' = "adopting" /\ mem' \in Memory /\ said' \in Reports
          /\ sometime' = LiveAccounts
          /\ UNCHANGED <<outside, asked, disk, trading, throughout>>
      BY <1>0, <1>9, AdoptStep
    <2> QED
      BY <1>0, <2>1 DEF TypeOK, outside, disk, trading, LiveAccounts
  <1>10. ASSUME NEW a \in Accounts,
                Signs(a) \/ Lapses(a) \/ \E g \in Grants : Meddles(a, g)
         PROVE  TypeOK'
    <2>1. /\ UNCHANGED <<view, up, disk, trading, at, said>>
          /\ recent' \in SUBSET Accounts /\ asked' \in BOOLEAN /\ mem' \in Memory
          /\ \E g \in Grants : Becomes(a, g)
      BY <1>0, <1>10, ChainStep
    <2>2. /\ grant' \in [Accounts -> Grants] /\ throughout' \in SUBSET Accounts
          /\ sometime' \in SUBSET Accounts
      BY <1>0, <2>1 DEF TypeOK, Becomes
    <2> QED
      BY <1>0, <2>1, <2>2 DEF TypeOK, disk, trading
  <1>11. CASE \/ \E a \in Accounts : Indexed(a) \/ Scrolls(a)
              \/ \E s \in Services : Goes(s) \/ Returns(s)
    <2>1. /\ view' \in [Accounts -> Grants] /\ recent' \in SUBSET Accounts
          /\ up' \in SUBSET Services
          /\ UNCHANGED <<grant, asked, disk, trading, at, mem, said, history>>
      BY <1>0, <1>11, DriftStep
    <2> QED
      BY <1>0, <2>1 DEF TypeOK, disk, trading, history
  <1> QED
    BY <1>1, <1>2, <1>3, <1>4, <1>5, <1>6, <1>7, <1>8, <1>9, <1>10, <1>11, Steps

(* Steps that neither change a grant nor begin a look or an adoption.     *)
LEMMA Settled ==
    ASSUME IInv, TypeOK', UNCHANGED <<grant, history>>,
           at' \notin {"reading", "saving", "recording", "adopting"},
           at' = "advising" => said'.offers = {}
    PROVE  IInv'
  BY DEF IInv, StillGrants, Accounted, Witnessed, OffersNothing, LiveAccounts, history

LEMMA Inductive == IInv /\ [Next]_vars => IInv'
  <1> SUFFICES ASSUME IInv, [Next]_vars PROVE IInv'
    OBVIOUS
  <1>0. TypeOK' /\ TypeOK /\ StillGrants /\ Accounted /\ Witnessed /\ OffersNothing
    BY TypeStep DEF IInv
  <1>1. CASE UNCHANGED vars
    BY <1>0, <1>1 DEF IInv, StillGrants, Accounted, Witnessed, OffersNothing, LiveAccounts,
       vars, outside, history
  <1>2. CASE Preflight \/ Save \/ Record \/ CutShort \/ \E c \in Commands : Follow(c)
    <2>1. /\ UNCHANGED <<outside, history>>
          /\ \/ at' = "idle"
             \/ at = "idle" /\ at' = "advising" /\ said'.offers = {}
             \/ at = "saving" /\ at' = "recording" /\ mem' = mem /\ said' = said
      BY <1>0, <1>2, PlainStep
    <2>2. CASE at' # "recording"
      BY <1>0, <2>1, <2>2, Settled DEF outside
    <2>3. CASE at' = "recording"
      BY <1>0, <2>1, <2>3 DEF IInv, StillGrants, Accounted, Witnessed, OffersNothing,
         LiveAccounts, outside, history
    <2> QED
      BY <2>2, <2>3
  <1>3. CASE Advise
    <2>1. at' = "idle" /\ UNCHANGED <<outside, history>>
      BY <1>0, <1>3, AdviseStep
    <2> QED
      BY <1>0, <2>1, Settled DEF outside
  <1>4. CASE Onboard
    <2>1. at' \in {"idle", "looking"} /\ UNCHANGED <<outside, history>>
      BY <1>0, <1>4, OnboardStep
    <2> QED
      BY <1>0, <2>1, Settled DEF outside
  <1>5. CASE Look
    <2>1. /\ at' \in {"idle", "looking", "reading"} /\ throughout' = LiveAccounts
          /\ at' = "reading" => mem'.toRead = mem'.listed
          /\ UNCHANGED <<outside, sometime>>
      BY <1>0, <1>5, LookStep
    <2> QED
      BY <1>0, <2>1 DEF IInv, StillGrants, Accounted, Witnessed, OffersNothing,
         LiveAccounts, outside
  <1>6. CASE Conclude
    <2>1. /\ throughout' = throughout /\ UNCHANGED outside
          /\ \/ at' \in {"looking", "idle"}
             \/ at' = "adopting" /\ sometime' = LiveAccounts /\ mem'.target \in Accounts
      BY <1>0, <1>6, ConcludeStep
    <2> QED
      BY <1>0, <2>1 DEF IInv, StillGrants, Accounted, Witnessed, OffersNothing,
         LiveAccounts, outside
  <1>7. CASE Verify
    <2>1. /\ at = "adopting" /\ UNCHANGED <<outside, history>>
          /\ \/ at' = "idle"
             \/ at' = "saving" /\ mem' = mem /\ said' = said /\ Live(grant[mem.target])
      BY <1>0, <1>7, VerifyStep
    <2> QED
      BY <1>0, <2>1 DEF IInv, StillGrants, Accounted, Witnessed, OffersNothing,
         LiveAccounts, outside, history
  <1>8. ASSUME NEW a \in Accounts, Read(a) PROVE IInv'
    <2>1. /\ at = "reading" /\ at' = at /\ said' = said /\ UNCHANGED <<outside, history>>
          /\ mem'.listed = mem.listed /\ mem'.toRead = mem.toRead \ {a}
          /\ mem'.unverified = IF "chain" \in up THEN mem.unverified
                                ELSE mem.unverified \cup {a}
          /\ mem'.granted = IF "chain" \in up /\ Live(grant[a])
                             THEN mem.granted \cup {a} ELSE mem.granted
      BY <1>0, <1>8, ReadStep
    <2>2. Accounted'
      BY <1>0, <2>1 DEF StillGrants, Accounted, LiveAccounts, history
    <2> QED
      BY <1>0, <2>1, <2>2 DEF IInv, StillGrants, Witnessed, OffersNothing,
         LiveAccounts, outside, history
  <1>9. ASSUME NEW a \in Accounts, AdoptAdvised(a) \/ AdoptUnadvised(a) PROVE IInv'
    <2>1. /\ at' = "adopting" /\ mem'.target = a /\ sometime' = LiveAccounts
          /\ UNCHANGED <<outside, throughout>>
      BY <1>0, <1>9, AdoptStep
    <2> QED
      BY <1>0, <2>1 DEF IInv, StillGrants, Accounted, Witnessed, OffersNothing,
         LiveAccounts, outside
  <1>10. ASSUME NEW a \in Accounts,
                Signs(a) \/ Lapses(a) \/ \E g \in Grants : Meddles(a, g)
         PROVE  IInv'
    <2>1. /\ UNCHANGED <<at, said>>
          /\ mem'.target = mem.target /\ mem'.listed = mem.listed
          /\ mem'.toRead = mem.toRead /\ mem'.unverified = mem.unverified
          /\ \E g \in Grants :
                 /\ Becomes(a, g)
                 /\ \/ mem'.granted = mem.granted
                    \/ mem'.granted = mem.granted \ {a} /\ ~Live(g)
      BY <1>0, <1>10, ChainStep
    <2>2. PICK g \in Grants :
                 /\ Becomes(a, g)
                 /\ \/ mem'.granted = mem.granted
                    \/ mem'.granted = mem.granted \ {a} /\ ~Live(g)
      BY <2>1
    <2>3. LiveAccounts' = IF Live(g) THEN LiveAccounts \cup {a} ELSE LiveAccounts \ {a}
      BY <1>0, <2>2 DEF TypeOK, Becomes, LiveAccounts
    <2>4. /\ throughout' = IF Live(g) THEN throughout ELSE throughout \ {a}
          /\ sometime' = IF Live(g) THEN sometime \cup {a} ELSE sometime
      BY <2>2 DEF Becomes
    <2>5. StillGrants'
      BY <1>0, <2>3, <2>4 DEF StillGrants
    <2>6. Accounted'
      BY <1>0, <2>1, <2>2, <2>4 DEF Accounted
    <2>7. Witnessed'
      BY <1>0, <2>1, <2>3, <2>4 DEF Witnessed
    <2> QED
      BY <1>0, <2>1, <2>5, <2>6, <2>7 DEF IInv, OffersNothing
  <1>11. CASE \/ \E a \in Accounts : Indexed(a) \/ Scrolls(a)
              \/ \E s \in Services : Goes(s) \/ Returns(s)
    <2>1. UNCHANGED <<grant, at, mem, said, history>>
      BY <1>0, <1>11, DriftStep
    <2> QED
      BY <1>0, <2>1 DEF IInv, StillGrants, Accounted, Witnessed, OffersNothing,
         LiveAccounts, history
  <1> QED
    BY <1>1, <1>2, <1>3, <1>4, <1>5, <1>6, <1>7, <1>8, <1>9, <1>10, <1>11, Steps

LEMMA Starts == Init => IInv
  <1> SUFFICES ASSUME Init PROVE IInv
    OBVIOUS
  <1>1. mem \in Memory
    BY Empty DEF Init
  <1>2. said \in Reports
    BY DEF Init, Says, Reports, Words
  <1>3. TypeOK
    BY <1>1, <1>2 DEF Init, TypeOK, Grants, Services
  <1> QED
    BY <1>3 DEF Init, IInv, StillGrants, Accounted, Witnessed, OffersNothing

(* The invariant that carries the four below: it types the state, and says *)
(* what the account a command holds in hand is worth: verified while it    *)
(* adopts, counted among the listed while it looks, and what was offered   *)
(* never a preview before everything was read.                             *)
THEOREM HandshakeInvariant == Spec => []IInv
  BY Starts, Inductive, PTL DEF Spec

-----------------------------------------------------------------------------
(* Every account that comes to be the one this wallet trades granted it    *)
(* something at a moment of the adoption: only Save writes one down, and   *)
(* what it saves was verified against the chain since the adoption began.  *)
THEOREM AdoptsLiveGrants == Spec => AdoptedWasLive
  <1>1. IInv /\ [Next]_vars => (env' # env => env' \in sometime)
    <2> SUFFICES ASSUME IInv, [Next]_vars, env' # env PROVE env' \in sometime
      OBVIOUS
    <2>0. TypeOK /\ Witnessed
      BY DEF IInv
    <2>1. CASE Preflight \/ Save \/ Record \/ CutShort \/ \E c \in Commands : Follow(c)
      <3>1. at = "saving" /\ env' = mem.target
        BY <2>0, <2>1, PlainStep
      <3> QED
        BY <2>0, <3>1 DEF Witnessed
    <2>2. CASE UNCHANGED vars
      BY <2>2 DEF vars, disk
    <2>3. CASE Advise
      BY <2>0, <2>3, AdviseStep DEF disk
    <2>4. CASE Onboard
      BY <2>0, <2>4, OnboardStep DEF disk
    <2>5. CASE Look
      BY <2>0, <2>5, LookStep DEF disk
    <2>6. CASE Conclude
      BY <2>0, <2>6, ConcludeStep DEF disk
    <2>7. CASE Verify
      BY <2>0, <2>7, VerifyStep DEF disk
    <2>8. ASSUME NEW a \in Accounts, Read(a) PROVE env' = env
      BY <2>0, <2>8, ReadStep DEF disk
    <2>9. ASSUME NEW a \in Accounts, AdoptAdvised(a) \/ AdoptUnadvised(a) PROVE env' = env
      BY <2>0, <2>9, AdoptStep DEF disk
    <2>10. ASSUME NEW a \in Accounts,
                  Signs(a) \/ Lapses(a) \/ \E g \in Grants : Meddles(a, g)
           PROVE  env' = env
      BY <2>0, <2>10, ChainStep DEF disk
    <2>11. CASE \/ \E a \in Accounts : Indexed(a) \/ Scrolls(a)
                \/ \E s \in Services : Goes(s) \/ Returns(s)
      BY <2>0, <2>11, DriftStep DEF disk
    <2> QED
      BY <2>1, <2>2, <2>3, <2>4, <2>5, <2>6, <2>7, <2>8, <2>9, <2>10, <2>11, Steps
  <1>2. IInv /\ [Next]_vars => [env' # env => env' \in sometime]_vars
    BY <1>1
  <1> QED
    BY <1>2, HandshakeInvariant, PTL DEF Spec, AdoptedWasLive

(* A step that leaves the reading of a look is its conclusion, or the end  *)
(* of the process.                                                         *)
LEMMA Concludes ==
    ASSUME IInv, [Next]_vars, at = "reading", ~(at' = at), at' # "idle"
    PROVE  Conclude
  <1>0. TypeOK
    BY DEF IInv
  <1>1. CASE UNCHANGED vars
    BY <1>1 DEF vars
  <1>2. CASE Preflight \/ Save \/ Record \/ CutShort \/ \E c \in Commands : Follow(c)
    BY <1>0, <1>2, PlainStep
  <1>3. CASE Advise
    BY <1>0, <1>3, AdviseStep
  <1>4. CASE Onboard
    BY <1>0, <1>4, OnboardStep
  <1>5. CASE Look
    BY <1>0, <1>5, LookStep
  <1>6. CASE Conclude
    BY <1>6
  <1>7. CASE Verify
    BY <1>0, <1>7, VerifyStep
  <1>8. ASSUME NEW a \in Accounts, Read(a) PROVE FALSE
    BY <1>0, <1>8, ReadStep
  <1>9. ASSUME NEW a \in Accounts, AdoptAdvised(a) \/ AdoptUnadvised(a) PROVE FALSE
    BY <1>0, <1>9, AdoptStep
  <1>10. ASSUME NEW a \in Accounts,
                Signs(a) \/ Lapses(a) \/ \E g \in Grants : Meddles(a, g)
         PROVE  FALSE
    BY <1>0, <1>10, ChainStep
  <1>11. CASE \/ \E a \in Accounts : Indexed(a) \/ Scrolls(a)
              \/ \E s \in Services : Goes(s) \/ Returns(s)
    BY <1>0, <1>11, DriftStep
  <1> QED
    BY <1>1, <1>2, <1>3, <1>4, <1>5, <1>6, <1>7, <1>8, <1>9, <1>10, <1>11, Steps

(* A wait that goes on to adopt takes the one grant it found: whatever     *)
(* else its source listed and the chain answered for did not grant all     *)
(* through the look.                                                       *)
THEOREM LeavesTheChoice == Spec => NeverChooses
  <1> DEFINE Left == at = "reading" /\ at' = "adopting" =>
                        (throughout \cap mem.listed) \ mem.unverified \subseteq {mem'.target}
  <1>1. IInv /\ [Next]_vars => Left
    <2> SUFFICES ASSUME IInv, [Next]_vars, at = "reading", at' = "adopting"
                 PROVE  (throughout \cap mem.listed) \ mem.unverified \subseteq {mem'.target}
      OBVIOUS
    <2>1. Conclude
      BY Concludes
    <2>2. mem.toRead = {} /\ mem.granted = {mem'.target}
      BY <2>1, ConcludeStep DEF IInv
    <2>3. throughout \cap mem.listed \subseteq mem.toRead \cup mem.granted \cup mem.unverified
      BY DEF IInv, Accounted
    <2> QED
      BY <2>2, <2>3
  <1>2. IInv /\ [Next]_vars => [Left]_vars
    BY <1>1
  <1> QED
    BY <1>2, HandshakeInvariant, PTL DEF Spec, NeverChooses

(* "nobody" is said only by the conclusion of a look that found no grant   *)
(* and missed no candidate, so nothing its source listed granted all       *)
(* through it.                                                             *)
THEOREM SilenceIsNoGrant == Spec => NobodyMeansNobody
  <1> DEFINE Meant == said' # said /\ said'.state = "nobody" => throughout \cap mem.listed = {}
  <1>1. IInv /\ [Next]_vars => Meant
    <2> SUFFICES ASSUME IInv, [Next]_vars, said' # said, said'.state = "nobody"
                 PROVE  throughout \cap mem.listed = {}
      OBVIOUS
    <2>0. TypeOK
      BY DEF IInv
    <2>1. CASE Conclude
      <3>1. /\ at = "reading" /\ mem.toRead = {}
            /\ \/ at' \in {"looking", "adopting"} /\ said' = said
               \/ said'.state = "nobody" => mem.granted = {} /\ mem.unverified = {}
        BY <2>0, <2>1, ConcludeStep
      <3>2. throughout \cap mem.listed \subseteq mem.toRead \cup mem.granted \cup mem.unverified
        BY <3>1 DEF IInv, Accounted
      <3> QED
        BY <3>1, <3>2
    <2>2. CASE Preflight \/ Save \/ Record \/ CutShort \/ \E c \in Commands : Follow(c)
      BY <2>0, <2>2, PlainStep
    <2>3. CASE Advise
      BY <2>0, <2>3, AdviseStep
    <2>4. CASE Onboard
      BY <2>0, <2>4, OnboardStep
    <2>5. CASE Look
      BY <2>0, <2>5, LookStep
    <2>6. CASE Verify
      BY <2>0, <2>6, VerifyStep
    <2>7. ASSUME NEW a \in Accounts, Read(a) PROVE FALSE
      BY <2>0, <2>7, ReadStep
    <2>8. ASSUME NEW a \in Accounts, AdoptAdvised(a) \/ AdoptUnadvised(a) PROVE FALSE
      BY <2>0, <2>8, AdoptStep
    <2>9. ASSUME NEW a \in Accounts,
                 Signs(a) \/ Lapses(a) \/ \E g \in Grants : Meddles(a, g)
          PROVE  FALSE
      BY <2>0, <2>9, ChainStep
    <2>10. CASE \/ \E a \in Accounts : Indexed(a) \/ Scrolls(a)
                \/ \E s \in Services : Goes(s) \/ Returns(s)
      BY <2>0, <2>10, DriftStep
    <2>11. CASE UNCHANGED vars
      BY <2>11 DEF vars
    <2> QED
      BY <2>1, <2>2, <2>3, <2>4, <2>5, <2>6, <2>7, <2>8, <2>9, <2>10, <2>11, Steps
  <1>2. IInv /\ [Next]_vars => [Meant]_vars
    BY <1>1
  <1> QED
    BY <1>2, HandshakeInvariant, PTL DEF Spec, NobodyMeansNobody

(* What an account's listing must be for `next` to offer a trade on it.   *)
LEMMA TradeStep ==
    ASSUME IInv, Advise, FlagsStale, Do("preview") \in said'.offers
    PROVE  /\ ~inFlight /\ ~pending
           /\ up = Services => view[env] \in {"full", "expired"}
  <1> DEFINE owner == IF mem.readReady THEN IdentityRead ELSE ConfiguredOwner
             delegate == wallet /\ owner # Undefined
             reads == mem.readReady /\ env # Undefined
             configured == wallet /\ env # Undefined /\ mem.failing = {}
             mode == IF delegate THEN "delegate" ELSE IF env # Undefined THEN "owner"
                     ELSE "undecided"
             found == IF wallet /\ mem.readReady /\ env = Undefined THEN Discovered ELSE Undefined
             delegation == IF delegate THEN DelegationState(owner, Listed, Undefined)
                           ELSE Undefined
             margin == reads /\ funded
             report == Choose(inFlight, pending, configured, mode, found, delegation, margin)
  <1>0. TypeOK
    BY DEF IInv
  <1>1. Ends(Says("unavailable", {})) \/ Ends(report)
    BY DEF Advise
  <1>2. said' = report
    <2>1. ~Ends(Says("unavailable", {}))
      BY DEF Ends, Says
    <2> QED
      BY <1>1, <2>1 DEF Ends
  <1>3. found \in {Undefined} \cup SUBSET Accounts
    BY <1>0, Discoveries
  <1>4. ~inFlight /\ ~pending /\ configured /\ margin /\ ~NotDelegated(delegation)
    <2> HIDE DEF configured, mode, found, delegation, margin
    <2> QED
      BY <1>0, <1>2, <1>3, Advice
  <1>5. ASSUME up = Services PROVE view[env] \in {"full", "expired"}
    <2>1. wallet /\ env # Undefined /\ mem.readReady
      BY <1>4
    <2>2. env \in Accounts /\ view[env] \in Grants
      BY <1>0, <2>1 DEF TypeOK
    <2>3. owner # Undefined
      BY <1>5, <2>1, <2>2, OnboardingAssumption DEF IdentityRead, Services
    <2>4. delegation = DelegationState(owner, view[env], Undefined)
      BY <1>5, <2>1, <2>3 DEF Listed, Services
    <2>5. delegation = "granted" \/ delegation = Undefined
      BY <1>4 DEF NotDelegated
    <2> DEFINE listed == view[env]
    <2> HIDE DEF owner, delegation, listed
    <2>6. ASSUME listed \in {"none", "short", "stale"}
          PROVE  DelegationState(owner, listed, Undefined) \in NeedsGrant \ {"granted"}
      BY <2>1, <2>3, <2>6 DEF DelegationState, NeedsGrant
    <2>7. listed \notin {"none", "short", "stale"}
      BY <2>4, <2>5, <2>6, UndefinedAssumption DEF listed
    <2> QED
      BY <2>2, <2>7 DEF Grants, listed
  <1> QED
    BY <1>4, <1>5

(* `next` offers a trade with nothing in flight and no plan waiting, and,  *)
(* while every service answers, on a grant the backend lists in full; a    *)
(* backend that does not tell the wrong slot cannot keep the last part.    *)
THEOREM SettlesBeforeTrading == FlagsStale => (Spec => TradeComesLast)
  <1> DEFINE Last == at = "advising" /\ Do("preview") \in said'.offers =>
                        /\ ~inFlight /\ ~pending
                        /\ up = Services => view[env] \in {"full", "expired"}
  <1> SUFFICES ASSUME FlagsStale PROVE Spec => TradeComesLast
    OBVIOUS
  <1>1. IInv /\ [Next]_vars => Last
    <2> SUFFICES ASSUME IInv, [Next]_vars, at = "advising", Do("preview") \in said'.offers
                 PROVE  /\ ~inFlight /\ ~pending
                        /\ up = Services => view[env] \in {"full", "expired"}
      OBVIOUS
    <2>0. TypeOK /\ said.offers = {}
      BY DEF IInv, OffersNothing
    <2>1. CASE Advise
      BY <2>1, TradeStep
    <2>2. CASE Preflight \/ Save \/ Record \/ CutShort \/ \E c \in Commands : Follow(c)
      BY <2>0, <2>2, PlainStep
    <2>3. CASE Onboard
      BY <2>0, <2>3, OnboardStep
    <2>4. CASE Look
      BY <2>0, <2>4, LookStep
    <2>5. CASE Conclude
      BY <2>0, <2>5, ConcludeStep
    <2>6. CASE Verify
      BY <2>0, <2>6, VerifyStep
    <2>7. ASSUME NEW a \in Accounts, Read(a) PROVE FALSE
      BY <2>0, <2>7, ReadStep
    <2>8. ASSUME NEW a \in Accounts, AdoptAdvised(a) \/ AdoptUnadvised(a) PROVE FALSE
      BY <2>0, <2>8, AdoptStep
    <2>9. ASSUME NEW a \in Accounts,
                 Signs(a) \/ Lapses(a) \/ \E g \in Grants : Meddles(a, g)
          PROVE  FALSE
      BY <2>0, <2>9, ChainStep
    <2>10. CASE \/ \E a \in Accounts : Indexed(a) \/ Scrolls(a)
                \/ \E s \in Services : Goes(s) \/ Returns(s)
      BY <2>0, <2>10, DriftStep
    <2>11. CASE UNCHANGED vars
      BY <2>0, <2>11 DEF vars
    <2> QED
      BY <2>1, <2>2, <2>3, <2>4, <2>5, <2>6, <2>7, <2>8, <2>9, <2>10, <2>11, Steps
  <1>2. IInv /\ [Next]_vars => [Last]_vars
    BY <1>1
  <1> QED
    BY <1>2, HandshakeInvariant, PTL DEF Spec, TradeComesLast
=============================================================================
