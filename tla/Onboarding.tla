----------------------------- MODULE Onboarding -----------------------------
(***************************************************************************)
(* The handshake that lets an agent trade an account it does not own: an   *)
(* operator does, one at a time, what `next` says; an owner grants, widens *)
(* and removes on chain; `onboard --wait` finds the grant and adopts the   *)
(* account.  Source: src/src/agent/guidance.ts, delegation.ts,             *)
(* discovery.ts, adopt.ts, adoptions.ts, src/src/chain/account-object.ts,  *)
(* grant-events.ts, delegate-scope.ts, src/src/doctor.ts, and the scripts  *)
(* next, onboard, discover and adopt under src/scripts/agent.              *)
(*                                                                         *)
(* Abstractions: a grant is what it confers, not its mask or its expiry;   *)
(* what is written down, printed or opened beside the advice is left out,  *)
(* and so are a wallet that owns accounts, its gas, and the checks of      *)
(* `doctor` that do not concern the grant (they are taken to pass).        *)
(***************************************************************************)
EXTENDS Integers, FiniteSets

CONSTANTS
    Undefined,
    Accounts,
    Owner,            \* of each account
    ConfiguredOwner,  \* WATERX_OWNER_ADDRESS, or Undefined
    FlagsStale,       \* whether the backend knows a grant in the wrong slot
    Looks,            \* how often one wait looks before its time is up
    MaxChanges,       \* bound: what owners and operators do unprompted
    MaxOutages,       \* bound: a service goes, a process dies, a write fails
    MaxPlans          \* bound: trades previewed

(* Every account has an owner, whose address is not the absence of one.    *)
ASSUME OnboardingAssumption ==
    /\ IsFiniteSet(Accounts) /\ Undefined \notin Accounts
    /\ \A a \in Accounts : Owner[a] # Undefined
    /\ Looks \in Nat

(* "short" lacks a permission the agent asks for, "stale" sits in the slot *)
(* that the contract no longer reads.                                      *)
Grants == {"none", "full", "short", "stale", "expired"}

Services == {"backend", "events", "chain"}

VARIABLES
    grant,     \* chain: what each account grants this wallet
    view,      \* the backend's copy of it, which follows
    recent,    \* accounts named by the grant events that can still be read
    up,        \* the services that answer
    asked,     \* the owner holds the link, or was told what doctor says it must do
    wallet, env, ledger,   \* disk: a key, WATERX_ACCOUNT_ID, the adoptions
    policy, funded,        \* the execution policy; free margin in the account
    pending, inFlight,     \* a previewed plan; a submission nobody has settled
    at,        \* where the command that runs has got to
    mem,       \* what it holds
    said,      \* what the last command told the operator
    throughout, \* history: accounts that have granted since the look began
    sometime,   \* history: accounts that granted at some time of the adoption
    changes, outages, plans

outside == <<grant, view, recent, up>>
disk == <<wallet, env, ledger>>
trading == <<policy, funded, pending, inFlight>>
history == <<throughout, sometime>>
bounds == <<changes, outages, plans>>
vars == <<outside, asked, disk, trading, at, mem, said, history, bounds>>

(* An entry that is there and has not lapsed, whatever it confers.         *)
Live(g) == g \in {"full", "short", "stale"}
LiveAccounts == {a \in Accounts : Live(grant[a])}

Nothing == [owner |-> Undefined, failing |-> {}, readReady |-> FALSE, looks |-> 0,
            listed |-> {}, toRead |-> {}, granted |-> {}, unverified |-> {},
            target |-> Undefined]

Do(command) == [do |-> command, account |-> Undefined]
Adopt(a) == [do |-> "adopt", account |-> a]
Says(state, offers) == [state |-> state, offers |-> offers]

-----------------------------------------------------------------------------
(* What each surface makes of what it has read.                            *)

(* The owner, configured or read from the account.                         *)
IdentityRead ==
    IF ConfiguredOwner # Undefined THEN ConfiguredOwner
    ELSE IF env # Undefined /\ "chain" \in up THEN Owner[env] ELSE Undefined

(* doctor: the checks that fail, of those about the grant.                 *)
Checks == {"backend", "owner", "account", "delegate", "delegate scope"}

FailingChecks ==
    LET owner == IdentityRead
        read == env # Undefined /\ "chain" \in up
        answered == "backend" \in up
        delegate == wallet /\ owner # Undefined /\ env # Undefined
    IN {check \in Checks :
          CASE check = "backend" -> ~answered
            [] check = "owner" -> read /\ ConfiguredOwner \notin {Undefined, Owner[env]}
            [] check = "account" -> /\ wallet \/ owner # Undefined
                                    /\ answered /\ env # Undefined /\ owner # Owner[env]
            [] check = "delegate" -> delegate /\ answered /\ view[env] = "none"
            [] check = "delegate scope" ->
                  /\ delegate
                  /\ IF read THEN grant[env] \notin {"full", "short"}
                     ELSE answered /\ view[env] = "stale" /\ FlagsStale}

(* discoverGrants in one glance, for the commands that look before they    *)
(* report: the grants it confirms, or Undefined when neither source        *)
(* answers.  They keep no account of the candidates they could not read.   *)
Candidates == IF "backend" \in up THEN {a \in Accounts : view[a] # "none"} ELSE recent

Discovered ==
    IF up \cap {"backend", "events"} = {} THEN Undefined
    ELSE IF "chain" \in up THEN {a \in Candidates : Live(grant[a])} ELSE {}

(* delegationStatus.  The backend's list tells of no expiry.               *)
DelegationState(owner, listed, discovered) ==
    CASE ~wallet -> "no-wallet"
      [] wallet /\ env = Undefined /\ discovered \notin {Undefined, {}} -> "granted-not-adopted"
      [] wallet /\ (owner = Undefined \/ env = Undefined)
            /\ ~(env = Undefined /\ discovered \notin {Undefined, {}}) -> "awaiting-grant"
      [] wallet /\ owner # Undefined /\ env # Undefined ->
            CASE listed \in {Undefined, "none"} -> "not-granted"
              [] listed = "stale" /\ FlagsStale -> "stale-grant"
              [] listed = "short" -> "insufficient"
              [] OTHER -> "granted"

Listed == IF "backend" \in up /\ env # Undefined THEN view[env] ELSE Undefined

NeedsGrant == {"awaiting-grant", "not-granted", "stale-grant", "insufficient"}

(* A status that was not read is none of those that ask for a grant.      *)
ASSUME UndefinedAssumption == Undefined \notin NeedsGrant

Undecided_Bootstrap(discovered) == Says("not-set-up", {Do("bootstrap")})

(* A wallet and no account: the grant may be there, or is to be asked for. *)
Undecided(discovered) ==
    IF discovered \notin {Undefined, {}}
    THEN Says("granted-not-adopted", {Adopt(a) : a \in discovered})
    ELSE Says("awaiting-grant", {Do("onboard")})

NotDelegated_OnlyAbsent(delegation) == delegation = "not-granted"

NotDelegated(delegation) == delegation \notin {Undefined, "granted"}

(* guidance.ts: the first state that applies wins.                         *)
Choose(open, waiting, configured, mode, discovered, delegation, margin) ==
    IF open THEN Says("unsettled", {Do("reconcile")})
    ELSE IF waiting THEN Says("awaiting-approval", {Do("approve")})
    ELSE IF ~configured THEN
        IF ~wallet THEN Says("not-set-up", {Do("bootstrap")})
        ELSE IF mode = "undecided" THEN Undecided(discovered)
        ELSE Says("not-set-up", {Do("doctor")})
    ELSE IF NotDelegated(delegation) THEN Says("not-delegated", {Do("onboard")})
    ELSE IF policy = "read-only" THEN Says("read-only", {Do("policy")})
    ELSE IF ~margin THEN Says("no-collateral", {Do("deposit")})
    ELSE Says("ready", {Do("preview")})

-----------------------------------------------------------------------------
(* `next`.                                                                *)

Idle == at = "idle"

Ends(report) == at' = "idle" /\ mem' = Nothing /\ said' = report

(* The preflight first: what it found is not looked at again.             *)
Preflight ==
    /\ Idle /\ (said.offers = {} \/ said.state = "ready")
    /\ at' = "advising" /\ said' = Says("asking", {})
    /\ mem' = [Nothing EXCEPT !.failing = FailingChecks, !.readReady = "backend" \in up]
    /\ UNCHANGED <<outside, asked, disk, trading, history, bounds>>

(* The rest of what `next` reads, and the decision.  With an account, it   *)
(* reads its positions and orders, and fails when it cannot.               *)
Advise ==
    LET owner == IF mem.readReady THEN IdentityRead ELSE ConfiguredOwner
        delegate == wallet /\ owner # Undefined
        reads == mem.readReady /\ env # Undefined
    IN /\ at = "advising"
       /\ IF reads /\ "backend" \notin up THEN Ends(Says("unavailable", {}))
          ELSE Ends(Choose(inFlight, pending,
                           wallet /\ env # Undefined /\ mem.failing = {},
                           IF delegate THEN "delegate" ELSE IF env # Undefined THEN "owner"
                           ELSE "undecided",
                           IF wallet /\ mem.readReady /\ env = Undefined THEN Discovered
                           ELSE Undefined,
                           IF delegate THEN DelegationState(owner, Listed, Undefined)
                           ELSE Undefined,
                           reads /\ funded))
       /\ asked' = (asked \/ said'.state \in {"awaiting-grant", "not-delegated"})
       /\ UNCHANGED <<outside, disk, trading, history, bounds>>

-----------------------------------------------------------------------------
(* `onboard --wait`.                                                      *)

LookBegins ==
    /\ throughout' = LiveAccounts
    /\ UNCHANGED sometime

(* It reports where the handshake has got to, and hands over the link,     *)
(* before it waits; a grant already recorded ends it here.                 *)
Onboard ==
    LET owner == IdentityRead
        state == DelegationState(owner, IF owner = Undefined THEN Undefined ELSE Listed,
                                 IF env = Undefined THEN Discovered ELSE Undefined)
    IN /\ Idle /\ Do("onboard") \in said.offers
       /\ asked' = (asked \/ state \in NeedsGrant)
       /\ IF state \in {"granted", "no-wallet"} THEN Ends(Says(state, {}))
          ELSE /\ at' = "looking" /\ said' = Says("waiting", {})
               /\ mem' = [Nothing EXCEPT !.owner = owner, !.looks = Looks]
       /\ UNCHANGED <<outside, disk, trading, history, bounds>>

(* A look: candidates from the index, or from the events when the index    *)
(* does not answer.                                                        *)
Look ==
    /\ at = "looking"
    /\ IF up \cap {"backend", "events"} # {}
       THEN /\ mem' = [mem EXCEPT !.looks = @ - 1, !.listed = Candidates, !.toRead = Candidates,
                                  !.granted = {}, !.unverified = {}]
            /\ at' = "reading" /\ UNCHANGED said
       ELSE IF mem.looks > 1
       THEN mem' = [mem EXCEPT !.looks = @ - 1] /\ UNCHANGED <<at, said>>
       ELSE Ends(Says("unknown", {}))
    /\ LookBegins
    /\ UNCHANGED <<outside, asked, disk, trading, bounds>>

NotedAs_ReadOrNot(a) ==
    [mem EXCEPT !.toRead = @ \ {a},
                !.granted = IF "chain" \in up /\ Live(grant[a]) THEN @ \cup {a} ELSE @]

(* Every candidate is read from chain: one that cannot be read is kept     *)
(* apart from one that grants nothing.                                     *)
NotedAs(a) ==
    [mem EXCEPT !.toRead = @ \ {a},
                !.granted = IF "chain" \in up /\ Live(grant[a]) THEN @ \cup {a} ELSE @,
                !.unverified = IF "chain" \in up THEN @ ELSE @ \cup {a}]

Read(a) ==
    /\ at = "reading" /\ a \in mem.toRead
    /\ mem' = NotedAs(a)
    /\ UNCHANGED <<outside, asked, disk, trading, at, said, history, bounds>>

(* A grant, or a candidate that could not be read, is an answer; nothing   *)
(* found is one only when the time is up.                                  *)
Inconclusive == mem.granted = {} /\ mem.unverified = {}

TakesOne_Any == mem.granted # {}

(* It adopts what it found when that is one grant, and leaves a choice     *)
(* between several to a person.                                            *)
TakesOne == Cardinality(mem.granted) = 1

Conclude ==
    /\ at = "reading" /\ mem.toRead = {}
    /\ IF Inconclusive /\ mem.looks > 0
       THEN at' = "looking" /\ UNCHANGED <<mem, said, sometime>>
       ELSE IF TakesOne
       THEN /\ at' = "adopting" /\ UNCHANGED said
            /\ mem' = [mem EXCEPT !.target = CHOOSE a \in mem.granted : TRUE]
            /\ sometime' = LiveAccounts
       ELSE /\ Ends(IF mem.granted # {} THEN Says("several", {Adopt(a) : a \in mem.granted})
                    ELSE IF mem.unverified # {} THEN Says("unknown", {})
                    ELSE Says("nobody", {}))
            /\ UNCHANGED sometime
    /\ UNCHANGED <<outside, asked, disk, trading, throughout, bounds>>

-----------------------------------------------------------------------------
(* Adoption, by `onboard --wait` or by `adopt` with an account it is told. *)

AdoptBegins(a) ==
    /\ at' = "adopting" /\ said' = Says("adopting", {})
    /\ mem' = [Nothing EXCEPT !.target = a, !.owner = ConfiguredOwner]
    /\ sometime' = LiveAccounts
    /\ UNCHANGED <<outside, asked, disk, trading, throughout>>

AdoptAdvised(a) == Idle /\ Adopt(a) \in said.offers /\ AdoptBegins(a) /\ UNCHANGED bounds

(* Any account id may be typed.                                           *)
AdoptUnadvised(a) ==
    /\ Idle /\ wallet /\ changes < MaxChanges /\ changes' = changes + 1
    /\ AdoptBegins(a) /\ UNCHANGED <<outages, plans>>

Adoptable_Listed(a) == grant[a] # "none"

(* verifyAdoptable: an entry for this wallet that has not lapsed.         *)
Adoptable(a) == Live(grant[a])

(* The account is read again, and its owner held against the one this      *)
(* process acts for.                                                       *)
Verify ==
    /\ at = "adopting"
    /\ IF "chain" \notin up THEN Ends(Says("unavailable", {}))
       ELSE IF ~Adoptable(mem.target) THEN Ends(Says("not-a-grant", {}))
       ELSE IF mem.owner \notin {Undefined, Owner[mem.target]} THEN Ends(Says("mismatch", {}))
       ELSE at' = "saving" /\ UNCHANGED <<mem, said>>
    /\ UNCHANGED <<outside, asked, disk, trading, history, bounds>>

Save ==
    /\ at = "saving"
    /\ env' = mem.target /\ at' = "recording"
    /\ UNCHANGED <<outside, asked, wallet, ledger, trading, mem, said, history, bounds>>

Record ==
    /\ at = "recording"
    /\ ledger' = ledger \cup {mem.target}
    /\ Ends(Says("adopted", {}))
    /\ UNCHANGED <<outside, asked, wallet, env, trading, history, bounds>>

(* A write fails, or the process is killed; what was saved stays saved.   *)
CutShort ==
    /\ ~Idle /\ outages < MaxOutages /\ outages' = outages + 1
    /\ Ends(Says("cut short", {}))
    /\ UNCHANGED <<outside, asked, disk, trading, history, changes, plans>>

-----------------------------------------------------------------------------
(* What else an operator is told to do, with the person it asks.          *)

(* The failures of which doctor says what the owner has to do.  "delegate" *)
(* names the page as well; "delegate scope" names none, so an owner that   *)
(* holds no link yet has only the operator's word for what to do where.    *)
FailingForOwner == {"delegate", "delegate scope"}

Follow(command) ==
    /\ Idle /\ Do(command) \in said.offers
    /\ CASE command = "bootstrap" ->
              wallet' = TRUE /\ UNCHANGED <<asked, env, ledger, trading, plans>>
         [] command = "doctor" ->
              /\ asked' = (asked \/ FailingChecks \cap FailingForOwner # {})
              /\ UNCHANGED <<disk, trading, plans>>
         [] command = "policy" ->
              policy' = "auto" /\ UNCHANGED <<asked, disk, funded, pending, inFlight, plans>>
         [] command = "deposit" ->
              funded' = TRUE /\ UNCHANGED <<asked, disk, policy, pending, inFlight, plans>>
         [] command = "preview" ->
              /\ plans < MaxPlans /\ plans' = plans + 1
              /\ pending' = TRUE /\ UNCHANGED <<asked, disk, policy, funded, inFlight>>
         [] command = "approve" ->
              /\ pending' = FALSE /\ inFlight' = TRUE
              /\ UNCHANGED <<asked, disk, policy, funded, plans>>
         [] command = "reconcile" ->
              inFlight' = FALSE /\ UNCHANGED <<asked, disk, policy, funded, pending, plans>>
    /\ said' = Says("done", {})
    /\ UNCHANGED <<outside, at, mem, history, changes, outages>>

Commands == {"bootstrap", "doctor", "policy", "deposit", "preview", "approve", "reconcile"}

-----------------------------------------------------------------------------
(* The owners, the index, the event window and the services.              *)

Becomes(a, g) ==
    /\ grant' = [grant EXCEPT ![a] = g]
    /\ throughout' = IF Live(g) THEN throughout ELSE throughout \ {a}
    /\ sometime' = IF Live(g) THEN sometime \cup {a} ELSE sometime

(* An owner who was asked signs: of the account it is about, if one is.   *)
Signs(a) ==
    /\ asked /\ env \in {Undefined, a} /\ grant[a] # "full"
    /\ Becomes(a, "full")
    /\ recent' = recent \cup {a} /\ asked' = FALSE
    /\ UNCHANGED <<view, up, disk, trading, at, mem, said, bounds>>

(* Or grants, narrows or removes for reasons of its own.                  *)
Meddles(a, g) ==
    /\ changes < MaxChanges /\ changes' = changes + 1
    /\ \/ grant[a] = "none" /\ Live(g)
       \/ grant[a] # "none" /\ g = "none"
       \/ grant[a] = "full" /\ g = "short"
    /\ Becomes(a, g)
    /\ recent' = IF Live(g) THEN recent \cup {a} ELSE recent
    /\ UNCHANGED <<view, up, asked, disk, trading, at, mem, said, outages, plans>>

(* The clock passes an expiry; a look holds the entries it has read        *)
(* against the clock once all of them are read.                            *)
Lapses(a) ==
    /\ changes < MaxChanges /\ changes' = changes + 1
    /\ Live(grant[a]) /\ Becomes(a, "expired")
    /\ mem' = IF at = "reading" THEN [mem EXCEPT !.granted = @ \ {a}] ELSE mem
    /\ UNCHANGED <<view, recent, up, asked, disk, trading, at, said, outages, plans>>

Indexed(a) ==
    /\ view[a] # grant[a] /\ view' = [view EXCEPT ![a] = grant[a]]
    /\ UNCHANGED <<grant, recent, up, asked, disk, trading, at, mem, said, history, bounds>>

(* The last fifty events of a kind are read: later ones push a grant out.  *)
Scrolls(a) ==
    /\ a \in recent /\ recent' = recent \ {a}
    /\ UNCHANGED <<grant, view, up, asked, disk, trading, at, mem, said, history, bounds>>

Goes(s) ==
    /\ s \in up /\ outages < MaxOutages /\ outages' = outages + 1
    /\ up' = up \ {s}
    /\ UNCHANGED <<grant, view, recent, asked, disk, trading, at, mem, said, history, changes, plans>>

Returns(s) ==
    /\ s \notin up /\ up' = up \cup {s}
    /\ UNCHANGED <<grant, view, recent, asked, disk, trading, at, mem, said, history, bounds>>

-----------------------------------------------------------------------------
Init ==
    /\ grant \in [Accounts -> {"none", "full"}] /\ view = grant /\ recent = {}
    /\ up = Services /\ asked = FALSE
    /\ wallet = FALSE /\ env = Undefined /\ ledger = {}
    /\ policy = "read-only" /\ funded = FALSE /\ pending = FALSE /\ inFlight = FALSE
    /\ at = "idle" /\ mem = Nothing /\ said = Says("done", {})
    /\ throughout = {} /\ sometime = {}
    /\ changes = 0 /\ outages = 0 /\ plans = 0

(* What the operator and the commands it runs do.                         *)
Operates ==
    \/ Preflight \/ Advise \/ Onboard \/ Look \/ Conclude \/ Verify \/ Save \/ Record
    \/ \E a \in Accounts : Read(a) \/ AdoptAdvised(a)
    \/ \E c \in Commands : Follow(c)

Happens ==
    \/ CutShort
    \/ \E a \in Accounts :
        \/ Signs(a) \/ Lapses(a) \/ Indexed(a) \/ Scrolls(a) \/ AdoptUnadvised(a)
        \/ \E g \in Grants : Meddles(a, g)
    \/ \E s \in Services : Goes(s) \/ Returns(s)

Next == Operates \/ Happens

Spec == Init /\ [][Next]_vars

(* The operator goes on asking and doing what it is told, which is to pass *)
(* on to the owner what doctor says it has to do; an owner who was asked   *)
(* signs; the index follows the chain; services come back.                *)
Fairness ==
    /\ WF_vars(Operates)
    /\ WF_vars(\E a \in Accounts : Signs(a))
    /\ \A a \in Accounts : WF_vars(Indexed(a))
    /\ \A s \in Services : WF_vars(Returns(s))

FairSpec == Spec /\ Fairness

-----------------------------------------------------------------------------
(* Properties.                                                            *)

(* ADOPTED ON A LIVE GRANT.  No account is written down that did not, at   *)
(* some moment since its adoption began, grant this wallet: neither what   *)
(* the look found, nor what was typed, nor a lapsed entry will do.         *)
AdoptedWasLive == [][env' # env => env' \in sometime]_vars

(* IT NEVER CHOOSES.  A wait adopts an account on its own only if no other *)
(* one granted all through the look, but for those that its source did     *)
(* not list or the chain did not read.                                     *)
NeverChooses ==
    [][at = "reading" /\ at' = "adopting" =>
        (throughout \cap mem.listed) \ mem.unverified \subseteq {mem'.target}]_vars

(* NOBODY MEANS NOBODY.  A wait reports that nothing grants this wallet    *)
(* only if no account its source listed did so all through the look: an    *)
(* outage is reported as one.                                              *)
NobodyMeansNobody ==
    [][said' # said /\ said'.state = "nobody" => throughout \cap mem.listed = {}]_vars

(* WHAT MUST BE SETTLED OUTRANKS A TRADE.  `next` offers a trade only with *)
(* nothing in flight, no plan waiting and, while every service answers, a  *)
(* grant that the backend lists in full.                                   *)
TradeComesLast ==
    [][at = "advising" /\ Do("preview") \in said'.offers =>
        /\ ~inFlight /\ ~pending
        /\ up = Services => view[env] \in {"full", "expired"}]_vars

(* THE HANDSHAKE COMPLETES.  An operator who does no more than what `next` *)
(* says, with owners who sign when they are asked, by the link or in the   *)
(* words of doctor, comes to be offered a trade on a grant that is there,  *)
(* again and again, whatever goes down, dies or is taken back on the way. *)
HandshakeCompletes == []<>(said.state = "ready" /\ env # Undefined /\ grant[env] = "full")
=============================================================================
