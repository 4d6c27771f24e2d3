------------------------------ MODULE OnceOnly ------------------------------
(***************************************************************************)
(* What is promised of a trade, and nothing of how: of the runner, "an     *)
(* intent is submitted at most once" (src/src/runner/runner.ts:4); of the  *)
(* one-shot path, "one approval buys one transaction"                      *)
(* (src/scripts/agent/execute.ts:66).  An accepted intent may be given one *)
(* transaction; no transaction is shared; none is ever added to an intent  *)
(* that has one, whatever became of it.                                    *)
(***************************************************************************)
CONSTANTS Intents, Txs

VARIABLES
    accepted,   \* intents someone was told are queued, or approved
    txs         \* txs[i]: the transactions whose bytes were sent for i

Init == accepted = {} /\ txs = [i \in Intents |-> {}]

Accept(S) ==
    /\ S \subseteq Intents \ accepted
    /\ accepted' = accepted \cup S
    /\ UNCHANGED txs

Submit(i, t) ==
    /\ i \in accepted
    /\ txs[i] = {}
    /\ \A k \in Intents : t \notin txs[k]
    /\ txs' = [txs EXCEPT ![i] = {t}]
    /\ UNCHANGED accepted

Next ==
    \/ \E S \in SUBSET Intents : Accept(S)
    \/ \E i \in Intents, t \in Txs : Submit(i, t)

Spec == Init /\ [][Next]_<<accepted, txs>>
=============================================================================
