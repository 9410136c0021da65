--------------------------- MODULE MCSignerDaemon ---------------------------
(* Small instances of the signer daemon for TLC. *)
EXTENDS SignerDaemon, TLC

CONSTANTS r1, r2, r3, reset, mainnet

OneStrategy == [i \in Intent |-> "strategy"]
OneChain == [i \in Intent |-> IF i = reset THEN mainnet ELSE "base"]

\* Every submission is an intent of its own.
Distinct == [i \in Intent |-> i]

\* The second submission resends the first, unchanged.
SecondResendsFirst == [i \in Intent |-> IF i = r2 THEN r1 ELSE i]

AllTrades == [r \in Request |-> "trade"]

\* An approval, then the unwind it is for, and a trade.
ApprovalUnwindTrade ==
    [r \in Request |-> IF r = r1 THEN "approve" ELSE IF r = r2 THEN "unwind" ELSE "trade"]

EachCostsTwo == [i \in Intent |-> IF i = reset THEN 0 ELSE 2]

\* The requests of an instance that differ in nothing.
Alike == Permutations(Request)

\* After the watcher's pair the daemon stays up and the kill switch off: the
\* mixed instance has what is left out.
QuietAfterPair == outcomes # {} => up /\ ~kill

\* Instances whose requests are made one after the other.
OneAtATime == Cardinality({r \in Request : pc[r] \in Active}) <= 1

\* ... with the daemon up, the kill switch off, a record of every run, no reset
\* before a failure, no phantom, no receipt but that of a transaction the daemon
\* confirmed, and a watcher that follows only runs that are over: the other
\* instances have them all.
PlainSequence ==
    /\ OneAtATime /\ up /\ ~kill
    /\ \A r \in Request : /\ tx[r] # "phantom"
                          /\ pc[r] \in Over => \E n \in DOMAIN log : log[n].intent = r
    /\ \A n \in DOMAIN log : IsReset(log[n]) => \E m \in 1 .. n : Classify(log[m]) = "failed"
    /\ \A r \in receipts : HasRecord(r, "confirmed") /\ ~\E o \in outcomes : o[1] = r
    /\ \A o \in outcomes : pc[o[1]] \in Over
=============================================================================
