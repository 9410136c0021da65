---------------------------- MODULE RefillProofs ----------------------------
(***************************************************************************)
(* Proofs about refill jobs, for every value of the constants.             *)
(***************************************************************************)
EXTENDS Refill, SequenceTheorems, TLAPS

-----------------------------------------------------------------------------
(* The inductive invariant.                                                *)

\* What is known of a child by where it is.
ChildInv(p) ==
    LET c == child[p] IN
    /\ c.at # "none" => c.job \in Resources
    /\ c.at \in {"preparing", "sending", "recording"} => c.method \in Methods
    /\ c.at = "recording" => c.status # "none"
    /\ p = "operator" => c.at # "ended"

\* The autopilot's child is of the round, and is started by its preview or its
\* execution of a job that it has taken.
MineInv ==
    /\ Mine.at # "none" <=> pc \in {"previewing", "executing"}
    /\ Mine.at # "none" => Mine.job \notin todo
    /\ Mine.at \notin {"none", "ended"} => Mine.round = round
    /\ Mine.at \in {"sending", "recording"} => pc = "executing"
    /\ Mine.at \in {"resolving", "preparing"} =>
          ~Mine.ready /\ (Mine.execute <=> pc = "executing")
    /\ \A o \in orphans : o[3] <= round
    /\ \A p \in Runners : child[p].round <= round

\* The job has debited the source in this round, or may do so yet.
Spent(r) == debits[r]["autopilot"] > 0 \/ <<"autopilot", r, round>> \in orphans

\* Only swaps are left, which throw when they fail.
SwapsLeft(c) ==
    /\ c.leg <= Len(Legs[c.method])
    /\ \A i \in c.leg..Len(Legs[c.method]) : Legs[c.method][i] = "swap"

\* The run that spent will not be repeated: its report forbids a retry, or will,
\* or the journal closes the gate.
Settled ==
    \/ Mine.at = "sending" /\ Mine.leg > 1 /\ (Mine.shows \/ SwapsLeft(Mine))
    \/ Mine.at = "recording" /\ (Mine.shows \/ Mine.reason # "retryable" \/ Mine.status = "failed")
    \/ /\ Mine.at = "ended" /\ pc = "executing"
       /\ Mine.shows \/ Mine.reason # "retryable" \/ journal[Mine.job].latest = "failed"
    \/ pc = "previewing" /\ Mine.at = "resolving" /\ Mine.method # None /\ Mine.seen.latest = "failed"
    \/ pc = "previewing" /\ Mine.at = "ended" /\ ~Mine.ready /\ Mine.reason # "retryable"

SpentInv ==
    /\ child["operator"].at = "none"
    /\ \A r \in Resources :
          /\ debits[r]["autopilot"] <= 1
          /\ debits[r]["autopilot"] > 0 => <<"autopilot", r, round>> \notin orphans
          /\ Spent(r) => r \notin todo /\ (Mine.at # "none" /\ Mine.job = r => Settled)

\* What the current run spent will be reserved.
Owing ==
    \/ indebted
    \/ Mine.at = "sending" /\ Mine.leg > 1 /\ (Mine.shows \/ SwapsLeft(Mine))
    \/ Mine.at = "recording" /\ MayHaveDebited(Mine)
    \/ Mine.at = "ended" /\ pc = "executing" /\ MayHaveDebited(Mine)

OwedInv ==
    \A r \in Resources :
        Spent(r) => /\ r \notin todo
                    /\ r \in reserved \cup unshown \/ (Mine.at # "none" /\ Mine.job = r /\ Owing)

TInv == TypeOK /\ (\A p \in Runners : ChildInv(p)) /\ MineInv

IInv == TInv /\ (manual = 0 => SpentInv) /\ OwedInv

-----------------------------------------------------------------------------
(* Types.                                                                  *)

LEMMA CandidateFacts ==
    ASSUME NEW r \in Resources
    PROVE  /\ MethodsOf(r) \subseteq Methods
           /\ Candidates[r][1] \in MethodsOf(r)
           /\ \A seen \in Entry : ActiveMethod(r, seen) \in Methods
           /\ \A m \in Methods : NextCandidate(r, m) \in Methods \cup {None}
  <1>1. MethodsOf(r) \subseteq Methods
    BY DEF Methods
  <1>2. 1 \in 1..Len(Candidates[r]) /\ \A i \in 2..Len(Candidates[r]) : i \in 1..Len(Candidates[r])
    BY RefillAssumption DEF RefillAssumption
  <1>3. Candidates[r][1] \in MethodsOf(r)
    BY <1>2 DEF MethodsOf
  <1>4. ASSUME NEW seen \in Entry PROVE ActiveMethod(r, seen) \in Methods
    BY <1>1, <1>3 DEF ActiveMethod, Entry
  <1>5. ASSUME NEW m \in Methods PROVE NextCandidate(r, m) \in Methods \cup {None}
    <2> DEFINE next == {i \in 2..Len(Candidates[r]) : Candidates[r][i - 1] = m}
    <2>1. CASE next # {}
      <3>1. (CHOOSE i \in next : TRUE) \in next
        BY <2>1
      <3>2. (CHOOSE i \in next : TRUE) \in 1..Len(Candidates[r])
        BY <3>1, <1>2
      <3>3. NextCandidate(r, m) = Candidates[r][CHOOSE i \in next : TRUE]
        BY <2>1 DEF NextCandidate
      <3> HIDE DEF next
      <3> QED
        BY <1>1, <3>2, <3>3 DEF MethodsOf
    <2>2. CASE next = {}
      <3>1. NextCandidate(r, m) = IF m = Lifi /\ Intermediate \in MethodsOf(r) THEN Intermediate
                                  ELSE None
        BY <2>2 DEF NextCandidate
      <3> QED
        BY <1>1, <3>1
    <2> QED
      BY <2>1, <2>2
  <1> QED
    BY <1>1, <1>3, <1>4, <1>5

LEMMA EntryTypes ==
    ASSUME journal \in [Resources -> Entry], NEW r \in Resources, NEW n
    PROVE  /\ \A status \in Statuses : Append1(r, n, status) \in Entry
           /\ \A status \in Outcomes, m \in Methods : Outcome(r, n, m, status) \in Entry
  <1>1. ASSUME NEW status \in Statuses PROVE Append1(r, n, status) \in Entry
    BY DEF Append1, Entry
  <1>2. ASSUME NEW status \in Outcomes, NEW m \in Methods
        PROVE  Outcome(r, n, m, status) \in Entry
    <2> DEFINE e == Append1(r, n, status)
               streak == IF ~Failing(status) THEN 0
                         ELSE IF e.fails[m] < Threshold THEN e.fails[m] + 1 ELSE e.fails[m]
    <2>1. e \in Entry
      BY <1>1 DEF Statuses
    <2>2. e.fails \in [Methods -> 0..Threshold] /\ e.fails[m] \in 0..Threshold
      BY <2>1 DEF Entry
    <2>3. streak \in 0..Threshold
      BY <2>2, RefillAssumption DEF RefillAssumption
    <2>4. Outcome(r, n, m, status) = [e EXCEPT !.fails[m] = streak]
      BY DEF Outcome
    <2> HIDE DEF e, streak
    <2>5. [e.fails EXCEPT ![m] = streak] \in [Methods -> 0..Threshold]
      BY <2>2, <2>3
    <2>6. [e EXCEPT !.fails = [e.fails EXCEPT ![m] = streak]] \in Entry
      BY <2>1, <2>5 DEF Entry
    <2> QED
      BY <2>4, <2>6
  <1> QED
    BY <1>1, <1>2

LEMMA NoChildType == NoEntry \in Entry /\ NoChild \in Child
  <1>1. NoEntry \in Entry
    BY RefillAssumption DEF RefillAssumption, NoEntry, Entry, Statuses
  <1>2. 0 \in 0..MaxRounds /\ 1 \in Nat \ {0}
    BY RefillAssumption DEF RefillAssumption
  <1> QED
    BY <1>1, <1>2 DEF NoChild, Child

\* A step of a run changes its child in a way that fits its type and its place.
Moves(p) ==
    /\ child' = [child EXCEPT ![p] = child'[p]]
    /\ child'[p] \in Child /\ ChildInv(p)'
    /\ child'[p].round \in {child[p].round, 0}
    /\ p = "autopilot" =>
          /\ child[p].at \in {"resolving", "preparing", "sending", "recording"}
          /\ child'[p].at # "none" /\ child'[p].job = child[p].job
          /\ child'[p].at # "ended" => child'[p].round = child[p].round
          /\ child'[p].at \in {"sending", "recording"} =>
                child[p].at \in {"sending", "recording"} \/ child[p].execute
          /\ child'[p].at \in {"resolving", "preparing"} =>
                child[p].at \in {"resolving", "preparing"}
                /\ child'[p].execute = child[p].execute /\ child'[p].ready = child[p].ready

\* What a leg leaves in its run.
Told(c, at, leg, status, shows, reason) ==
    [c EXCEPT !.shows = shows, !.leg = leg, !.at = at, !.status = status, !.reason = reason]

LEMMA ToldType ==
    ASSUME NEW c \in Child, NEW leg \in Nat \ {0}, NEW at \in {"sending", "recording"},
           NEW status \in Outcomes \cup {"none"},
           NEW reason \in {"none", "retryable", "timeout", "other"}, NEW shows \in BOOLEAN,
           NEW d, d = Told(c, at, leg, status, shows, reason)
    PROVE  /\ d \in Child
           /\ d.at = at /\ d.status = status
           /\ d.job = c.job /\ d.method = c.method /\ d.round = c.round
  <1>1. [c EXCEPT !.shows = shows] \in Child
    BY DEF Child
  <1>2. [[c EXCEPT !.shows = shows] EXCEPT !.leg = leg] \in Child
    BY <1>1 DEF Child
  <1>3. [[[c EXCEPT !.shows = shows] EXCEPT !.leg = leg] EXCEPT !.at = at] \in Child
    BY <1>2 DEF Child
  <1>6. [[[[c EXCEPT !.shows = shows] EXCEPT !.leg = leg] EXCEPT !.at = at]
              EXCEPT !.status = status] \in Child
    BY <1>3 DEF Child
  <1>4. d \in Child
    BY <1>6 DEF Child, Told
  <1>5. /\ d.at = at /\ d.status = status
        /\ d.job = c.job /\ d.method = c.method /\ d.round = c.round
    BY DEF Child, Told
  <1> QED
    BY <1>4, <1>5

LEMMA RunMoves ==
    ASSUME TInv, NEW p \in Runners, Run(p)
    PROVE  Moves(p)
  <1> DEFINE c == child[p]
  <1>0. /\ child \in [Runners -> Child] /\ child[p] \in Child /\ ChildInv(p)
        /\ journal \in [Resources -> Entry]
    BY DEF TInv, TypeOK
  <1>1. NoEntry \in Entry /\ NoChild \in Child
    BY NoChildType
  <1>2. ASSUME NEW d \in Child, child' = [child EXCEPT ![p] = d],
               \/ p = "operator" /\ d = NoChild
               \/ /\ d.at # "none" /\ d.job = child[p].job
                  /\ child[p].at \in {"resolving", "preparing", "sending", "recording"}
                  /\ p = "operator" => d.at # "ended"
                  /\ d.at \in {"preparing", "sending", "recording"} => d.method \in Methods
                  /\ d.at = "recording" => d.status # "none"
                  /\ d.round = child[p].round
                  /\ d.at \in {"sending", "recording"} =>
                        child[p].at \in {"sending", "recording"} \/ child[p].execute
                  /\ d.at \in {"resolving", "preparing"} =>
                        child[p].at \in {"resolving", "preparing"}
                        /\ d.execute = child[p].execute /\ d.ready = child[p].ready
        PROVE  Moves(p)
    <2>1. child'[p] = d
      BY <1>0, <1>2
    <2>2. child' = [child EXCEPT ![p] = child'[p]]
      BY <2>1, <1>2
    <2>3. child[p].at # "none" => child[p].job \in Resources
      BY <1>0 DEF ChildInv
    <2>4. ChildInv(p)'
      BY <2>1, <2>3, <1>2 DEF ChildInv, NoChild
    <2> QED
      BY <2>1, <2>2, <2>4, <1>2 DEF Moves, NoChild
  <1>18. ASSUME NEW d \in Child, Over(p, d), d.job = child[p].job, d.round = child[p].round,
                child[p].at \in {"resolving", "preparing", "sending", "recording"}
         PROVE  Moves(p)
    <2>1. CASE p = "operator"
      <3>1. child' = [child EXCEPT ![p] = NoChild]
        BY <1>18, <2>1 DEF Over
      <3> QED
        BY <1>2, <1>1, <2>1, <3>1
    <2>2. CASE p # "operator"
      <3> DEFINE e == [d EXCEPT !.at = "ended", !.seen = NoEntry, !.leg = 1]
      <3>1. child' = [child EXCEPT ![p] = e]
        BY <1>18, <2>2 DEF Over
      <3>3. ASSUME NEW leg \in Nat \ {0}
            PROVE  [d EXCEPT !.at = "ended", !.seen = NoEntry, !.leg = leg] \in Child
        BY <1>1, <1>18 DEF Child
      <3>4. 1 \in Nat \ {0}
        OBVIOUS
      <3>2. e \in Child /\ e.at = "ended" /\ e.job = d.job /\ e.round = d.round
        BY <3>3, <3>4, <1>18 DEF Child
      <3> HIDE DEF e
      <3> QED
        BY <1>2, <1>18, <2>2, <3>1, <3>2
    <2> QED
      BY <2>1, <2>2
  <1>3. ASSUME NEW reason \in {"none", "retryable", "timeout", "other"}, Stops(p, reason),
               child[p].at \in {"resolving", "preparing"}
        PROVE  Moves(p)
    <2>1. [child[p] EXCEPT !.reason = reason] \in Child
          /\ [child[p] EXCEPT !.reason = reason].job = child[p].job
          /\ [child[p] EXCEPT !.reason = reason].round = child[p].round
      BY <1>0, <1>3 DEF Child
    <2> QED
      BY <1>18, <1>3, <2>1 DEF Stops
  <1>4. CASE FallsBack(p)
    <2>4. c.job \in Resources
      BY <1>4, <1>0 DEF FallsBack, At, ChildInv
    <2>1. PICK next \in Methods :
            child' = [child EXCEPT ![p].at = "preparing", ![p].method = next, ![p].seen = NoEntry]
      BY <1>4, <1>0, <2>4, CandidateFacts DEF FallsBack, FallbackDue, Child
    <2> DEFINE d == [c EXCEPT !.at = "preparing", !.method = next, !.seen = NoEntry]
    <2>2. /\ d \in Child /\ d.at = "preparing" /\ d.method = next /\ d.job = c.job
          /\ d.round = c.round /\ d.execute = c.execute /\ d.ready = c.ready
      BY <1>0, <1>1 DEF Child
    <2>3. child' = [child EXCEPT ![p] = d] /\ c.at = "resolving"
      BY <2>1, <1>0, <1>4 DEF FallsBack, At
    <2> HIDE DEF d
    <2> QED
      BY <1>2, <2>2, <2>3
  <1>5. CASE Admits(p)
    <2>5. c.job \in Resources
      BY <1>5, <1>0 DEF Admits, At, ChildInv
    <2>1. ActiveMethod(c.job, c.seen) \in Methods
      BY <1>0, <2>5, CandidateFacts DEF Child
    <2>2. PICK m \in Methods :
            child' = [child EXCEPT ![p].at = "preparing", ![p].method = m, ![p].seen = NoEntry]
      BY <1>5, <1>0, <2>1 DEF Admits, Child
    <2> DEFINE d == [c EXCEPT !.at = "preparing", !.method = m, !.seen = NoEntry]
    <2>3. /\ d \in Child /\ d.at = "preparing" /\ d.method = m /\ d.job = c.job
          /\ d.round = c.round /\ d.execute = c.execute /\ d.ready = c.ready
      BY <1>0, <1>1 DEF Child
    <2>4. child' = [child EXCEPT ![p] = d] /\ c.at = "resolving"
      BY <2>2, <1>0, <1>5 DEF Admits, At
    <2> HIDE DEF d
    <2> QED
      BY <1>2, <2>3, <2>4
  <1>6. CASE Refuses(p)
    BY <1>6, <1>3 DEF Refuses, At
  <1>7. CASE Blocks(p)
    BY <1>7, <1>3 DEF Blocks, At
  <1>8. CASE Throws(p)
    BY <1>8, <1>3 DEF Throws, At
  <1>9. CASE Prepares(p)
    <2>1. CASE child[p].execute
      <3> DEFINE d == [[c EXCEPT !.ready = TRUE] EXCEPT !.at = "sending"]
      <3>1. /\ d \in Child /\ d.at = "sending" /\ d.method = c.method /\ d.job = c.job
            /\ d.round = c.round
        BY <1>0 DEF Child
      <3>2. child' = [child EXCEPT ![p] = d] /\ c.at = "preparing"
        BY <2>1, <1>0, <1>9 DEF Prepares, At, Child
      <3>3. c.method \in Methods
        BY <3>2, <1>0 DEF ChildInv
      <3> HIDE DEF d
      <3> QED
        BY <1>2, <2>1, <3>1, <3>2, <3>3
    <2>2. CASE ~child[p].execute
      <3> DEFINE d == [c EXCEPT !.ready = TRUE]
      <3>1. d \in Child /\ d.job = c.job /\ d.execute = c.execute /\ d.round = c.round
        BY <1>0 DEF Child
      <3>2. /\ c.at = "preparing"
            /\ IF d.execute THEN child' = [child EXCEPT ![p] = [d EXCEPT !.at = "sending"]]
                            ELSE Over(p, d)
        BY <1>9 DEF Prepares, At
      <3> HIDE DEF d
      <3> QED
        BY <1>18, <2>2, <3>1, <3>2
    <2> QED
      BY <2>1, <2>2
  <1>12. ASSUME NEW d \in Child, child' = [child EXCEPT ![p] = d], child[p].at = "sending",
                d.at \in {"sending", "recording"}, d.at = "recording" => d.status # "none",
                d.job = child[p].job, d.method = child[p].method, d.round = child[p].round
         PROVE  Moves(p)
    BY <1>12, <1>2, <1>0 DEF ChildInv
  <1>20. ASSUME NEW leg \in Nat \ {0}, NEW at \in {"sending", "recording"},
                NEW status \in Outcomes \cup {"none"},
                NEW reason \in {"none", "retryable", "timeout", "other"},
                NEW shows \in BOOLEAN,
                child' = [child EXCEPT ![p] = Told(c, at, leg, status, shows, reason)],
                child[p].at = "sending", at = "recording" => status # "none"
         PROVE  Moves(p)
    <2>3. c \in Child
      BY <1>0
    <2>4. PICK d : d = Told(c, at, leg, status, shows, reason)
      OBVIOUS
    <2> HIDE DEF c
    <2>6. d \in Child
      BY <2>3, <2>4, ToldType
    <2>5. d.at = at /\ d.status = status
      BY <2>3, <2>4 DEF Told, Child
    <2>1. d.job = c.job /\ d.method = c.method /\ d.round = c.round
      BY <2>3, <2>4, ToldType
    <2> USE DEF c
    <2>2. child' = [child EXCEPT ![p] = d]
      BY <1>20, <2>4
    <2> QED
      BY <1>12, <1>20, <2>1, <2>2, <2>5, <2>6
  <1>19. ASSUME NEW status \in Outcomes, NEW shows \in BOOLEAN,
                NEW reason \in {"none", "retryable", "timeout", "other"},
                child' = [child EXCEPT ![p].at = "recording", ![p].status = status, ![p].leg = 1,
                              ![p].shows = shows, ![p].reason = reason],
                child[p].at = "sending"
         PROVE  Moves(p)
    <2>1. child' = [child EXCEPT ![p] = Told(c, "recording", 1, status, shows, reason)]
      BY <1>19, <1>0 DEF Told
    <2>2. 1 \in Nat \ {0} /\ "recording" \in {"sending", "recording"}
          /\ status \in Outcomes \cup {"none"} /\ status # "none"
      BY DEF Outcomes
    <2>3. c.at = "sending"
      BY <1>19
    <2> QED
      BY <1>20, <2>1, <2>2, <2>3
  <1>21. ASSUME NEW leg \in Nat \ {0}, NEW at \in {"sending", "recording"},
                NEW status \in Outcomes \cup {"none"},
                NEW reason \in {"none", "retryable", "timeout", "other"},
                Confirmed(p, leg, at, status, reason), at = "recording" => status # "none"
         PROVE  Moves(p)
    <2> DEFINE shows == c.shows \/ LegKind(c) # "gateway"
    <2>1. c.at = "sending" /\ shows \in BOOLEAN
      BY <1>21 DEF Confirmed, Sending, At
    <2>2. child' = [child EXCEPT ![p] = Told(c, at, leg, status, shows, reason)]
      BY <1>21, <1>0 DEF Confirmed, Told
    <2> QED
      BY <2>1, <2>2, <1>20, <1>21
  <1>10. CASE LegConfirms(p)
    <2>1. c.leg + 1 \in Nat \ {0} /\ c.status \in Outcomes \cup {"none"}
          /\ c.reason \in {"none", "retryable", "timeout", "other"}
      BY <1>0 DEF Child
    <2> QED
      BY <1>10, <1>21, <2>1 DEF LegConfirms
  <1>11. CASE Settles(p)
    BY <1>11, <1>21 DEF Settles, Outcomes
  <1>13. CASE LegIsShort(p)
    BY <1>13, <1>19 DEF LegIsShort, Sending, At, Thrown, Outcomes
  <1>14. CASE SwapFails(p)
    BY <1>14, <1>19 DEF SwapFails, Sending, At, Thrown, Outcomes
  <1>15. CASE BridgeFails(p)
    <2>1. PICK answer \in {"rejected", "error", "sent", "reverted"},
               status \in IF LegKind(c) = "gateway" THEN {"signer_error"}
                                                 ELSE {"failed", "signer_error"},
               reason \in {"retryable", "other"} :
            /\ answer \in {"sent", "reverted"} => reason = "other"
            /\ Leg(p, answer = "sent")
            /\ LET shows == c.shows \/ (answer = "reverted" /\ LegKind(c) = "bridge") IN
               /\ child' = [child EXCEPT
                     ![p].status = IF answer = "rejected" THEN "signer_rejected" ELSE status,
                     ![p].shows = shows,
                     ![p].reason = reason,
                     ![p].leg = IF LastLeg(c) THEN 1 ELSE @ + 1,
                     ![p].at = IF LastLeg(c) THEN "recording" ELSE @]
               /\ unshown' = IF answer = "sent" /\ ~shows /\ p = "autopilot" /\ c.round = round
                             THEN unshown \cup {c.job} ELSE unshown
      BY <1>15 DEF BridgeFails
    <2> DEFINE shows == c.shows \/ (answer = "reverted" /\ LegKind(c) = "bridge")
               leg == IF LastLeg(c) THEN 1 ELSE c.leg + 1
               at == IF LastLeg(c) THEN "recording" ELSE "sending"
               result == IF answer = "rejected" THEN "signer_rejected" ELSE status
    <2>2. c.at = "sending"
      BY <1>15 DEF BridgeFails, Sending, At
    <2>3. child' = [child EXCEPT ![p] = Told(c, at, leg, result, shows, reason)]
      <3> DEFINE e == [c EXCEPT !.status = result, !.shows = shows, !.reason = reason,
                               !.leg = leg, !.at = at]
      <3>1. child' = [child EXCEPT ![p] = e]
        BY <2>1, <2>2, <1>0
      <3>2. e = Told(c, at, leg, result, shows, reason)
        BY DEF Told
      <3> QED
        BY <3>1, <3>2
    <2>4. /\ shows \in BOOLEAN /\ leg \in Nat \ {0} /\ at \in {"sending", "recording"}
          /\ result \in Outcomes /\ result # "none"
      BY <1>0 DEF Child, Outcomes
    <2> HIDE DEF shows, leg, at, result
    <2> QED
      BY <1>20, <2>2, <2>3, <2>4
  <1>16. CASE LegTimesOut(p)
    BY <1>16, <1>19 DEF LegTimesOut, Sending, At, Outcomes
  <1>17. CASE Records(p)
    BY <1>17, <1>0, <1>18 DEF Records, At
  <1> QED
    BY <1>4, <1>5, <1>6, <1>7, <1>8, <1>9, <1>10, <1>11, <1>13, <1>14, <1>15, <1>16, <1>17 DEF Run

LEMMA DebitTypes ==
    ASSUME TypeOK, NEW p \in Runners, NEW r \in Resources, NEW n, Debits(p, r, n) \/ NoDebit
    PROVE  /\ source' \in 0..MaxSource
           /\ debits' \in [Resources -> [Runners -> Nat]]
           /\ debits' # debits =>
                n = round /\ debits' = [debits EXCEPT ![r][p] = @ + 1] /\ source' # source
           /\ source' # source => Debits(p, r, n)
  <1>1. source \in 0..MaxSource /\ debits \in [Resources -> [Runners -> Nat]]
    BY DEF TypeOK
  <1>2. Need \in Nat \ {0} /\ MaxSource \in Nat
    BY RefillAssumption DEF RefillAssumption
  <1>3. CASE NoDebit
    BY <1>1, <1>3 DEF NoDebit
  <1>4. CASE Debits(p, r, n)
    <2>1. source' \in 0..MaxSource /\ source' # source
      BY <1>1, <1>2, <1>4 DEF Debits
    <2>2. debits[r] \in [Runners -> Nat] /\ debits[r][p] + 1 \in Nat
      BY <1>1
    <2>3. [debits EXCEPT ![r][p] = @ + 1] \in [Resources -> [Runners -> Nat]]
      BY <1>1, <2>2
    <2> QED
      BY <1>1, <1>4, <2>1, <2>3 DEF Debits
  <1> QED
    BY <1>3, <1>4

\* What a step of a run does to the rest.
Touches(p) ==
    /\ Elsewhere
    /\ child[p].at # "none" /\ child[p].job \in Resources
    /\ journal' \in [Resources -> Entry]
    /\ orphans' \in {orphans, Orphaned(p)}
    /\ \/ Debits(p, child[p].job, child[p].round)
       \/ NoDebit
    /\ unshown' \in {unshown, unshown \cup {child[p].job}}

LEMMA RunTouches ==
    ASSUME TInv, NEW p \in Runners, Run(p)
    PROVE  Touches(p)
  <1> DEFINE c == child[p]
  <1>0. /\ c \in Child /\ ChildInv(p) /\ c.method \in Methods \cup {None}
        /\ journal \in [Resources -> Entry]
    BY DEF TInv, TypeOK, Child
  <1>1. ASSUME c.at # "none" PROVE c.job \in Resources
    BY <1>0, <1>1 DEF ChildInv
  <1>2. ASSUME c.at \in {"preparing", "sending", "recording"} PROVE c.method \in Methods
    BY <1>0, <1>2 DEF ChildInv
  <1>3. ASSUME NEW e \in Entry, c.at # "none"
        PROVE  [journal EXCEPT ![c.job] = e] \in [Resources -> Entry]
    BY <1>0
  <1>4. ASSUME NEW status \in Statuses, c.at # "none" PROVE Append1(c.job, c.round, status) \in Entry
    BY <1>0, <1>1, <1>4, EntryTypes
  <1>5. {"blocked", "context_captured", "fallback_triggered"} \subseteq Statuses
    BY DEF Statuses, Outcomes
  <1>6. CASE FallsBack(p)
    <2> DEFINE next == NextCandidate(c.job, ActiveMethod(c.job, c.seen))
               e == Append1(c.job, c.round, "fallback_triggered")
    <2>1. c.at = "resolving" /\ next # None
          /\ journal' = [journal EXCEPT ![c.job] = [e EXCEPT !.active = next]]
          /\ Elsewhere /\ UNCHANGED <<source, orphans, history>>
      BY <1>6 DEF FallsBack, At, FallbackDue
    <2>2. next \in Methods
      BY <1>0, <1>1, <2>1, CandidateFacts DEF Child
    <2>3. e \in Entry
      BY <2>1, <1>4, <1>5
    <2> HIDE DEF next, e
    <2>4. [e EXCEPT !.active = next] \in Entry
      BY <2>2, <2>3 DEF Entry
    <2> QED
      BY <2>1, <2>4, <1>1, <1>3 DEF Touches, NoDebit, history
  <1>7. CASE Admits(p) \/ Refuses(p) \/ Throws(p)
    BY <1>7, <1>0, <1>1 DEF Admits, Refuses, Throws, At, Touches, NoDebit, history
  <1>8. CASE Blocks(p)
    BY <1>8, <1>1, <1>3, <1>4, <1>5 DEF Blocks, At, Touches, NoDebit, history
  <1>9. CASE Prepares(p)
    BY <1>9, <1>1, <1>3, <1>4, <1>5 DEF Prepares, At, Touches, NoDebit, history
  <1>10. ASSUME NEW broadcast, Leg(p, broadcast)
         PROVE  Debits(p, c.job, c.round) \/ NoDebit
    BY <1>10 DEF Leg
  <1>11. CASE LegConfirms(p) \/ Settles(p)
    BY <1>11, <1>0, <1>1, <1>10 DEF LegConfirms, Settles, Confirmed, Sending, At, Touches
  <1>12. ASSUME NEW status, NEW shows, NEW reason, Thrown(p, status, shows, reason)
         PROVE  unshown' \in {unshown, unshown \cup {c.job}}
    BY <1>12 DEF Thrown
  <1>13. CASE LegIsShort(p)
    BY <1>13, <1>0, <1>1, <1>12 DEF LegIsShort, Sending, At, Touches
  <1>14. CASE SwapFails(p)
    BY <1>14, <1>0, <1>1, <1>10, <1>12 DEF SwapFails, Sending, At, Touches
  <1>15. CASE BridgeFails(p)
    <2>1. /\ c.at = "sending" /\ Elsewhere /\ UNCHANGED journal /\ UNCHANGED orphans
      BY <1>15 DEF BridgeFails, Sending, At
    <2>2. Debits(p, c.job, c.round) \/ NoDebit
      BY <1>15, <1>10 DEF BridgeFails
    <2>3. unshown' \in {unshown, unshown \cup {c.job}}
      BY <1>15 DEF BridgeFails
    <2> QED
      BY <2>1, <2>2, <2>3, <1>0, <1>1 DEF Touches
  <1>16. CASE LegTimesOut(p)
    BY <1>16, <1>0, <1>1 DEF LegTimesOut, Sending, At, Touches
  <1>17. CASE Records(p)
    <2>1. /\ c.at = "recording" /\ Elsewhere /\ UNCHANGED <<source, orphans, history>>
          /\ journal' = [journal EXCEPT ![c.job] = Outcome(c.job, c.round, c.method, c.status)]
      BY <1>17 DEF Records, At
    <2>2. c.status \in Outcomes
      BY <1>0, <2>1 DEF ChildInv, Child
    <2>3. Outcome(c.job, c.round, c.method, c.status) \in Entry
      BY <2>1, <2>2, <1>0, <1>1, <1>2, EntryTypes
    <2> QED
      BY <2>1, <2>3, <1>1, <1>3 DEF Touches, NoDebit, history
  <1> QED
    BY <1>6, <1>7, <1>8, <1>9, <1>11, <1>13, <1>14, <1>15, <1>16, <1>17 DEF Run

LEMMA RunTInv ==
    ASSUME TInv, NEW p \in Runners, Run(p)
    PROVE  TInv'
  <1>1. Moves(p) /\ Touches(p)
    BY RunMoves, RunTouches
  <1>2. TypeOK /\ MineInv /\ (\A q \in Runners : ChildInv(q))
    BY DEF TInv
  <1>3. child[p].round \in 0..MaxRounds /\ child \in [Runners -> Child]
    BY <1>2 DEF TypeOK, Child
  <1>4. child' \in [Runners -> Child] /\ \A q \in Runners \ {p} : child'[q] = child[q]
    BY <1>1, <1>3 DEF Moves
  <1>5. source' \in 0..MaxSource /\ debits' \in [Resources -> [Runners -> Nat]]
    BY <1>1, <1>2, DebitTypes DEF Touches
  <1>6. orphans' \subseteq Runners \X Resources \X (0..MaxRounds)
    BY <1>1, <1>2, <1>3 DEF Touches, Orphaned, TypeOK
  <1>7. TypeOK'
    BY <1>1, <1>2, <1>4, <1>5, <1>6 DEF TypeOK, Touches, Elsewhere, auto
  <1>8. ASSUME NEW q \in Runners PROVE ChildInv(q)'
    BY <1>1, <1>2, <1>4 DEF ChildInv, Moves
  <1>9. \A o \in orphans' : o \in orphans \/ o = <<p, child[p].job, child[p].round>>
    BY <1>1 DEF Touches, Orphaned
  <1>12. \A o \in orphans' : o[3] <= round
    BY <1>2, <1>9 DEF MineInv
  <1>13. \A q \in Runners : child'[q].round <= round
    BY <1>1, <1>2, <1>3, <1>4 DEF MineInv, Moves, TypeOK
  <1>10. CASE p = "operator"
    <2>1. UNCHANGED <<Mine, round, pc, todo>>
      BY <1>10, <1>1, <1>4 DEF Mine, Touches, Elsewhere, auto, Runners
    <2> QED
      BY <2>1, <1>7, <1>8, <1>12, <1>13, <1>2 DEF MineInv, TInv
  <1>11. CASE p = "autopilot"
    <2>1. UNCHANGED <<round, pc, todo>> /\ Mine = child[p] /\ Mine' = child'[p]
      BY <1>11, <1>1 DEF Mine, Touches, Elsewhere, auto
    <2>2. MineInv'
      <3>1. Mine.at \in {"resolving", "preparing", "sending", "recording"} /\ Mine'.at # "none"
            /\ Mine'.job = Mine.job
        BY <2>1, <1>11, <1>1 DEF Moves
      <3>2. Mine'.at # "ended" => Mine'.round = Mine.round
        BY <2>1, <1>11, <1>1 DEF Moves
      <3>3. Mine'.at \in {"sending", "recording"} =>
                Mine.at \in {"sending", "recording"} \/ Mine.execute
        BY <2>1, <1>11, <1>1 DEF Moves
      <3>4. Mine'.at \in {"resolving", "preparing"} =>
                Mine.at \in {"resolving", "preparing"}
                /\ Mine'.execute = Mine.execute /\ Mine'.ready = Mine.ready
        BY <2>1, <1>11, <1>1 DEF Moves
      <3> QED
        BY <2>1, <3>1, <3>2, <3>3, <3>4, <1>12, <1>13, <1>2 DEF MineInv
    <2> QED
      BY <2>2, <1>7, <1>8 DEF TInv
  <1> QED
    BY <1>10, <1>11 DEF Runners

\* A child the autopilot starts for the job r.
LEMMA StartTypes ==
    ASSUME TInv, NEW r \in Resources, r \notin todo', round' = round,
           NEW m \in Methods \cup {None}, NEW execute \in BOOLEAN, Starts(r, m, execute),
           pc' = IF execute THEN "executing" ELSE "previewing", UNCHANGED orphans
    PROVE  /\ child' \in [Runners -> Child]
           /\ \A q \in Runners : ChildInv(q)'
           /\ MineInv'
           /\ Mine' = Launched(r, m, execute)
           /\ child'["operator"] = child["operator"]
  <1>1. /\ child \in [Runners -> Child] /\ journal[r] \in Entry /\ round \in 0..MaxRounds
        /\ NoChild \in Child
    BY NoChildType DEF TInv, TypeOK
  <1> DEFINE d == Launched(r, m, execute)
  <1>2. Mine' = d /\ child'["operator"] = child["operator"]
    BY <1>1 DEF Starts, Mine, Runners
  <1>3. d \in Child /\ d.at = "resolving" /\ d.job = r /\ d.round = round
    BY <1>1 DEF Launched, Child
  <1>4. ~d.ready /\ (d.execute <=> execute)
    BY <1>1 DEF Launched, NoChild, Child
  <1>5. child' \in [Runners -> Child]
    BY <1>1, <1>3 DEF Starts
  <1> HIDE DEF d
  <1>6. \A q \in Runners : ChildInv(q)'
    <2>1. ChildInv("autopilot")'
      BY <1>1, <1>2, <1>3 DEF ChildInv, Mine
    <2>2. ChildInv("operator")'
      BY <1>2 DEF ChildInv, TInv, Runners
    <2> QED
      BY <2>1, <2>2 DEF Runners
  <1>7. MineInv'
    <2>1. execute <=> pc' = "executing"
      OBVIOUS
    <2>2. \A q \in Runners : child'[q].round <= round'
      BY <1>1, <1>2, <1>3 DEF MineInv, TInv, Mine, Runners
    <2> QED
      BY <1>2, <1>3, <1>4, <2>1, <2>2 DEF MineInv, TInv
  <1> QED
    BY <1>2, <1>5, <1>6, <1>7 DEF d

LEMMA CloseTypes ==
    ASSUME TInv, NEW owes, Closes(owes), UNCHANGED <<round, orphans>>,
           Mine.at # "none"
    PROVE  /\ child' \in [Runners -> Child] /\ reserved' \subseteq Resources
           /\ \A q \in Runners : ChildInv(q)'
           /\ MineInv' /\ Mine' = NoChild
           /\ child'["operator"] = child["operator"]
  <1>1. /\ child \in [Runners -> Child] /\ reserved \subseteq Resources /\ NoChild \in Child
        /\ Mine.job \in Resources
    BY NoChildType DEF TInv, TypeOK, ChildInv, Runners, Mine
  <1>2. Mine' = NoChild /\ child'["operator"] = child["operator"]
        /\ child' \in [Runners -> Child] /\ reserved' \subseteq Resources
    BY <1>1 DEF Closes, Mine, Runners
  <1>3. NoChild.at = "none" /\ NoChild.round = 0
    BY DEF NoChild
  <1>4. \A q \in Runners : ChildInv(q)'
    BY <1>2, <1>3 DEF ChildInv, TInv, Mine, Runners
  <1>5. MineInv'
    <2>1. \A q \in Runners : child'[q].round <= round'
      BY <1>2, <1>3 DEF MineInv, TInv, TypeOK, Mine, Runners
    <2> QED
      BY <1>2, <1>3, <2>1 DEF MineInv, TInv, Closes
  <1> QED
    BY <1>2, <1>4, <1>5

LEMMA AutopilotTInv ==
    ASSUME TInv, Autopilot
    PROVE  TInv'
  <1>1. /\ TypeOK /\ MineInv /\ (\A q \in Runners : ChildInv(q))
        /\ child \in [Runners -> Child] /\ journal \in [Resources -> Entry]
    BY DEF TInv, TypeOK
  <1>2. CASE Plans
    <2>1. round' \in 0..MaxRounds /\ round' = round + 1 /\ round \in Nat
      BY <1>1, <1>2, RefillAssumption DEF Plans, TypeOK, RefillAssumption
    <2>2. journal' \in [Resources -> Entry]
      <3>1. ASSUME NEW r \in Resources PROVE [journal[r] EXCEPT !.latest = "none"] \in Entry
        BY <1>1 DEF Entry, Statuses
      <3> QED
        BY <3>1, <1>2 DEF Plans
    <2>3. TypeOK'
      BY <2>1, <2>2, <1>1, <1>2 DEF Plans, TypeOK
    <2>4. \A q \in Runners : ChildInv(q)'
      BY <1>1, <1>2 DEF Plans, ChildInv
    <2>5. \A o \in orphans : o[3] \in Nat
      BY <1>1, RefillAssumption DEF TypeOK, RefillAssumption
    <2>7. \A q \in Runners : child[q].round \in Nat
      BY <1>1, RefillAssumption DEF TypeOK, RefillAssumption, Child
    <2>6. MineInv'
      BY <2>1, <2>5, <2>7, <1>1, <1>2 DEF Plans, MineInv, Mine
    <2> QED
      BY <2>3, <2>4, <2>6 DEF TInv
  <1>3. ASSUME NEW r \in Resources, Skips(r)
        PROVE  TInv'
    BY <1>1, <1>3 DEF Skips, Outside, history, TInv, TypeOK, MineInv, ChildInv, Mine
  <1>4. ASSUME NEW r \in Resources, Takes(r)
        PROVE  TInv'
    <2>1. /\ pc' = "previewing" /\ r \notin todo' /\ Starts(r, None, FALSE) /\ UNCHANGED orphans
          /\ round' = round /\ todo' \subseteq Resources
      BY <1>1, <1>4 DEF Takes, Outside, TypeOK
    <2>2. child' \in [Runners -> Child] /\ (\A q \in Runners : ChildInv(q)') /\ MineInv'
      BY <2>1, StartTypes
    <2>3. TypeOK'
      BY <2>1, <2>2, <1>1, <1>4, CandidateFacts DEF Takes, Outside, history, TypeOK
    <2> QED
      BY <2>2, <2>3 DEF TInv
  <1>5. ASSUME NEW methods \in SUBSET Methods, TriesAnother(methods), Outside, UNCHANGED round,
               indebted' \in BOOLEAN, Mine.at # "none"
        PROVE  TInv'
    <2>1. PICK m \in methods : Starts(Mine.job, m, FALSE) /\ others' = methods \ {m}
      BY <1>5 DEF TriesAnother
    <2>2. /\ pc' = "previewing" /\ UNCHANGED <<todo, inventory, reserved, orphans>>
          /\ Mine.job \in Resources /\ Mine.job \notin todo'
      BY <1>1, <1>5 DEF TriesAnother, Outside, MineInv, ChildInv, Mine, Runners
    <2>3. child' \in [Runners -> Child] /\ (\A q \in Runners : ChildInv(q)') /\ MineInv'
      BY <2>1, <2>2, <1>5, StartTypes
    <2>4. TypeOK'
      BY <2>1, <2>2, <2>3, <1>1, <1>5 DEF Outside, history, TypeOK
    <2> QED
      BY <2>3, <2>4 DEF TInv
  <1>6. ASSUME NEW owes, Closes(owes), Outside, UNCHANGED round, Mine.at # "none"
        PROVE  TInv'
    <2>1. /\ child' \in [Runners -> Child] /\ reserved' \subseteq Resources
          /\ (\A q \in Runners : ChildInv(q)') /\ MineInv'
      BY <1>6, CloseTypes DEF Outside
    <2>2. TypeOK'
      BY <2>1, <1>1, <1>6 DEF Closes, Outside, history, TypeOK
    <2> QED
      BY <2>1, <2>2 DEF TInv
  <1>7. CASE JudgesPreview
    <2>1. pc = "previewing" /\ Mine.at = "ended" /\ Outside /\ UNCHANGED round
      BY <1>7 DEF JudgesPreview, At, Mine
    <2>2. CASE /\ Mine.ready
               /\ pc' = "executing" /\ Starts(Mine.job, Mine.method, TRUE)
               /\ UNCHANGED <<todo, inventory, reserved, indebted, others>>
      <3>1. /\ Mine.job \in Resources /\ Mine.job \notin todo' /\ UNCHANGED orphans
            /\ Mine.method \in Methods \cup {None}
        BY <1>1, <2>1, <2>2 DEF Outside, MineInv, ChildInv, Mine, Runners, Child
      <3>2. child' \in [Runners -> Child] /\ (\A q \in Runners : ChildInv(q)') /\ MineInv'
        BY <2>1, <2>2, <3>1, StartTypes
      <3>3. TypeOK'
        BY <2>1, <2>2, <3>2, <1>1 DEF Outside, history, TypeOK
      <3> QED
        BY <3>2, <3>3 DEF TInv
    <2>3. CASE TriesAnother(others) /\ UNCHANGED indebted
      BY <2>1, <2>3, <1>1, <1>5 DEF TypeOK
    <2>4. CASE Closes(indebted)
      BY <2>1, <2>4, <1>6
    <2> QED
      BY <1>7, <2>2, <2>3, <2>4 DEF JudgesPreview
  <1>8. CASE JudgesExecution
    <2> DEFINE owes == indebted \/ MayHaveDebited(Mine)
    <2>1. Mine.at = "ended" /\ Outside /\ UNCHANGED round
      BY <1>8 DEF JudgesExecution, At, Mine
    <2>4. MethodsOf(Mine.job) \subseteq Methods
      BY <1>1, <2>1, CandidateFacts DEF ChildInv, Mine, Runners
    <2>2. CASE TriesAnother(MethodsOf(Mine.job) \ {Mine.method}) /\ indebted' = owes
      BY <2>1, <2>2, <2>4, <1>5
    <2>3. CASE Closes(owes)
      BY <2>1, <2>3, <1>6
    <2> QED
      BY <1>8, <2>2, <2>3 DEF JudgesExecution
  <1>9. CASE Kills
    <2> DEFINE d == [NoChild EXCEPT !.at = "ended", !.job = Mine.job, !.method = Mine.method,
                                    !.reason = "timeout"]
    <2>1. /\ Mine \in Child /\ Mine.at # "none" /\ Mine.at # "ended"
          /\ Mine.job \in Resources /\ Mine.round = round
          /\ Mine.at # "none" <=> pc \in {"previewing", "executing"} 
          /\ Mine.job \notin todo
      BY <1>1, <1>9 DEF Kills, Mine, Runners, ChildInv, MineInv
    <2>2. d \in Child /\ d.at = "ended" /\ d.job = Mine.job /\ d.round = 0
      BY <2>1, NoChildType DEF Child, NoChild
    <2>3. child' = [child EXCEPT !["autopilot"] = d]
          /\ UNCHANGED <<round, source, journal, auto, manual, history>>
      BY <1>9 DEF Kills
    <2>4. orphans' \in {orphans, orphans \cup {<<"autopilot", Mine.job, round>>}}
      BY <1>9, <2>1 DEF Kills, Orphaned, Mine
    <2> HIDE DEF d
    <2>5. Mine' = d /\ child'["operator"] = child["operator"] /\ child' \in [Runners -> Child]
      BY <2>2, <2>3, <1>1 DEF Mine, Runners
    <2>6. \A q \in Runners : ChildInv(q)'
      BY <2>1, <2>2, <2>5, <1>1 DEF ChildInv, Mine, Runners
    <2>7. round \in Nat
      BY <1>1, RefillAssumption DEF TypeOK, RefillAssumption
    <2>8. MineInv'
      <3>1. \A o \in orphans' : o[3] <= round
        BY <2>4, <2>7, <1>1 DEF MineInv
      <3>2. \A q \in Runners : child'[q].round <= round
        BY <2>2, <2>5, <2>7, <1>1 DEF MineInv, Runners, Mine
      <3> QED
        BY <3>1, <3>2, <2>1, <2>2, <2>3, <2>5, <1>1 DEF MineInv, auto
    <2>9. TypeOK'
      <3>1. orphans' \subseteq Runners \X Resources \X (0..MaxRounds)
        BY <2>1, <2>4, <1>1 DEF TypeOK, Runners
      <3> QED
        BY <3>1, <2>3, <2>5, <1>1 DEF TypeOK, auto, history
    <2> QED
      BY <2>6, <2>8, <2>9 DEF TInv
  <1>10. CASE RoundEnds
    BY <1>1, <1>10 DEF RoundEnds, Outside, history, TInv, TypeOK, MineInv, ChildInv, Mine
  <1> QED
    BY <1>2, <1>3, <1>4, <1>7, <1>8, <1>9, <1>10 DEF Autopilot

LEMMA OtherTInv ==
    ASSUME TInv, OperatorRuns \/ (\E o \in orphans : SignsLate(o))
    PROVE  TInv'
  <1>1. /\ TypeOK /\ MineInv /\ (\A q \in Runners : ChildInv(q))
        /\ child \in [Runners -> Child]
    BY DEF TInv, TypeOK
  <1>2. CASE OperatorRuns
    <2>9. \A r \in Resources : MethodsOf(r) \subseteq Methods
      BY CandidateFacts
    <2>1. PICK r \in Resources, m \in Methods \cup {None} :
            child' = [child EXCEPT !["operator"] = Launched(r, m, TRUE)]
      BY <1>2, <2>9 DEF OperatorRuns
    <2> DEFINE d == Launched(r, m, TRUE)
    <2>2. d \in Child /\ d.at = "resolving" /\ d.job = r /\ d.round = round
      BY <1>1, NoChildType DEF Launched, Child, TypeOK
    <2> HIDE DEF d
    <2>3. child' \in [Runners -> Child] /\ child'["operator"] = d /\ Mine' = Mine
      BY <1>1, <2>1, <2>2 DEF Mine, Runners, d
    <2>4. \A q \in Runners : ChildInv(q)'
      BY <1>1, <2>2, <2>3 DEF ChildInv, Mine, Runners
    <2>5. manual' \in 0..MaxManual
      BY <1>1, <1>2, RefillAssumption DEF OperatorRuns, TypeOK, RefillAssumption
    <2>6. TypeOK'
      BY <1>1, <1>2, <2>3, <2>5 DEF OperatorRuns, TypeOK, auto, history
    <2>8. \A q \in Runners : child'[q].round <= round
      BY <1>1, <2>2, <2>3 DEF MineInv, TypeOK, Runners, Mine
    <2>7. MineInv'
      BY <1>1, <1>2, <2>3, <2>8 DEF OperatorRuns, MineInv, auto
    <2> QED
      BY <2>4, <2>6, <2>7 DEF TInv
  <1>3. ASSUME NEW o \in orphans, SignsLate(o)
        PROVE  TInv'
    <2>1. o[1] \in Runners /\ o[2] \in Resources /\ Debits(o[1], o[2], o[3])
      BY <1>1, <1>3 DEF SignsLate, TypeOK
    <2>2. source' \in 0..MaxSource /\ debits' \in [Resources -> [Runners -> Nat]]
      BY <1>1, <2>1, DebitTypes
    <2>3. TypeOK'
      BY <1>1, <1>3, <2>2 DEF SignsLate, TypeOK, auto
    <2>4. MineInv' /\ \A q \in Runners : ChildInv(q)'
      BY <1>1, <1>3 DEF SignsLate, MineInv, ChildInv, Mine, auto
    <2> QED
      BY <2>3, <2>4 DEF TInv
  <1> QED
    BY <1>2, <1>3

LEMMA TInvInit == Init => TInv
  <1> SUFFICES ASSUME Init PROVE TInv
    OBVIOUS
  <1>1. 0 \in 0..MaxRounds /\ 0 \in 0..MaxSource /\ 0 \in 0..MaxManual
    BY RefillAssumption DEF RefillAssumption
  <1>2. child = [p \in Runners |-> NoChild] /\ NoChild.at = "none" /\ NoChild.round = 0
    BY DEF Init, NoChild
  <1>3. TypeOK
    BY <1>1, <1>2, NoChildType DEF Init, TypeOK
  <1>4. MineInv /\ \A p \in Runners : ChildInv(p)
    BY <1>2 DEF Init, MineInv, ChildInv, Mine, Runners
  <1> QED
    BY <1>3, <1>4 DEF TInv

LEMMA TInvStep ==
    ASSUME TInv, [Next]_vars
    PROVE  TInv'
  <1>1. CASE UNCHANGED vars
    BY <1>1 DEF vars, auto, history, TInv, TypeOK, MineInv, ChildInv, Mine
  <1> QED
    BY <1>1, RunTInv, AutopilotTInv, OtherTInv DEF Next

\* What the variables hold is what the program can hold, in every run.
THEOREM TypeCorrect == Spec => []TypeOK
  <1>1. TInv => TypeOK
    BY DEF TInv
  <1> QED
    BY <1>1, TInvInit, TInvStep, PTL DEF Spec

-----------------------------------------------------------------------------
(* What the autopilot's run has spent.                                     *)

LEMMA SwapsLeftFacts ==
    ASSUME NEW c \in Child, SwapsLeft(c)
    PROVE  LegKind(c) = "swap"
  <1>1. c.leg \in Nat \ {0}
    BY DEF Child
  <1>2. ASSUME NEW n PROVE c.leg <= n /\ n \in Nat => c.leg \in c.leg..n
    BY <1>1
  <1> QED
    BY <1>1, <1>2 DEF SwapsLeft, LegKind

\* A leg that another one follows: if it is the first and does not throw, only
\* swaps are left, and they stay so.
LEMMA LegFacts ==
    ASSUME NEW c \in Child, c.method \in Methods, ~LastLeg(c),
           NEW d, d.method = c.method, d.leg = c.leg + 1
    PROVE  /\ c.leg = 1 => LegKind(c) = "swap" \/ SwapsLeft(d)
           /\ SwapsLeft(c) => SwapsLeft(d)
  <1> DEFINE legs == Legs[c.method]
             n == Len(legs)
  <1>1. legs \in Seq({"swap", "bridge", "gateway"}) /\ legs # <<>>
    BY RefillAssumption DEF RefillAssumption
  <1>2. n \in Nat \ {0}
    <2>1. ASSUME NEW S, NEW s \in Seq(S), s # <<>> PROVE Len(s) \in Nat \ {0}
      BY <2>1, EmptySeq, LenProperties
    <2> QED
      BY <1>1, <2>1
  <1>3. c.leg \in Nat \ {0} /\ c.leg # n
    BY DEF Child, LastLeg
  <1>4. legs[1] = "swap" \/ \A i \in 2..n : legs[i] = "swap"
    BY LegsAssumption DEF LegsAssumption
  <1> HIDE DEF legs, n
  <1>5. c.leg = 1 => 2 <= n
    BY <1>2, <1>3
  <1>6. SwapsLeft(d) <=> c.leg + 1 <= n /\ \A i \in (c.leg + 1)..n : legs[i] = "swap"
    BY DEF SwapsLeft, legs, n
  <1>7. SwapsLeft(c) <=> c.leg <= n /\ \A i \in c.leg..n : legs[i] = "swap"
    BY DEF SwapsLeft, legs, n
  <1>8. LegKind(c) = legs[c.leg]
    BY DEF LegKind, legs
  <1> QED
    BY <1>2, <1>3, <1>4, <1>5, <1>6, <1>7, <1>8

\* A run that has spent stays settled and owing, and one that spends becomes so.
LEMMA RunSettles ==
    ASSUME TInv, Run("autopilot")
    PROVE  /\ Settled => Settled'
           /\ Owing => Owing' \/ Mine.job \in unshown'
           /\ debits' # debits \/ orphans' # orphans =>
                 /\ Mine.at = "sending" /\ Mine.leg = 1
                 /\ Settled' /\ (Owing' \/ Mine.job \in unshown')
           /\ debits' # debits => orphans' = orphans
  <1> DEFINE Goal == /\ Settled => Settled'
                     /\ Owing => Owing' \/ Mine.job \in unshown'
                     /\ debits' # debits \/ orphans' # orphans =>
                           /\ Mine.at = "sending" /\ Mine.leg = 1
                           /\ Settled' /\ (Owing' \/ Mine.job \in unshown')
                     /\ debits' # debits => orphans' = orphans
             p == "autopilot"
  <1>0. /\ Mine \in Child /\ ChildInv(p) /\ TypeOK /\ MineInv /\ p \in Runners
        /\ child \in [Runners -> Child]
    BY DEF TInv, TypeOK, Mine, Runners
  <1>1. Touches(p) /\ Moves(p)
    BY <1>0, RunTouches, RunMoves
  <1>2. /\ UNCHANGED <<pc, todo, round, indebted, reserved>>
        /\ Mine' = child'[p] /\ Mine = child[p] /\ Mine.job \in Resources
        /\ Mine'.job = Mine.job /\ Mine' \in Child /\ Mine.round = round
    BY <1>0, <1>1 DEF Touches, Moves, Elsewhere, auto, Mine, MineInv
  \* The run ends without having sent anything.
  <1>3. ASSUME NEW reason, Stops(p, reason), UNCHANGED <<orphans, history>>,
               Mine.at \in {"resolving", "preparing"}, Settled => reason # "retryable"
        PROVE  Goal
    <2>1. Mine'.at = "ended" /\ Mine'.reason = reason /\ Mine'.ready = Mine.ready
      BY <1>0, <1>2, <1>3 DEF Stops, Over, Child
    <2>2. ~Mine.ready /\ (Settled => pc = "previewing")
      BY <1>0, <1>3 DEF MineInv, Settled
    <2>3. Owing => Owing'
      BY <1>2, <1>3 DEF Owing
    <2>4. Settled => Settled'
      BY <1>2, <1>3, <2>1, <2>2 DEF Settled
    <2> QED
      BY <1>3, <2>3, <2>4 DEF history
  <1>4. CASE FallsBack(p) \/ Admits(p)
    <2>1. Mine.at = "resolving" /\ UNCHANGED <<orphans, history>>
      BY <1>2, <1>4 DEF FallsBack, Admits, At
    <2>2. ~Settled
      <3>1. Mine.seen.latest = "failed" /\ Mine.method # None =>
                GateBlocks(Mine.seen.latest)
        BY DEF GateBlocks
      <3>2. Mine.method = None \/ ~GateBlocks(Mine.seen.latest)
        BY <1>2, <1>4 DEF FallsBack, Admits
      <3> QED
        BY <2>1, <3>1, <3>2 DEF Settled
    <2>3. Owing => Owing'
      BY <1>2, <2>1 DEF Owing
    <2> QED
      BY <2>1, <2>2, <2>3 DEF history
  <1>5. CASE Refuses(p)
    BY <1>2, <1>3, <1>5 DEF Refuses, At
  <1>6. CASE Blocks(p)
    <2>1. PICK reason \in {"retryable", "other"} : Stops(p, reason)
      BY <1>6 DEF Blocks
    <2>2. Mine.at = "preparing" /\ UNCHANGED <<orphans, history>>
      BY <1>2, <1>6 DEF Blocks, At
    <2> QED
      BY <2>1, <2>2, <1>3 DEF Settled
  <1>7. CASE Throws(p)
    BY <1>2, <1>3, <1>7 DEF Throws, At
  <1>8. CASE Prepares(p)
    <2>1. Mine.at = "preparing" /\ UNCHANGED <<orphans, history>>
      BY <1>2, <1>8 DEF Prepares, At
    <2>2. ~Settled
      BY <2>1 DEF Settled
    <2>3. Owing => Owing'
      BY <1>2, <2>1 DEF Owing
    <2> QED
      BY <2>1, <2>2, <2>3 DEF history
  \* A leg.
  <1>9. ASSUME Mine.at = "sending" PROVE Mine.method \in Methods /\ pc = "executing"
    BY <1>0, <1>2, <1>9 DEF ChildInv, MineInv
  <1>10. ASSUME NEW leg, NEW at, NEW status, NEW reason, Confirmed(p, leg, at, status, reason)
         PROVE  /\ Mine.at = "sending" /\ Leg(p, TRUE) /\ UNCHANGED <<orphans, unshown>>
                /\ Mine'.at = at /\ Mine'.leg = leg /\ Mine'.status = status
                /\ Mine'.reason = reason /\ (Mine.shows => Mine'.shows)
                /\ (LegKind(Mine) # "gateway" => Mine'.shows) /\ Mine'.method = Mine.method
    <2> DEFINE shows == Mine.shows \/ LegKind(Mine) # "gateway"
    <2>1. Mine.at = "sending" /\ Leg(p, TRUE) /\ UNCHANGED <<orphans, unshown>>
      BY <1>2, <1>10 DEF Confirmed, Sending, At
    <2>2. child' = [child EXCEPT ![p] = Told(Mine, at, leg, status, shows, reason)]
      BY <1>0, <1>2, <1>10 DEF Confirmed, Told
    <2>3. Mine' = Told(Mine, at, leg, status, shows, reason)
      BY <1>0, <1>2, <2>2
    <2> HIDE DEF shows
    <2>4. /\ Mine'.at = at /\ Mine'.leg = leg /\ Mine'.status = status
          /\ Mine'.reason = reason /\ Mine'.shows = shows /\ Mine'.method = Mine.method
      BY <1>0, <2>3 DEF Told, Child
    <2> QED
      BY <2>1, <2>4 DEF shows
  <1>11. ASSUME NEW broadcast, Leg(p, broadcast), Mine.leg # 1 \/ ~broadcast
         PROVE  debits' = debits /\ source' = source
    BY <1>2, <1>11 DEF Leg, NoDebit
  <1>12. Mine.leg \in Nat \ {0}
    BY <1>0 DEF Child
  <1>13. CASE LegConfirms(p)
    <2>1. Confirmed(p, Mine.leg + 1, "sending", Mine.status, Mine.reason) /\ ~LastLeg(Mine)
      BY <1>2, <1>13 DEF LegConfirms
    <2>2. Mine'.at = "sending" /\ Mine'.leg = Mine.leg + 1 /\ Mine.at = "sending"
          /\ (Mine.shows => Mine'.shows) /\ (LegKind(Mine) # "gateway" => Mine'.shows)
      BY <2>1, <1>10
    <2>3. Leg(p, TRUE) /\ UNCHANGED <<orphans, unshown>>
      BY <2>1, <1>10
    <2>4. /\ Mine.leg = 1 => Mine'.shows \/ SwapsLeft(Mine')
          /\ SwapsLeft(Mine) => SwapsLeft(Mine')
      <3>1. Mine'.method = Mine.method
        BY <2>1, <1>10
      <3> QED
        BY <2>1, <2>2, <3>1, <1>0, <1>9, LegFacts
    <2>5. Mine'.shows \/ SwapsLeft(Mine') => Settled' /\ Owing'
      BY <2>2, <1>12 DEF Settled, Owing, SwapsLeft
    <2>6. Settled => Mine.shows \/ SwapsLeft(Mine)
      BY <2>2 DEF Settled
    <2>7. Owing => Mine.shows \/ SwapsLeft(Mine) \/ indebted
      BY <2>2 DEF Owing
    <2>8. indebted => Owing'
      BY <1>2 DEF Owing
    <2> QED
      BY <2>2, <2>3, <2>4, <2>5, <2>6, <2>7, <2>8, <1>11
  <1>14. CASE Settles(p)
    <2>1. PICK status \in {"delivered", "unproven_timeout"}, reason \in {"none", "timeout"} :
            /\ status = "delivered" \/ reason = "timeout"
            /\ Confirmed(p, 1, "recording", status, reason)
      BY <1>14 DEF Settles
    <2>2. Mine'.at = "recording" /\ Mine.at = "sending" /\ Mine'.status = status
          /\ Mine'.reason = reason
      BY <2>1, <1>10
    <2>3. Leg(p, TRUE) /\ UNCHANGED <<orphans, unshown>>
      BY <2>1, <1>10
    <2>4. Settled' /\ Owing'
      BY <2>1, <2>2 DEF Settled, Owing, MayHaveDebited
    <2> QED
      BY <2>2, <2>3, <2>4, <1>11
  \* What a leg that throws leaves.
  <1>15. ASSUME NEW status, NEW shows \in BOOLEAN, NEW reason, Thrown(p, status, shows, reason),
                Mine.at = "sending", UNCHANGED orphans,
                status = "failed" \/ reason # "retryable",
                (Mine.leg = 1 /\ source' = source) => debits' = debits,
                Mine.leg # 1 => debits' = debits
         PROVE  Goal
    <2>1. Mine'.at = "recording" /\ Mine'.status = status /\ Mine'.reason = reason
          /\ Mine'.shows = shows
      BY <1>0, <1>2, <1>15 DEF Thrown, Child
    <2>2. Settled'
      BY <2>1, <1>15 DEF Settled
    <2>3. Mine.leg > 1 \/ source' # source => Owing' \/ Mine.job \in unshown'
      <3>1. CASE shows
        BY <2>1, <3>1 DEF Owing, MayHaveDebited
      <3>2. CASE ~shows
        BY <1>2, <1>15, <3>2 DEF Thrown
      <3> QED
        BY <3>1, <3>2
    <2>4. Owing => Mine.leg > 1 \/ indebted
      BY <1>15 DEF Owing
    <2>5. indebted => Owing'
      BY <1>2 DEF Owing
    <2> QED
      BY <1>12, <1>15, <2>2, <2>3, <2>4, <2>5
  <1>16. CASE LegIsShort(p)
    BY <1>2, <1>15, <1>16 DEF LegIsShort, Sending, At, NoDebit
  <1>17. CASE SwapFails(p)
    <2>1. Mine.at = "sending" /\ UNCHANGED orphans
      BY <1>2, <1>17 DEF SwapFails, Sending, At
    <2>2. PICK shows \in BOOLEAN, reason \in {"retryable", "other"} :
            (NoDebit \/ Leg(p, TRUE)) /\ Thrown(p, "failed", shows, reason)
      BY <1>17 DEF SwapFails
    <2>3. Mine.leg # 1 => debits' = debits
      BY <2>2, <1>11 DEF NoDebit
    <2>4. source' = source => debits' = debits
      BY <2>2, <1>0, <1>2, DebitTypes DEF Leg
    <2> QED
      BY <2>1, <2>2, <2>3, <2>4, <1>15
  <1>18. CASE BridgeFails(p)
    <2>1. /\ Mine.at = "sending" /\ UNCHANGED orphans /\ LegKind(Mine) # "swap"
      BY <1>2, <1>18 DEF BridgeFails, Sending, At
    <2>12. PICK answer \in {"rejected", "error", "sent", "reverted"},
               status \in IF LegKind(child[p]) = "gateway" THEN {"signer_error"}
                                                    ELSE {"failed", "signer_error"},
               reason \in {"retryable", "other"} :
            /\ answer \in {"sent", "reverted"} => reason = "other"
            /\ Leg(p, answer = "sent")
            /\ LET shows == child[p].shows \/ (answer = "reverted" /\ LegKind(child[p]) = "bridge") IN
               /\ child' = [child EXCEPT
                     ![p].status = IF answer = "rejected" THEN "signer_rejected" ELSE status,
                     ![p].shows = shows,
                     ![p].reason = reason,
                     ![p].leg = IF LastLeg(child[p]) THEN 1 ELSE @ + 1,
                     ![p].at = IF LastLeg(child[p]) THEN "recording" ELSE @]
               /\ unshown' = IF answer = "sent" /\ ~shows /\ p = "autopilot" /\ child[p].round = round
                             THEN unshown \cup {child[p].job} ELSE unshown
      BY <1>18 DEF BridgeFails
    <2>2. /\ answer \in {"sent", "reverted"} => reason = "other"
          /\ Leg(p, answer = "sent")
          /\ LET shows == Mine.shows \/ (answer = "reverted" /\ LegKind(Mine) = "bridge") IN
             /\ Mine'.shows = shows
             /\ answer = "sent" /\ ~shows => Mine.job \in unshown'
          /\ Mine'.reason = reason
          /\ Mine'.leg = IF LastLeg(Mine) THEN 1 ELSE Mine.leg + 1
          /\ Mine'.at = IF LastLeg(Mine) THEN "recording" ELSE "sending"
          /\ Mine'.method = Mine.method
      BY <1>0, <1>2, <2>1, <2>12 DEF Child
    <2>3. ~LastLeg(Mine) /\ Mine.leg = 1 => SwapsLeft(Mine')
      BY <2>1, <2>2, <1>0, <1>9, LegFacts
    <2>13. ~SwapsLeft(Mine)
      BY <2>1, <1>0, SwapsLeftFacts
    <2>4. Mine.shows => Mine'.shows
      BY <2>2
    <2>5. answer = "sent" => Mine'.shows \/ Mine.job \in unshown'
      BY <2>2
    <2>6. Mine'.shows => Settled' /\ Owing'
      BY <2>2, <1>12 DEF Settled, Owing, MayHaveDebited
    <2>7. Settled => Mine.shows
      BY <2>1, <2>13 DEF Settled
    <2>8. Owing => Mine.shows \/ indebted
      BY <2>1, <2>13 DEF Owing
    <2>9. indebted => Owing'
      BY <1>2 DEF Owing
    <2>10. debits' # debits => Mine.leg = 1 /\ answer = "sent"
      BY <2>2, <1>11
    <2>11. Mine.leg = 1 /\ answer = "sent" => Settled'
      <3>1. CASE LastLeg(Mine)
        BY <2>2, <3>1 DEF Settled
      <3>2. CASE ~LastLeg(Mine)
        BY <2>2, <2>3, <3>2, <1>12 DEF Settled
      <3> QED
        BY <3>1, <3>2
    <2> QED
      BY <2>1, <2>4, <2>5, <2>6, <2>7, <2>8, <2>9, <2>10, <2>11
  <1>19. CASE LegTimesOut(p)
    <2>1. Mine.at = "sending" /\ NoDebit /\ orphans' = Orphaned(p)
          /\ Mine'.at = "recording" /\ Mine'.reason = "timeout"
      BY <1>0, <1>2, <1>19 DEF LegTimesOut, Sending, At, Child
    <2>2. Settled' /\ Owing'
      BY <2>1 DEF Settled, Owing, MayHaveDebited
    <2>3. orphans' # orphans => Mine.leg = 1
      BY <2>1, <1>2 DEF Orphaned
    <2> QED
      BY <2>1, <2>2, <2>3 DEF NoDebit
  <1>20. CASE Records(p)
    <2>1. /\ Mine.at = "recording" /\ UNCHANGED <<orphans, history>>
          /\ journal' = [journal EXCEPT ![Mine.job] =
                           Outcome(Mine.job, Mine.round, Mine.method, Mine.status)]
      BY <1>2, <1>20 DEF Records, At
    <2>2. /\ Mine'.at = "ended" /\ Mine'.reason = Mine.reason /\ Mine'.shows = Mine.shows
          /\ Mine'.status = Mine.status
      BY <1>0, <1>2, <1>20 DEF Records, Over, Child
    <2>3. journal'[Mine.job].latest = Mine.status
      BY <2>1, <1>0, <1>2 DEF Outcome, Append1, TypeOK, Entry
    <2>4. pc = "executing"
      BY <2>1, <1>0 DEF MineInv
    <2>5. Settled => Settled'
      BY <2>1, <2>2, <2>3, <2>4, <1>2 DEF Settled
    <2>6. Owing => Owing'
      BY <2>1, <2>2, <2>4, <1>2 DEF Owing, MayHaveDebited
    <2> QED
      BY <2>1, <2>5, <2>6 DEF history
  <1> QED
    BY <1>4, <1>5, <1>6, <1>7, <1>8, <1>13, <1>14, <1>16, <1>17, <1>18, <1>19, <1>20 DEF Run

\* A debit of the autopilot's run is of its job, and of this round.
LEMMA RunSpends ==
    ASSUME TInv, NEW p \in Runners, Run(p), NEW r \in Resources
    PROVE  /\ debits'[r]["autopilot"] # debits[r]["autopilot"] =>
                 /\ p = "autopilot" /\ r = Mine.job
                 /\ debits'[r]["autopilot"] = debits[r]["autopilot"] + 1
           /\ <<"autopilot", r, round>> \in orphans => <<"autopilot", r, round>> \in orphans'
           /\ <<"autopilot", r, round>> \in orphans' \ orphans => p = "autopilot" /\ r = Mine.job
  <1>1. Touches(p) /\ TypeOK
    BY RunTouches DEF TInv
  <1>2. debits \in [Resources -> [Runners -> Nat]] /\ Mine = child["autopilot"]
    BY <1>1 DEF TypeOK, Mine
  <1>3. debits' = debits \/ debits' = [debits EXCEPT ![child[p].job][p] = @ + 1]
    BY <1>1 DEF Touches, Debits, NoDebit
  <1>4. child[p].job \in Resources
    BY <1>1 DEF Touches
  <1>5. debits'[r]["autopilot"] # debits[r]["autopilot"] =>
            /\ p = "autopilot" /\ r = Mine.job
            /\ debits'[r]["autopilot"] = debits[r]["autopilot"] + 1
    <2>1. CASE debits' = debits
      BY <2>1
    <2>2. CASE debits' = [debits EXCEPT ![child[p].job][p] = @ + 1]
      BY <2>2, <1>2, <1>4 DEF Runners
    <2> QED
      BY <1>3, <2>1, <2>2
  <1>6. orphans' \in {orphans, orphans \cup {<<p, child[p].job, child[p].round>>}}
    BY <1>1 DEF Touches, Orphaned
  <1> QED
    BY <1>2, <1>5, <1>6

LEMMA RunSpentInv ==
    ASSUME TInv, NEW p \in Runners, Run(p), SpentInv, manual = 0
    PROVE  SpentInv'
  <1>1. Touches(p) /\ TypeOK /\ MineInv
    BY RunTouches DEF TInv
  <1>2. p = "autopilot"
    BY <1>1 DEF Touches, SpentInv, Runners
  <1>3. /\ Settled => Settled'
        /\ debits' # debits \/ orphans' # orphans =>
              Mine.at = "sending" /\ Mine.leg = 1 /\ Settled'
        /\ debits' # debits => orphans' = orphans
    BY <1>2, RunSettles
  <1>4. UNCHANGED <<round, todo>> /\ Mine'.job = Mine.job /\ Mine.at # "none"
        /\ child'["operator"] = child["operator"] /\ Mine.job \in Resources
    BY <1>1, <1>2, RunMoves DEF Touches, Moves, Elsewhere, auto, Mine, Runners, TypeOK
  <1>5. Mine.job \notin todo
    BY <1>1, <1>4 DEF MineInv
  <1>6. debits \in [Resources -> [Runners -> Nat]]
    BY <1>1 DEF TypeOK
  <1>7. ASSUME NEW r \in Resources
        PROVE  /\ debits'[r]["autopilot"] <= 1
               /\ debits'[r]["autopilot"] > 0 => <<"autopilot", r, round>> \notin orphans'
               /\ Spent(r)' => r \notin todo /\ (Mine.job = r => Settled')
    <2>1. debits[r]["autopilot"] \in Nat
      BY <1>6 DEF Runners
    <2>2. /\ debits[r]["autopilot"] <= 1
          /\ debits[r]["autopilot"] > 0 => <<"autopilot", r, round>> \notin orphans
          /\ Spent(r) => r \notin todo /\ (Mine.job = r => Settled)
      BY <1>4 DEF SpentInv
    <2>3. CASE debits' = debits /\ orphans' = orphans
      BY <2>2, <2>3, <1>3, <1>4 DEF Spent
    <2>4. CASE /\ debits' # debits \/ orphans' # orphans
               /\ r = Mine.job
      <3>1. ~Spent(r) /\ Settled'
        BY <2>2, <2>4, <1>3 DEF Settled
      <3>2. debits[r]["autopilot"] = 0 /\ <<"autopilot", r, round>> \notin orphans
        BY <2>1, <3>1 DEF Spent
      <3>3. debits'[r]["autopilot"] \in {0, 1}
        BY <3>2, RunSpends
      <3>4. debits' = debits \/ orphans' = orphans
        BY <1>3
      <3> QED
        BY <2>4, <3>1, <3>2, <3>3, <3>4, <1>5
    <2>5. CASE r # Mine.job
      <3>1. debits'[r]["autopilot"] = debits[r]["autopilot"]
        BY <2>5, RunSpends
      <3>2. <<"autopilot", r, round>> \in orphans' <=> <<"autopilot", r, round>> \in orphans
        BY <2>5, RunSpends
      <3> QED
        BY <2>2, <2>5, <3>1, <3>2, <1>4 DEF Spent
    <2> QED
      BY <2>3, <2>4, <2>5
  <1> QED
    BY <1>4, <1>7 DEF SpentInv

LEMMA RunOwedInv ==
    ASSUME TInv, NEW p \in Runners, Run(p), OwedInv
    PROVE  OwedInv'
  <1>1. Touches(p) /\ Moves(p) /\ MineInv
    BY RunTouches, RunMoves DEF TInv
  <1>2. UNCHANGED <<round, todo, reserved, indebted, pc>> /\ unshown \subseteq unshown'
    BY <1>1 DEF Touches, Elsewhere, auto
  <1>3. ASSUME NEW r \in Resources, Spent(r)'
        PROVE  /\ r \notin todo
               /\ r \in reserved \cup unshown' \/ (Mine'.at # "none" /\ Mine'.job = r /\ Owing')
    <2>1. CASE p = "operator"
      <3>1. Mine' = Mine
        BY <1>1, <2>1 DEF Moves, Mine, TInv, TypeOK, Runners
      <3>2. Spent(r)
        BY <1>2, <1>3, <2>1, RunSpends DEF Spent
      <3> QED
        BY <3>1, <3>2, <1>2 DEF OwedInv, Owing, MayHaveDebited
    <2>2. CASE p = "autopilot"
      <3>1. Mine'.job = Mine.job /\ Mine'.at # "none" /\ Mine.at # "none"
        BY <1>1, <2>2 DEF Moves, Mine
      <3>2. /\ Owing => Owing' \/ Mine.job \in unshown'
            /\ debits' # debits \/ orphans' # orphans => Owing' \/ Mine.job \in unshown'
        BY <2>2, RunSettles
      <3>3. CASE Spent(r)
        BY <3>1, <3>2, <3>3, <1>2 DEF OwedInv
      <3>4. CASE ~Spent(r)
        <4>1. r = Mine.job /\ (debits' # debits \/ orphans' # orphans)
          BY <3>4, <1>2, <1>3, RunSpends DEF Spent
        <4> QED
          BY <4>1, <3>1, <3>2, <1>1 DEF MineInv
      <3> QED
        BY <3>3, <3>4
    <2> QED
      BY <2>1, <2>2 DEF Runners
  <1> QED
    BY <1>2, <1>3 DEF OwedInv

\* Of a run nothing was spent on, what the autopilot does changes nothing that is
\* spent: only a planning round forgets.
LEMMA AutopilotSpends ==
    ASSUME TInv, Autopilot, NEW r \in Resources
    PROVE  /\ debits'[r]["autopilot"] \in {0, debits[r]["autopilot"]}
           /\ Plans => ~Spent(r)'
           /\ ~Plans /\ ~Kills => (Spent(r)' <=> Spent(r)) /\ UNCHANGED orphans
  <1>1. \A o \in orphans : o[3] <= round
    BY DEF TInv, MineInv
  <1>2. round \in Nat
    BY RefillAssumption DEF TInv, TypeOK, RefillAssumption
  <1>3. CASE Plans
    <2>1. debits'[r]["autopilot"] = 0 /\ round' = round + 1 /\ orphans' = orphans
      BY <1>3 DEF Plans, Runners
    <2>2. <<"autopilot", r, round + 1>> \notin orphans
      BY <1>1, <1>2
    <2> QED
      BY <1>3, <2>1, <2>2 DEF Spent
  <1>4. CASE (\E s \in Resources : Skips(s) \/ Takes(s)) \/ JudgesPreview \/ JudgesExecution
             \/ RoundEnds
    BY <1>4 DEF Skips, Takes, JudgesPreview, JudgesExecution, RoundEnds, Outside, history, Spent,
                Plans, Kills
  <1>5. CASE Kills
    BY <1>5 DEF Kills, history, Plans
  <1> QED
    BY <1>3, <1>4, <1>5 DEF Autopilot

\* A killed run is settled, and owing if it was executing.
LEMMA KillSettles ==
    ASSUME TInv, Kills
    PROVE  /\ Mine'.at = "ended" /\ Mine'.job = Mine.job /\ Mine.at # "none"
           /\ Mine.job \in Resources /\ Mine.job \notin todo
           /\ Settled' /\ (Owing => Owing')
           /\ UNCHANGED <<round, todo, reserved, manual, debits, unshown>>
           /\ child'["operator"] = child["operator"]
           /\ orphans' \in {orphans, orphans \cup {<<"autopilot", Mine.job, round>>}}
           /\ orphans' # orphans => Mine.at = "sending" /\ Mine.leg = 1 /\ Owing'
  <1> DEFINE d == [NoChild EXCEPT !.at = "ended", !.job = Mine.job, !.method = Mine.method,
                                  !.reason = "timeout"]
  <1>1. /\ child \in [Runners -> Child] /\ Mine = child["autopilot"] /\ MineInv
        /\ Mine.at # "none" /\ Mine.at # "ended" /\ pc \in {"previewing", "executing"}
    BY DEF Kills, TInv, TypeOK, Mine
  <1>2. Mine.job \in Resources /\ Mine.job \notin todo /\ Mine.round = round
    BY <1>1 DEF TInv, ChildInv, MineInv, Runners
  <1>3. child' = [child EXCEPT !["autopilot"] = d]
        /\ UNCHANGED <<round, source, journal, auto, manual, history>>
    BY DEF Kills
  <1>4. Mine' = d /\ child'["operator"] = child["operator"]
    BY <1>1, <1>3 DEF Mine, Runners
  <1>5. d.at = "ended" /\ d.job = Mine.job /\ d.reason = "timeout" /\ ~d.ready
    BY DEF NoChild
  <1>6. UNCHANGED <<pc, todo, reserved, indebted, debits, unshown>>
    BY <1>3 DEF auto, history
  <1> HIDE DEF d
  <1>7. Settled'
    BY <1>1, <1>4, <1>5, <1>6 DEF Settled
  <1>8. pc = "executing" \/ indebted => Owing'
    BY <1>4, <1>5, <1>6 DEF Owing, MayHaveDebited
  <1>9. Owing => pc = "executing" \/ indebted
    BY <1>1 DEF Owing, MineInv
  <1>10. orphans' = orphans \/ (Mine.at = "sending" /\ orphans' = Orphaned("autopilot"))
    BY <1>1 DEF Kills
  <1>11. /\ orphans' \in {orphans, orphans \cup {<<"autopilot", Mine.job, round>>}}
         /\ orphans' # orphans => Mine.at = "sending" /\ Mine.leg = 1
    BY <1>1, <1>2, <1>10 DEF Orphaned
  <1>12. Mine.at = "sending" => pc = "executing"
    BY <1>1 DEF MineInv
  <1> QED
    BY <1>1, <1>2, <1>3, <1>4, <1>5, <1>6, <1>7, <1>8, <1>9, <1>11, <1>12

\* What a child looks like when it has been started.
LEMMA StartedFacts ==
    ASSUME TInv, NEW r \in Resources, NEW m, NEW execute, Starts(r, m, execute)
    PROVE  /\ Mine'.at = "resolving" /\ Mine'.job = r /\ Mine'.method = m
           /\ Mine'.seen = journal[r]
           /\ child'["operator"] = child["operator"]
  <1>1. child \in [Runners -> Child]
    BY DEF TInv, TypeOK
  <1>2. Mine' = Launched(r, m, execute) /\ child'["operator"] = child["operator"]
    BY <1>1 DEF Starts, Mine, Runners
  <1> QED
    BY <1>2 DEF Launched, NoChild

LEMMA AutopilotSpentInv ==
    ASSUME TInv, Autopilot, SpentInv, manual = 0
    PROVE  SpentInv'
  <1>0. /\ MineInv
        /\ Mine.at # "none" => Mine.job \in Resources
        /\ \A r \in Resources : debits[r]["autopilot"] \in Nat
        /\ None \notin Resources \cup Methods
    BY RefillAssumption DEF TInv, TypeOK, ChildInv, Mine, Runners, RefillAssumption
  <1>1. CASE Plans
    <2>1. \A r \in Resources : debits'[r]["autopilot"] = 0 /\ ~Spent(r)'
      BY <1>1, AutopilotSpends DEF Plans, Runners
    <2>2. child' = child
      BY <1>1 DEF Plans
    <2> QED
      BY <2>1, <2>2 DEF SpentInv
  \* Where nothing is spent, what was is to be settled.
  <1>2. ASSUME ~Plans, ~Kills, todo' \subseteq todo, child'["operator"] = child["operator"],
               \A r \in Resources :
                  Spent(r) /\ r \notin todo /\ Mine'.at # "none" /\ Mine'.job = r => Settled'
        PROVE  SpentInv'
    <2>3. UNCHANGED <<orphans, round>>
      BY <1>2 DEF Autopilot, Skips, Takes, JudgesPreview, JudgesExecution, RoundEnds, Outside
    <2>1. \A r \in Resources : Spent(r)' <=> Spent(r)
      BY <1>2, AutopilotSpends
    <2>2. \A r \in Resources : debits'[r]["autopilot"] \in {0, debits[r]["autopilot"]}
      BY AutopilotSpends
    <2> QED
      BY <1>0, <1>2, <2>1, <2>2, <2>3 DEF SpentInv
  <1>3. ~(Plans /\ Kills) /\ (Kills => ~Plans)
    BY DEF Plans, Kills
  <1>4. ASSUME NEW r \in Resources, Skips(r) PROVE SpentInv'
    <2>1. pc = "picking" /\ child' = child /\ todo' \subseteq todo
      BY <1>4 DEF Skips
    <2>2. Mine.at = "none" /\ ~Plans /\ ~Kills
      BY <2>1, <1>0 DEF MineInv, Plans, Kills
    <2> QED
      BY <2>1, <2>2, <1>2 DEF Mine
  <1>5. ASSUME NEW r \in Resources, Takes(r) PROVE SpentInv'
    <2>1. pc = "picking" /\ todo' \subseteq todo /\ r \in todo /\ Starts(r, None, FALSE)
      BY <1>5 DEF Takes
    <2>2. ~Plans /\ ~Kills
      BY <2>1 DEF Plans, Kills
    <2>3. Mine'.job = r /\ child'["operator"] = child["operator"]
      BY <2>1, StartedFacts
    <2> QED
      BY <2>1, <2>2, <2>3, <1>2
  <1>6. ASSUME NEW methods \in SUBSET Methods, TriesAnother(methods), ~Plans, ~Kills,
               Mine.at # "none",
               Settled => journal[Mine.job].latest = "failed"
        PROVE  SpentInv'
    <2>1. PICK m \in methods : pc' = "previewing" /\ Starts(Mine.job, m, FALSE) /\ todo' = todo
      BY <1>6 DEF TriesAnother
    <2>2. /\ Mine'.at = "resolving" /\ Mine'.job = Mine.job /\ Mine'.method = m
          /\ Mine'.seen = journal[Mine.job] /\ child'["operator"] = child["operator"]
      BY <2>1, <1>0, <1>6, StartedFacts
    <2>3. m # None
      BY <1>0
    <2>4. Settled => Settled'
      BY <2>1, <2>2, <2>3, <1>6 DEF Settled
    <2> QED
      BY <2>1, <2>2, <2>4, <1>2, <1>6 DEF SpentInv
  <1>7. ASSUME NEW owes, Closes(owes), ~Plans, ~Kills
        PROVE  SpentInv'
    <2>1. Mine'.at = "none" /\ child'["operator"] = child["operator"] /\ todo' = todo
      BY <1>7 DEF Closes, Mine, TInv, TypeOK, Runners, NoChild
    <2> QED
      BY <2>1, <1>2, <1>7
  <1>8. CASE JudgesPreview
    <2>1. pc = "previewing" /\ Mine.at = "ended" /\ ~Plans /\ ~Kills
      BY <1>8 DEF JudgesPreview, At, Mine, Plans, Kills
    <2>2. Settled => ~Mine.ready /\ Mine.reason # "retryable"
      BY <2>1 DEF Settled
    <2>3. CASE /\ Mine.ready
               /\ pc' = "executing" /\ Starts(Mine.job, Mine.method, TRUE)
               /\ UNCHANGED <<todo, inventory, reserved, indebted, others>>
      <3>1. Mine'.job = Mine.job /\ child'["operator"] = child["operator"]
        BY <2>1, <2>3, <1>0, StartedFacts
      <3>2. ~Settled
        BY <2>2, <2>3
      <3> QED
        BY <2>1, <2>3, <3>1, <3>2, <1>2 DEF SpentInv
    <2>4. CASE Mine.reason = "retryable" /\ TriesAnother(others)
      BY <2>1, <2>2, <2>4, <1>6 DEF TInv, TypeOK
    <2>5. CASE Closes(indebted)
      BY <2>1, <2>5, <1>7
    <2> QED
      BY <1>8, <2>3, <2>4, <2>5 DEF JudgesPreview
  <1>9. CASE JudgesExecution
    <2>1. pc = "executing" /\ Mine.at = "ended" /\ ~Plans /\ ~Kills
      BY <1>9 DEF JudgesExecution, At, Mine, Plans, Kills
    <2>2. CASE Retryable(Mine) /\ TriesAnother(MethodsOf(Mine.job) \ {Mine.method})
      <3>1. Settled => journal[Mine.job].latest = "failed"
        BY <2>1, <2>2 DEF Settled, Retryable
      <3>2. MethodsOf(Mine.job) \subseteq Methods
        BY <1>0, <2>1, CandidateFacts
      <3> QED
        BY <2>1, <2>2, <3>1, <3>2, <1>6
    <2>3. CASE Closes(indebted \/ MayHaveDebited(Mine))
      BY <2>1, <2>3, <1>7
    <2> QED
      BY <1>9, <2>2, <2>3 DEF JudgesExecution
  <1>10. CASE Kills
    <2>1. /\ Mine'.job = Mine.job /\ Settled' /\ Mine.job \notin todo /\ Mine.job \in Resources
          /\ UNCHANGED <<round, todo, debits>> /\ child'["operator"] = child["operator"]
          /\ orphans' \in {orphans, orphans \cup {<<"autopilot", Mine.job, round>>}}
          /\ orphans' # orphans => Mine.at = "sending" /\ Mine.leg = 1
          /\ Mine.at # "none"
      BY <1>10, KillSettles
    <2>2. ASSUME orphans' # orphans PROVE ~Spent(Mine.job)
      <3>1. Mine.at = "sending" /\ Mine.leg = 1
        BY <2>1, <2>2
      <3>2. ~Settled
        BY <3>1 DEF Settled
      <3> QED
        BY <2>1, <3>2 DEF SpentInv
    <2>3. orphans' # orphans => ~(debits[Mine.job]["autopilot"] > 0)
      BY <2>2 DEF Spent
    <2> QED
      BY <2>1, <2>3 DEF SpentInv, Spent
  <1>11. CASE RoundEnds
    <2>1. pc = "picking" /\ child' = child /\ todo' = todo
      BY <1>11 DEF RoundEnds
    <2>2. Mine.at = "none" /\ ~Plans /\ ~Kills
      BY <2>1, <1>0 DEF MineInv, Plans, Kills
    <2> QED
      BY <2>1, <2>2, <1>2 DEF Mine
  <1> QED
    BY <1>1, <1>4, <1>5, <1>8, <1>9, <1>10, <1>11 DEF Autopilot

LEMMA AutopilotOwedInv ==
    ASSUME TInv, Autopilot, OwedInv
    PROVE  OwedInv'
  <1>0. /\ MineInv
        /\ Mine.at # "none" => Mine.job \in Resources
    BY DEF TInv, ChildInv, Mine, Runners
  <1>1. CASE Plans
    BY <1>1, AutopilotSpends DEF OwedInv
  \* Where nothing is spent, what was is to be reserved.
  <1>2. ASSUME ~Plans, ~Kills, todo' \subseteq todo, reserved \subseteq reserved',
               unshown' = unshown,
               \A r \in Resources :
                  Spent(r) /\ r \notin todo /\ Mine.at # "none" /\ Mine.job = r /\ Owing =>
                      r \in reserved' \/ (Mine'.at # "none" /\ Mine'.job = r /\ Owing')
        PROVE  OwedInv'
    <2>1. \A r \in Resources : Spent(r)' <=> Spent(r)
      BY <1>2, AutopilotSpends
    <2> QED
      BY <1>2, <2>1 DEF OwedInv
  <1>3. ASSUME pc = "picking" PROVE Mine.at = "none" /\ ~Plans /\ ~Kills
    BY <1>0, <1>3 DEF MineInv, Plans, Kills
  <1>4. ASSUME NEW r \in Resources, Skips(r) \/ Takes(r) PROVE OwedInv'
    BY <1>2, <1>3, <1>4 DEF Skips, Takes, Outside, history
  <1>5. ASSUME NEW methods, TriesAnother(methods), ~Plans, ~Kills, Outside,
               Mine.at # "none", Owing => indebted'
        PROVE  OwedInv'
    <2>1. PICK m \in methods : Starts(Mine.job, m, FALSE)
      BY <1>5 DEF TriesAnother
    <2>2. Mine'.at = "resolving" /\ Mine'.job = Mine.job
      BY <2>1, <1>0, <1>5, StartedFacts
    <2>3. Owing => Owing'
      BY <1>5 DEF Owing
    <2> QED
      BY <2>2, <2>3, <1>2, <1>5 DEF TriesAnother, Outside, history
  <1>6. ASSUME NEW owes, Closes(owes), ~Plans, ~Kills, Outside, Owing => owes
        PROVE  OwedInv'
    <2>1. /\ todo' = todo /\ reserved \subseteq reserved' /\ unshown' = unshown
          /\ Owing => Mine.job \in reserved'
      BY <1>6 DEF Closes, Outside, history
    <2> QED
      BY <2>1, <1>2, <1>6
  <1>7. CASE JudgesPreview
    <2>1. pc = "previewing" /\ Mine.at = "ended" /\ ~Plans /\ ~Kills /\ Outside
      BY <1>7 DEF JudgesPreview, At, Mine, Plans, Kills
    <2>2. Owing => indebted
      BY <2>1 DEF Owing
    <2>3. CASE /\ Starts(Mine.job, Mine.method, TRUE)
               /\ UNCHANGED <<todo, inventory, reserved, indebted, others>>
      <3>1. Mine'.at = "resolving" /\ Mine'.job = Mine.job
        BY <2>1, <2>3, <1>0, StartedFacts
      <3>2. Owing => Owing'
        BY <2>2, <2>3 DEF Owing
      <3> QED
        BY <2>1, <2>3, <3>1, <3>2, <1>2 DEF Outside, history
    <2>4. CASE TriesAnother(others) /\ UNCHANGED indebted
      BY <2>1, <2>2, <2>4, <1>5
    <2>5. CASE Closes(indebted)
      BY <2>1, <2>2, <2>5, <1>6
    <2> QED
      BY <1>7, <2>3, <2>4, <2>5 DEF JudgesPreview
  <1>8. CASE JudgesExecution
    <2> DEFINE owes == indebted \/ MayHaveDebited(Mine)
    <2>1. pc = "executing" /\ Mine.at = "ended" /\ ~Plans /\ ~Kills /\ Outside
      BY <1>8 DEF JudgesExecution, At, Mine, Plans, Kills
    <2>2. Owing => owes
      BY <2>1 DEF Owing
    <2>3. CASE TriesAnother(MethodsOf(Mine.job) \ {Mine.method}) /\ indebted' = owes
      BY <2>1, <2>2, <2>3, <1>5
    <2>4. CASE Closes(owes)
      BY <2>1, <2>2, <2>4, <1>6
    <2> QED
      BY <1>8, <2>3, <2>4 DEF JudgesExecution
  <1>9. CASE Kills
    <2>1. /\ Mine'.at = "ended" /\ Mine'.job = Mine.job /\ Mine.job \notin todo
          /\ Owing => Owing'
          /\ UNCHANGED <<round, todo, reserved, debits, unshown>>
          /\ orphans' \in {orphans, orphans \cup {<<"autopilot", Mine.job, round>>}}
          /\ orphans' # orphans => Owing'
      BY <1>9, KillSettles
    <2> QED
      BY <2>1 DEF OwedInv, Spent
  <1>10. CASE RoundEnds
    BY <1>2, <1>3, <1>10 DEF RoundEnds, Outside, history
  <1> QED
    BY <1>1, <1>4, <1>7, <1>8, <1>9, <1>10 DEF Autopilot

LEMMA LateSpends ==
    ASSUME TInv, NEW o \in orphans, SignsLate(o)
    PROVE  /\ UNCHANGED <<round, child, pc, todo, reserved, indebted, journal, manual, unshown>>
           /\ \A r \in Resources :
                 /\ Spent(r)' => Spent(r)
                 /\ <<"autopilot", r, round>> \in orphans' => <<"autopilot", r, round>> \in orphans
                 /\ debits'[r]["autopilot"] # debits[r]["autopilot"] =>
                       /\ debits'[r]["autopilot"] = debits[r]["autopilot"] + 1
                       /\ <<"autopilot", r, round>> \in orphans \ orphans'
  <1>1. /\ UNCHANGED <<round, child, pc, todo, reserved, indebted, journal, manual, unshown>>
        /\ orphans' = orphans \ {o} /\ Debits(o[1], o[2], o[3])
    BY DEF SignsLate, auto
  <1>2. debits \in [Resources -> [Runners -> Nat]]
    BY DEF TInv, TypeOK
  <1>3. PICK q \in Runners, s \in Resources, n \in 0..MaxRounds : o = <<q, s, n>>
    BY DEF TInv, TypeOK
  <1>4. /\ UNCHANGED debits \/ (n = round /\ debits' = [debits EXCEPT ![s][q] = @ + 1])
    BY <1>1, <1>3 DEF Debits
  <1>5. ASSUME NEW r \in Resources
        PROVE  debits'[r]["autopilot"] # debits[r]["autopilot"] =>
                   /\ debits'[r]["autopilot"] = debits[r]["autopilot"] + 1
                   /\ o = <<"autopilot", r, round>>
    <2>1. CASE UNCHANGED debits
      BY <2>1
    <2>2. CASE n = round /\ debits' = [debits EXCEPT ![s][q] = @ + 1]
      BY <2>2, <1>2, <1>3 DEF Runners
    <2> QED
      BY <1>4, <2>1, <2>2
  <1> QED
    BY <1>1, <1>5 DEF Spent

-----------------------------------------------------------------------------
(* The theorems.                                                           *)

LEMMA InvInit == Init => IInv
  <1> SUFFICES ASSUME Init PROVE IInv
    OBVIOUS
  <1>1. /\ child["operator"] = NoChild /\ orphans = {} /\ NoChild.at = "none"
        /\ \A r \in Resources : debits[r]["autopilot"] = 0
    BY DEF Init, NoChild, Runners
  <1>2. \A r \in Resources : ~Spent(r)
    BY <1>1 DEF Spent
  <1> QED
    BY <1>1, <1>2, TInvInit DEF IInv, SpentInv, OwedInv

LEMMA InvStep ==
    ASSUME IInv, [Next]_vars
    PROVE  IInv'
  <1>1. TInv /\ TInv' /\ OwedInv /\ (manual = 0 => SpentInv)
    BY TInvStep DEF IInv
  <1>2. ASSUME NEW p \in Runners, Run(p) PROVE IInv'
    <2>1. manual' = manual
      BY <1>1, <1>2, RunTouches DEF Touches, Elsewhere
    <2> QED
      BY <1>1, <1>2, <2>1, RunSpentInv, RunOwedInv DEF IInv
  <1>3. CASE Autopilot
    <2>1. manual' = manual
      BY <1>3 DEF Autopilot, Plans, Skips, Takes, JudgesPreview, JudgesExecution, Kills, RoundEnds,
                  Outside
    <2> QED
      BY <1>1, <1>3, <2>1, AutopilotSpentInv, AutopilotOwedInv DEF IInv
  <1>4. CASE OperatorRuns
    <2>1. manual' # 0
      BY <1>1, <1>4, RefillAssumption DEF OperatorRuns, TInv, TypeOK, RefillAssumption
    <2>2. Mine' = Mine /\ UNCHANGED <<round, orphans, auto, history>>
      BY <1>1, <1>4 DEF OperatorRuns, Mine, TInv, TypeOK, Runners
    <2>3. OwedInv'
      BY <1>1, <2>2 DEF OwedInv, Spent, Owing, MayHaveDebited, auto, history
    <2> QED
      BY <1>1, <2>1, <2>3 DEF IInv
  <1>5. ASSUME NEW o \in orphans, SignsLate(o) PROVE IInv'
    <2>1. /\ UNCHANGED <<round, child, pc, todo, reserved, indebted, journal, manual, unshown>>
          /\ \A r \in Resources :
                /\ Spent(r)' => Spent(r)
                /\ <<"autopilot", r, round>> \in orphans' => <<"autopilot", r, round>> \in orphans
                /\ debits'[r]["autopilot"] # debits[r]["autopilot"] =>
                      /\ debits'[r]["autopilot"] = debits[r]["autopilot"] + 1
                      /\ <<"autopilot", r, round>> \in orphans \ orphans'
      BY <1>1, <1>5, LateSpends
    <2>2. Mine' = Mine /\ (Settled' <=> Settled) /\ (Owing' <=> Owing)
      BY <2>1 DEF Mine, Settled, Owing
    <2>3. OwedInv'
      BY <1>1, <2>1, <2>2 DEF OwedInv
    <2>4. \A r \in Resources : debits[r]["autopilot"] \in Nat
      BY <1>1 DEF TInv, TypeOK, Runners
    <2>5. SpentInv => SpentInv'
      BY <2>1, <2>2, <2>4 DEF SpentInv
    <2> QED
      BY <1>1, <2>1, <2>3, <2>5 DEF IInv
  <1>6. CASE UNCHANGED vars
    BY <1>1, <1>6 DEF vars, auto, history, IInv, SpentInv, OwedInv, Spent, Settled, Owing,
                      MayHaveDebited, Mine
  <1> QED
    BY <1>2, <1>3, <1>4, <1>5, <1>6 DEF Next

LEMMA InvHolds == Spec => []IInv
  BY InvInit, InvStep, PTL DEF Spec

\* Over any number of rounds, resources, methods and legs, the autopilot debits
\* the source at most once in a round for a job that nobody else runs.
THEOREM DebitedOncePerRoundAlways == Spec => []DebitedOncePerRound
  <1>1. IInv => DebitedOncePerRound
    BY DEF IInv, SpentInv, DebitedOncePerRound
  <1> QED
    BY <1>1, InvHolds, PTL

\* And, whoever else runs jobs, what its earlier jobs took from the source is
\* reserved, but for a run whose report lost the debit.
THEOREM DebitsReservedAlways == Spec => []DebitsReserved
  <1>1. ASSUME IInv PROVE DebitsReserved
    <2>1. pc = "picking" => Mine.at = "none"
      BY <1>1 DEF IInv, TInv, MineInv
    <2> QED
      BY <1>1, <2>1 DEF IInv, OwedInv, Spent, DebitsReserved
  <1> QED
    BY <1>1, InvHolds, PTL
=============================================================================
