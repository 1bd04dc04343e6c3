---------------------------- MODULE LockerProofs ----------------------------
(***************************************************************************)
(* IInv is an inductive invariant of Locker, for every bound, and implies  *)
(* the safety properties that the runs check on small instances.           *)
(*                                                                         *)
(* The proof follows the split of IInv.  AuthInv talks about the PAM       *)
(* threads, the authentication state and the password pill; LockInv about  *)
(* the lock object, the unlock request and its announcement.  They share   *)
(* `unlocking' only, and an action that leaves one side alone keeps it by  *)
(* a frame lemma.                                                          *)
(*                                                                         *)
(* Three parts: PamAttempts, whose every operation preserves PamInv and    *)
(* has the effect on Pending that the locker relies on; the invariant of   *)
(* the locker; and the refinement of FailSecureLock.                       *)
(***************************************************************************)
EXTENDS Locker, FiniteSetTheorems, TLAPS

-----------------------------------------------------------------------------
(* Part 1: the attempts.                                                   *)

(* The set of slot holders is finite.                                      *)
LEMMA HoldersFinite == PamTypeOK => IsFiniteSet(SlotHolders)
<1> SUFFICES ASSUME PamTypeOK PROVE IsFiniteSet(SlotHolders)
  OBVIOUS
<1>1. IsFiniteSet(Gens)
  BY PamAssumption, FS_Interval DEF PamAssumption, Gens
<1>2. SlotHolders \subseteq Gens
  BY DEF SlotHolders
<1>3. QED
  BY <1>1, <1>2, FS_Subset

(* What Report adds to the channel.                                        *)
LEMMA ReportAppends ==
    ASSUME PamTypeOK, NEW g \in Gens, NEW r \in Verdicts, Report(g, r)
    PROVE  /\ results' \in Seq(Outcomes)
           /\ DOMAIN results = 1..Len(results)
           /\ DOMAIN results' = 1..(Len(results) + 1)
           /\ Len(results) \in Nat
           /\ \A i \in DOMAIN results : results'[i] = results[i]
           /\ results'[Len(results) + 1] = [gen |-> g, result |-> r]
<1>1. [gen |-> g, result |-> r] \in Outcomes
  BY DEF Outcomes
<1>2. QED
  BY <1>1 DEF PamTypeOK, Report

(* Who is reported after Report.                                           *)
LEMMA ReportReports ==
    ASSUME PamTypeOK, NEW g \in Gens, NEW r \in Verdicts, Report(g, r)
    PROVE  \A h \in Gens : Reported(h)' <=> Reported(h) \/ h = g
<1>1. /\ DOMAIN results = 1..Len(results)
      /\ DOMAIN results' = 1..(Len(results) + 1)
      /\ Len(results) \in Nat
      /\ \A i \in DOMAIN results : results'[i] = results[i]
      /\ results'[Len(results) + 1] = [gen |-> g, result |-> r]
  BY ReportAppends
<1>2. results'[Len(results) + 1].gen = g
  BY <1>1
<1>3. QED
  BY <1>1, <1>2 DEF Reported

(* Reporting an attempt that is not in the channel keeps the channel       *)
(* consistent with the threads.                                            *)
LEMMA ReportKeepsChannel ==
    ASSUME PamInv, NEW g \in Gens, NEW r \in Verdicts,
           Report(g, r), ~Reported(g),
           waiter' \in [Gens -> {"none", "waiting", "relayed", "timedout",
                                 "rejected"}],
           \A h \in Gens \ {g} : waiter'[h] = waiter[h],
           waiter'[g] \in {"relayed", "timedout", "rejected"},
           answer' = answer,
           r = "Ok" => waiter'[g] = "relayed" /\ answer[g] = "Ok"
    PROVE  ReportedOnce' /\ OkIsPams'
<1>1. PamTypeOK /\ ReportedOnce /\ OkIsPams
  BY DEF PamInv
<1>2. \A h \in Gens : Reported(h)' <=> Reported(h) \/ h = g
  BY <1>1, ReportReports
<1>3. /\ DOMAIN results = 1..Len(results)
      /\ DOMAIN results' = 1..(Len(results) + 1)
      /\ Len(results) \in Nat
      /\ \A i \in DOMAIN results : results'[i] = results[i]
      /\ results'[Len(results) + 1] = [gen |-> g, result |-> r]
  BY <1>1, ReportAppends
<1>4. \A i \in DOMAIN results : results[i].gen \in Gens /\ results[i].gen # g
  <2>1. \A i \in DOMAIN results : results[i] \in Outcomes
    BY <1>1 DEF PamTypeOK
  <2>2. QED
    BY <2>1 DEF Outcomes, Reported
<1>5. ReportedOnce'
  <2>1. \A h \in Gens : waiter'[h] \in {"none", "waiting"} => ~Reported(h)'
    BY <1>1, <1>2 DEF ReportedOnce
  <2>2. \A i, j \in DOMAIN results' :
            results'[i].gen = results'[j].gen => i = j
    BY <1>1, <1>3, <1>4 DEF ReportedOnce
  <2>3. QED
    BY <2>1, <2>2 DEF ReportedOnce
<1>6. OkIsPams'
  BY <1>1, <1>3, <1>4 DEF OkIsPams
<1>7. QED
  BY <1>5, <1>6

(* The initial state satisfies the invariant.                              *)
LEMMA PamInitInv == PamInit => PamInv
<1> SUFFICES ASSUME PamInit PROVE PamInv
  OBVIOUS
<1>1. PamTypeOK /\ ReportedOnce /\ OkIsPams /\ AnswerFollowsWorker
  BY DEF PamInit, PamTypeOK, ReportedOnce, OkIsPams, AnswerFollowsWorker,
         Reported
<1>2. SlotHolders = {}
  BY DEF PamInit, SlotHolders
<1>3. SlotsHonest
  BY <1>2, FS_EmptySet, PamAssumption DEF PamInit, SlotsHonest, PamAssumption
<1>4. QED
  BY <1>1, <1>3 DEF PamInv

(* Starting an attempt under a fresh generation, with or without a slot.   *)
LEMMA SpawnKeepsInv ==
    ASSUME PamInv, NEW g \in Gens, worker[g] = "none", waiter[g] = "none",
           SpawnCheck(g)
    PROVE  /\ PamInv'
           /\ Pending(g)'
           /\ \A h \in Gens \ {g} : Pending(h)' <=> Pending(h)
<1>1. PamTypeOK /\ ReportedOnce /\ OkIsPams /\ AnswerFollowsWorker
      /\ SlotsHonest
  BY DEF PamInv
<1>2. ~Reported(g)
  BY <1>1 DEF ReportedOnce
<1>3. CASE /\ ReserveAttempt
           /\ worker' = [worker EXCEPT ![g] = "running"]
           /\ waiter' = [waiter EXCEPT ![g] = "waiting"]
           /\ UNCHANGED <<answer, results>>
  <2>1. PamTypeOK'
    BY <1>1, <1>3 DEF PamTypeOK, ReserveAttempt
  <2>2. \A h : Reported(h)' <=> Reported(h)
    BY <1>3 DEF Reported
  <2>3. ReportedOnce'
    BY <1>1, <1>2, <1>3, <2>2 DEF ReportedOnce, PamTypeOK
  <2>4. OkIsPams'
    BY <1>1, <1>2, <1>3 DEF OkIsPams, PamTypeOK, Outcomes, Reported
  <2>5. AnswerFollowsWorker'
    BY <1>1, <1>3 DEF AnswerFollowsWorker, PamTypeOK
  <2>6. SlotsHonest'
    <3>1. SlotHolders' = SlotHolders \union {g} /\ g \notin SlotHolders
      BY <1>1, <1>3 DEF SlotHolders, PamTypeOK
    <3>2. Cardinality(SlotHolders') = Cardinality(SlotHolders) + 1
      BY <1>1, <3>1, HoldersFinite, FS_AddElement
    <3>3. QED
      BY <1>1, <1>3, <3>2, PamAssumption
         DEF SlotsHonest, ReserveAttempt, PamTypeOK, PamAssumption
  <2>7. Pending(g)' /\ \A h \in Gens \ {g} : Pending(h)' <=> Pending(h)
    BY <1>1, <1>3, <2>2 DEF Pending, PamTypeOK
  <2>8. QED
    BY <2>1, <2>3, <2>4, <2>5, <2>6, <2>7 DEF PamInv
<1>4. CASE /\ ~(inFlight < MaxInFlight)
           /\ waiter' = [waiter EXCEPT ![g] = "rejected"]
           /\ Report(g, "Authenticate")
           /\ UNCHANGED <<worker, answer, inFlight>>
  <2>0. "Authenticate" \in Verdicts
    BY DEF Verdicts
  <2>1. PamTypeOK'
    BY <1>1, <1>4, <2>0, ReportAppends DEF PamTypeOK
  <2>2. \A h \in Gens : Reported(h)' <=> Reported(h) \/ h = g
    BY <1>1, <1>4, <2>0, ReportReports
  <2>3. ReportedOnce' /\ OkIsPams'
    <3>1. /\ \A h \in Gens \ {g} : waiter'[h] = waiter[h]
          /\ waiter'[g] = "rejected"
          /\ answer' = answer
      BY <1>1, <1>4 DEF PamTypeOK
    <3>2. waiter' \in [Gens -> {"none", "waiting", "relayed", "timedout",
                                "rejected"}]
      BY <2>1 DEF PamTypeOK
    <3>3. QED
      BY <1>2, <1>4, <2>0, <3>1, <3>2, ReportKeepsChannel
  <2>4. AnswerFollowsWorker'
    BY <1>1, <1>4 DEF AnswerFollowsWorker
  <2>5. SlotsHonest'
    BY <1>1, <1>4 DEF SlotsHonest, SlotHolders
  <2>6. Pending(g)' /\ \A h \in Gens \ {g} : Pending(h)' <=> Pending(h)
    BY <1>1, <1>4, <2>2 DEF Pending, PamTypeOK
  <2>7. QED
    BY <2>1, <2>3, <2>4, <2>5, <2>6 DEF PamInv
<1>5. QED
  BY <1>3, <1>4 DEF SpawnCheck

(* The PAM call returning, whether or not anybody still waits for it.      *)
LEMMA ReturnKeepsInv ==
    ASSUME PamInv, NEW g \in Gens, NEW r \in Verdicts, PamReturns(g, r)
    PROVE  PamInv' /\ \A h : Pending(h)' <=> Pending(h)
<1>1. PamTypeOK /\ ReportedOnce /\ OkIsPams /\ AnswerFollowsWorker
      /\ SlotsHonest
  BY DEF PamInv
<1>2. "none" \notin Verdicts
  BY DEF Verdicts
<1>3. PamTypeOK'
  BY <1>1 DEF PamTypeOK, PamReturns
<1>4. \A h : Reported(h)' <=> Reported(h)
  BY DEF Reported, PamReturns
<1>5. ReportedOnce'
  BY <1>1, <1>4 DEF ReportedOnce, PamReturns
<1>6. OkIsPams'
  <2>1. answer[g] = "none"
    BY <1>1 DEF AnswerFollowsWorker, PamReturns
  <2>2. \A i \in DOMAIN results :
            results[i].result = "Ok" => results[i].gen # g
    BY <1>1, <2>1 DEF OkIsPams
  <2>3. QED
    BY <1>1, <2>2 DEF OkIsPams, PamReturns, PamTypeOK, Outcomes
<1>7. AnswerFollowsWorker'
  BY <1>1, <1>2 DEF AnswerFollowsWorker, PamReturns, PamTypeOK
<1>8. SlotHolders' = SlotHolders
  BY <1>1 DEF SlotHolders, PamReturns, PamTypeOK
<1>9. SlotsHonest'
  BY <1>1, <1>8 DEF SlotsHonest, PamReturns
<1>10. \A h : Pending(h)' <=> Pending(h)
  BY <1>4 DEF Pending, PamReturns
<1>11. QED
  BY <1>3, <1>5, <1>6, <1>7, <1>9, <1>10 DEF PamInv

(* The slot is freed with the thread that made the call.                   *)
LEMMA DropKeepsInv ==
    ASSUME PamInv, NEW g \in Gens, DropSlot(g)
    PROVE  PamInv' /\ \A h : Pending(h)' <=> Pending(h)
<1>1. PamTypeOK /\ ReportedOnce /\ OkIsPams /\ AnswerFollowsWorker
      /\ SlotsHonest
  BY DEF PamInv
<1>2. SlotHolders' = SlotHolders \ {g} /\ g \in SlotHolders
  BY <1>1 DEF SlotHolders, DropSlot, PamTypeOK
<1>3. /\ Cardinality(SlotHolders') = Cardinality(SlotHolders) - 1
      /\ Cardinality(SlotHolders) \in Nat
      /\ Cardinality(SlotHolders) # 0
  <2>1. IsFiniteSet(SlotHolders)
    BY <1>1, HoldersFinite
  <2>2. QED
    BY <1>2, <2>1, FS_RemoveElement, FS_EmptySet, FS_CardinalityType
<1>4. inFlight' = Cardinality(SlotHolders') /\ inFlight' \in Nat
  BY <1>1, <1>3 DEF SlotsHonest, DropSlot
<1>5. SlotsHonest'
  BY <1>1, <1>4, PamAssumption
     DEF SlotsHonest, DropSlot, PamTypeOK, PamAssumption
<1>6. PamTypeOK'
  BY <1>1, <1>4 DEF PamTypeOK, DropSlot
<1>7. \A h : Reported(h)' <=> Reported(h)
  BY DEF Reported, DropSlot
<1>8. ReportedOnce' /\ OkIsPams'
  BY <1>1, <1>7 DEF ReportedOnce, OkIsPams, DropSlot
<1>9. AnswerFollowsWorker'
  BY <1>1 DEF AnswerFollowsWorker, DropSlot, PamTypeOK
<1>10. \A h : Pending(h)' <=> Pending(h)
  BY <1>7 DEF Pending, DropSlot
<1>11. QED
  BY <1>5, <1>6, <1>8, <1>9, <1>10 DEF PamInv

(* The waiter reports, with an answer or without one.                      *)
LEMMA WaiterKeepsInv ==
    ASSUME PamInv, NEW g \in Gens, WaiterRelays(g) \/ WaiterTimesOut(g)
    PROVE  PamInv' /\ \A h \in Gens : Pending(h)' <=> Pending(h)
<1>1. PamTypeOK /\ ReportedOnce /\ OkIsPams /\ AnswerFollowsWorker
      /\ SlotsHonest
  BY DEF PamInv
<1>2. ~Reported(g) /\ waiter[g] = "waiting"
  BY <1>1 DEF ReportedOnce, WaiterRelays, WaiterTimesOut
<1>3. PICK r \in Verdicts, w \in {"relayed", "timedout"} :
          /\ Report(g, r)
          /\ waiter' = [waiter EXCEPT ![g] = w]
          /\ r = "Ok" => w = "relayed" /\ answer[g] = "Ok"
  BY <1>1 DEF WaiterRelays, WaiterTimesOut, PamTypeOK, Verdicts
<1>4. UNCHANGED <<worker, answer, inFlight>>
  BY DEF WaiterRelays, WaiterTimesOut
<1>5. PamTypeOK'
  BY <1>1, <1>3, <1>4, ReportAppends DEF PamTypeOK
<1>6. \A h \in Gens : Reported(h)' <=> Reported(h) \/ h = g
  BY <1>1, <1>3, ReportReports
<1>7. ReportedOnce' /\ OkIsPams'
  <2>1. /\ \A h \in Gens \ {g} : waiter'[h] = waiter[h]
        /\ waiter'[g] = w
        /\ answer' = answer
    BY <1>1, <1>3, <1>4 DEF PamTypeOK
  <2>2. waiter' \in [Gens -> {"none", "waiting", "relayed", "timedout",
                              "rejected"}]
    BY <1>5 DEF PamTypeOK
  <2>3. QED
    BY <1>2, <1>3, <2>1, <2>2, ReportKeepsChannel
<1>8. AnswerFollowsWorker'
  BY <1>1, <1>4 DEF AnswerFollowsWorker
<1>9. SlotsHonest'
  BY <1>1, <1>4 DEF SlotsHonest, SlotHolders
<1>10. \A h \in Gens : Pending(h)' <=> Pending(h)
  BY <1>1, <1>2, <1>3, <1>6 DEF Pending, PamTypeOK
<1>11. QED
  BY <1>5, <1>7, <1>8, <1>9, <1>10 DEF PamInv

(* The event loop takes the oldest outcome: that attempt, and no other, is *)
(* no longer pending.                                                      *)
LEMMA ConsumeKeepsInv ==
    ASSUME PamInv, results # <<>>, results' = Tail(results),
           UNCHANGED <<worker, waiter, answer, inFlight>>,
           NEW first, first = Head(results).gen
    PROVE  /\ PamInv'
           /\ Head(results) \in Outcomes
           /\ first \in Gens
           /\ Pending(first)
           /\ ~Pending(first)'
           /\ \A h \in Gens \ {first} : Pending(h)' <=> Pending(h)
           /\ Head(results).result = "Ok" =>
                  waiter[first] = "relayed" /\ answer[first] = "Ok"
<1>1. PamTypeOK /\ ReportedOnce /\ OkIsPams /\ AnswerFollowsWorker
      /\ SlotsHonest
  BY DEF PamInv
<1>2. /\ Len(results) \in Nat \ {0}
      /\ DOMAIN results = 1..Len(results)
      /\ DOMAIN results' = 1..(Len(results) - 1)
      /\ results' \in Seq(Outcomes)
      /\ \A i \in DOMAIN results' : results'[i] = results[i + 1]
      /\ Head(results) = results[1]
      /\ results[1] \in Outcomes
  BY <1>1 DEF PamTypeOK
<1>3. first \in Gens /\ Reported(first) /\ 1 \in DOMAIN results
  BY <1>2 DEF Outcomes, Reported
<1>4. \A i \in DOMAIN results' : i + 1 \in DOMAIN results /\ i + 1 # 1
  BY <1>2
<1>5. ~Reported(first)'
  BY <1>1, <1>2, <1>3, <1>4 DEF Reported, ReportedOnce
<1>6. \A h \in Gens \ {first} : Reported(h)' <=> Reported(h)
  <2>1. ASSUME NEW h \in Gens \ {first}, Reported(h)
        PROVE  Reported(h)'
    <3>1. PICK i \in DOMAIN results : results[i].gen = h
      BY <2>1 DEF Reported
    <3>2. i - 1 \in DOMAIN results' /\ results'[i - 1] = results[i]
      BY <1>2, <3>1
    <3>3. QED
      BY <3>1, <3>2 DEF Reported
  <2>2. ASSUME NEW h \in Gens \ {first}, Reported(h)'
        PROVE  Reported(h)
    BY <1>2, <1>4, <2>2 DEF Reported
  <2>3. QED
    BY <2>1, <2>2
<1>7. ReportedOnce'
  <2>1. \A h \in Gens : waiter'[h] \in {"none", "waiting"} => ~Reported(h)'
    BY <1>1, <1>5, <1>6 DEF ReportedOnce
  <2>2. \A i, j \in DOMAIN results' :
            results'[i].gen = results'[j].gen => i = j
    <3>1. ASSUME NEW i \in DOMAIN results', NEW j \in DOMAIN results',
                 results'[i].gen = results'[j].gen
          PROVE  i = j
      <4>1. results[i + 1].gen = results[j + 1].gen
        BY <1>2, <3>1
      <4>2. i + 1 = j + 1
        BY <1>1, <1>4, <4>1 DEF ReportedOnce
      <4>3. QED
        BY <1>2, <4>2
    <3>2. QED
      BY <3>1
  <2>3. QED
    BY <2>1, <2>2 DEF ReportedOnce
<1>8. OkIsPams'
  BY <1>1, <1>2, <1>4 DEF OkIsPams
<1>9. PamTypeOK'
  BY <1>1, <1>2 DEF PamTypeOK
<1>10. AnswerFollowsWorker' /\ SlotsHonest'
  BY <1>1 DEF AnswerFollowsWorker, SlotsHonest, SlotHolders
<1>11. waiter[first] # "waiting"
  BY <1>1, <1>3 DEF ReportedOnce
<1>12. ~Pending(first)'
  BY <1>5, <1>11 DEF Pending
<1>13. \A h \in Gens \ {first} : Pending(h)' <=> Pending(h)
  BY <1>6 DEF Pending
<1>14. Head(results).result = "Ok" =>
           waiter[first] = "relayed" /\ answer[first] = "Ok"
  BY <1>1, <1>2, <1>3 DEF OkIsPams
<1>15. QED
  BY <1>2, <1>3, <1>7, <1>8, <1>9, <1>10, <1>12, <1>13, <1>14
     DEF PamInv, Pending
-----------------------------------------------------------------------------
(* Part 2: the inductive invariant of the locker.                          *)

(* An action that leaves the attempts and the screen alone.                *)
LEMMA AuthFrame ==
    ASSUME AuthInv,
           UNCHANGED <<pamVars, authState, authGen, inputVars, unlocking>>
    PROVE  AuthInv'
<1>1. \A h : Pending(h)' <=> Pending(h)
  BY DEF Pending, Reported, pamVars
<1>2. PamInv'
  BY DEF AuthInv, PamInv, PamTypeOK, SlotsHonest, SlotHolders, ReportedOnce,
         Reported, OkIsPams, AnswerFollowsWorker, pamVars
<1>3. QED
  BY <1>1, <1>2 DEF AuthInv, FreshGens, CheckingIsPending, PassedByPam,
                    PillConsistent, pamVars, inputVars

(* An action that leaves the lock and its announcements alone and does not *)
(* take a finished fade back.                                              *)
LEMMA LockFrame ==
    ASSUME LockInv,
           UNCHANGED <<compositorVars, lockHeld, isLocked, emitted>>,
           unlocking = "faded" => unlocking' = "faded"
    PROVE  LockInv'
  BY DEF LockInv, RequestJustified, LockObjectHistory, AnnouncedOnce,
         compositorVars

(* What publishing an event does to the log.                               *)
LEMMA EmitAppends ==
    ASSUME emitted \in Seq({"locked", "unlocked"}),
           NEW e \in {"locked", "unlocked"},
           emitted' = Append(emitted, e)
    PROVE  /\ emitted' \in Seq({"locked", "unlocked"})
           /\ DOMAIN emitted = 1..Len(emitted)
           /\ DOMAIN emitted' = 1..(Len(emitted) + 1)
           /\ Len(emitted) \in Nat
           /\ \A i \in DOMAIN emitted : emitted'[i] = emitted[i]
           /\ emitted'[Len(emitted) + 1] = e
  OBVIOUS

(* The first unlock request comes with the first announcement.             *)
LEMMA EmitUnlocked ==
    ASSUME emitted \in Seq({"locked", "unlocked"}), AnnouncedOnce,
           unlockReq = "none", unlockReq' # "none",
           emitted' = Append(emitted, "unlocked")
    PROVE  AnnouncedOnce'
<1>1. \A i \in DOMAIN emitted : emitted[i] # "unlocked"
  BY DEF AnnouncedOnce
<1>2. /\ DOMAIN emitted = 1..Len(emitted)
      /\ DOMAIN emitted' = 1..(Len(emitted) + 1)
      /\ Len(emitted) \in Nat
      /\ \A i \in DOMAIN emitted : emitted'[i] = emitted[i]
      /\ emitted'[Len(emitted) + 1] = "unlocked"
  BY EmitAppends
<1>3. \A i \in DOMAIN emitted' :
          emitted'[i] = "unlocked" <=> i = Len(emitted) + 1
  BY <1>1, <1>2
<1>4. Len(emitted) + 1 \in DOMAIN emitted'
  BY <1>2
<1>5. QED
  BY <1>3, <1>4 DEF AnnouncedOnce

(* Announcing that the session is locked does not count.                   *)
LEMMA EmitLocked ==
    ASSUME emitted \in Seq({"locked", "unlocked"}), AnnouncedOnce,
           unlockReq' = unlockReq,
           emitted' = Append(emitted, "locked")
    PROVE  AnnouncedOnce'
<1>1. /\ DOMAIN emitted = 1..Len(emitted)
      /\ DOMAIN emitted' = 1..(Len(emitted) + 1)
      /\ Len(emitted) \in Nat
      /\ \A i \in DOMAIN emitted : emitted'[i] = emitted[i]
      /\ emitted'[Len(emitted) + 1] = "locked"
  BY EmitAppends
<1>2. \A i \in DOMAIN emitted' :
          emitted'[i] = "unlocked" <=>
              i \in DOMAIN emitted /\ emitted[i] = "unlocked"
  BY <1>1
<1>3. DOMAIN emitted \subseteq DOMAIN emitted'
  BY <1>1
<1>4. QED
  BY <1>2, <1>3 DEF AnnouncedOnce

(* complete_unlock_if_ready, called by any handler, keeps the lock side.   *)
LEMMA CompleteUnlockKeepsLock ==
    ASSUME TypeOK, LockInv, CompleteUnlockIfReady,
           UNCHANGED <<session, lockObject, toClient>>,
           unlocking = "faded" => unlocking' = "faded"
    PROVE  /\ LockInv'
           /\ lockHeld' \in BOOLEAN /\ isLocked' \in BOOLEAN
           /\ exit' \in BOOLEAN
           /\ emitted' \in Seq({"locked", "unlocked"})
           /\ unlockReq' \in {"none", "queued", "sent", "served"}
<1>1. /\ emitted \in Seq({"locked", "unlocked"})
      /\ lockHeld \in BOOLEAN /\ isLocked \in BOOLEAN /\ exit \in BOOLEAN
      /\ unlockReq \in {"none", "queued", "sent", "served"}
  BY DEF TypeOK, CompositorTypeOK
<1>2. CASE unlocking = "faded" /\ lockHeld
  <2>1. /\ unlockReq = "none" /\ unlockReq' = "queued"
        /\ emitted' = Append(emitted, "unlocked")
        /\ lockHeld' = FALSE /\ isLocked' = isLocked /\ exit' = TRUE
    BY <1>2 DEF LockInv, RequestJustified, CompleteUnlockIfReady
  <2>2. AnnouncedOnce'
    BY <1>1, <2>1, EmitUnlocked DEF LockInv
  <2>3. RequestJustified' /\ LockObjectHistory'
    BY <1>2, <2>1 DEF LockInv, RequestJustified, LockObjectHistory
  <2>4. emitted' \in Seq({"locked", "unlocked"})
    BY <1>1, <2>1, EmitAppends
  <2>5. QED
    BY <1>1, <2>1, <2>2, <2>3, <2>4 DEF LockInv
<1>3. CASE ~(unlocking = "faded" /\ lockHeld)
  <2>1. /\ UNCHANGED <<unlockReq, emitted, isLocked>>
        /\ lockHeld' => lockHeld
        /\ lockHeld' \in BOOLEAN /\ exit' \in BOOLEAN
    BY <1>1, <1>3 DEF CompleteUnlockIfReady, lockVars
  <2>2. LockInv'
    BY <2>1 DEF LockInv, RequestJustified, LockObjectHistory, AnnouncedOnce
  <2>3. QED
    BY <1>1, <2>1, <2>2
<1>4. QED
  BY <1>2, <1>3

(* The initial states satisfy the invariant.                               *)
LEMMA InitInv == Init => IInv
<1> SUFFICES ASSUME Init PROVE IInv
  OBVIOUS
<1>1. PamInv
  BY PamInitInv DEF Init
<1>2. \A g \in Gens : ~Pending(g) /\ waiter[g] = "none" /\ worker[g] = "none"
  BY DEF Init, PamInit, Pending, Reported
<1>3. authGen \notin Gens
  BY PamAssumption DEF Init, Gens, PamAssumption
<1>4. TypeOK
  <2>1. PamTypeOK /\ CompositorTypeOK
    BY <1>1 DEF PamInv, Init, CompositorInit, CompositorTypeOK
  <2>2. authState \in AuthState
    BY DEF Init, AuthState, FailStates
  <2>3. authGen \in 0..MaxGen
    BY PamAssumption DEF Init, PamAssumption
  <2>4. /\ failedGen \in 0..MaxFails /\ failedAttempts \in 0..MaxFails
        /\ errors \in 0..MaxDispatchErrors
        /\ pwLen \in 0..PasswordCap /\ displayLen \in 0..PasswordCap
    BY LockerAssumption DEF Init, LockerAssumption
  <2>5. emitted \in Seq({"locked", "unlocked"})
    BY DEF Init
  <2>6. QED
    BY <2>1, <2>2, <2>3, <2>4, <2>5 DEF Init, TypeOK
<1>5. AuthInv
  BY <1>1, <1>2, <1>3
     DEF Init, AuthInv, FreshGens, CheckingIsPending, PassedByPam,
         PillConsistent, FailStates
<1>6. LockInv
  BY DEF Init, CompositorInit, LockInv, RequestJustified, LockObjectHistory,
         AnnouncedOnce
<1>7. LoopBounds
  BY LockerAssumption DEF Init, LoopBounds, LockerAssumption, Running
<1>8. QED
  BY <1>4, <1>5, <1>6, <1>7 DEF IInv

(* Return with a password: a fresh attempt becomes the current one.        *)
LEMMA KeySubmitInv == IInv /\ KeySubmit => IInv'
<1> SUFFICES ASSUME IInv, KeySubmit PROVE IInv'
  OBVIOUS
<1>1. TypeOK /\ AuthInv /\ LockInv /\ LoopBounds
  BY DEF IInv
<1> DEFINE g == authGen + 1
<1>2. g \in Gens /\ g > authGen /\ authGen' = g /\ authGen # g
  BY <1>1, PamAssumption DEF TypeOK, KeySubmit, Gens, PamAssumption
<1>3. worker[g] = "none" /\ waiter[g] = "none"
  BY <1>1, <1>2 DEF AuthInv, FreshGens
<1>4. SpawnCheck(g)
  BY <1>2 DEF KeySubmit
<1>5. PamInv' /\ \A h \in Gens \ {g} : Pending(h)' <=> Pending(h)
  BY <1>1, <1>2, <1>3, <1>4, SpawnKeepsInv DEF AuthInv
<1>6. Pending(authGen)'
  <2>1. waiter' = [waiter EXCEPT ![g] = "waiting"]
        \/ Report(g, "Authenticate")
    BY <1>4 DEF SpawnCheck
  <2>2. CASE waiter' = [waiter EXCEPT ![g] = "waiting"]
    BY <1>1, <1>2, <2>2 DEF Pending, TypeOK, PamTypeOK
  <2>3. CASE Report(g, "Authenticate")
    <3>1. results' [Len(results) + 1] = [gen |-> g, result |-> "Authenticate"]
          /\ DOMAIN results' = 1..(Len(results) + 1)
          /\ Len(results) \in Nat
      BY <1>1, <1>2, <2>3, ReportAppends DEF TypeOK, Verdicts
    <3>2. Len(results) + 1 \in DOMAIN results'
      BY <3>1
    <3>3. results'[Len(results) + 1].gen = authGen'
      BY <1>2, <3>1
    <3>4. QED
      BY <3>2, <3>3 DEF Pending, Reported
  <2>4. QED
    BY <2>1, <2>2, <2>3
<1>7. TypeOK'
  <2>1. /\ authGen' \in 0..MaxGen
        /\ pwLen' \in 0..PasswordCap /\ displayLen' \in 0..PasswordCap
    BY <1>1, <1>2, LockerAssumption
       DEF KeySubmit, TypeOK, Gens, LockerAssumption
  <2>2. authState' \in AuthState /\ failedGen' = failedGen
        /\ UNCHANGED keyUnchanged
    BY DEF KeySubmit, AuthState
  <2>3. QED
    BY <1>1, <1>5, <2>1, <2>2
       DEF TypeOK, PamInv, keyUnchanged, compositorVars, lockVars, loopVars,
           CompositorTypeOK
<1>8. AuthInv'
  <2>1. FreshGens'
    <3>1. \A h \in Gens \ {g} :
              waiter'[h] = waiter[h] /\ worker'[h] = worker[h]
      BY <1>1, <1>4 DEF SpawnCheck, TypeOK, PamTypeOK
    <3>2. \A h \in Gens : h > g => h > authGen /\ h # g
      BY <1>1, <1>2 DEF TypeOK, Gens
    <3>3. QED
      BY <1>1, <1>2, <3>1, <3>2 DEF AuthInv, FreshGens
  <2>2. CheckingIsPending'
    BY <1>2, <1>6 DEF CheckingIsPending, KeySubmit
  <2>3. PassedByPam' /\ PillConsistent'
    BY <1>1 DEF KeySubmit, Typing, keyUnchanged, PassedByPam, PillConsistent,
                TypeOK, FailStates
  <2>4. QED
    BY <1>5, <2>1, <2>2, <2>3 DEF AuthInv
<1>9. LockInv'
  BY <1>1, LockFrame DEF KeySubmit, keyUnchanged, lockVars
<1>10. LoopBounds'
  BY <1>1 DEF LoopBounds, KeySubmit, keyUnchanged, loopVars, Running
<1>11. QED
  BY <1>7, <1>8, <1>9, <1>10 DEF IInv

(* Escape during a check: the current generation is no attempt any more.   *)
LEMMA KeyCancelInv == IInv /\ KeyCancel => IInv'
<1> SUFFICES ASSUME IInv, KeyCancel PROVE IInv'
  OBVIOUS
<1>1. TypeOK /\ AuthInv /\ LockInv /\ LoopBounds
  BY DEF IInv
<1> DEFINE g == authGen + 1
<1>2. g \in Gens /\ g > authGen /\ authGen' = g
  BY <1>1, PamAssumption DEF TypeOK, KeyCancel, Gens, PamAssumption
<1>3. PamInv' /\ \A h : Pending(h)' <=> Pending(h)
  BY <1>1 DEF AuthInv, KeyCancel, pamVars, PamInv, PamTypeOK, SlotsHonest,
              SlotHolders, ReportedOnce, Reported, OkIsPams,
              AnswerFollowsWorker, Pending
<1>4. ~Pending(g)
  BY <1>1, <1>2 DEF AuthInv, PamInv, FreshGens, Pending, ReportedOnce
<1>5. TypeOK'
  <2>1. /\ authGen' \in 0..MaxGen
        /\ pwLen' \in 0..PasswordCap /\ displayLen' \in 0..PasswordCap
    BY <1>1, <1>2, LockerAssumption
       DEF KeyCancel, TypeOK, Gens, LockerAssumption
  <2>2. authState' \in AuthState /\ failedGen' = failedGen
        /\ UNCHANGED keyUnchanged
    BY DEF KeyCancel, AuthState
  <2>3. QED
    BY <1>1, <1>3, <2>1, <2>2
       DEF TypeOK, PamInv, keyUnchanged, compositorVars, lockVars, loopVars,
           CompositorTypeOK
<1>6. AuthInv'
  <2>1. FreshGens'
    <3>1. \A h \in Gens : h > g => h > authGen
      BY <1>1, <1>2 DEF TypeOK, Gens
    <3>2. QED
      BY <1>1, <1>2, <3>1 DEF AuthInv, FreshGens, KeyCancel, pamVars
  <2>2. ~Pending(authGen)'
    BY <1>2, <1>3, <1>4 DEF Pending, Reported
  <2>3. CheckingIsPending' /\ PassedByPam' /\ PillConsistent'
    BY <1>1, <2>2 DEF KeyCancel, keyUnchanged, CheckingIsPending,
        PassedByPam, PillConsistent, FailStates, AuthInv
  <2>4. QED
    BY <1>3, <2>1, <2>3 DEF AuthInv
<1>7. LockInv'
  BY <1>1, LockFrame DEF KeyCancel, keyUnchanged, lockVars
<1>8. LoopBounds'
  BY <1>1 DEF LoopBounds, KeyCancel, keyUnchanged, loopVars, Running
<1>9. QED
  BY <1>5, <1>6, <1>7, <1>8 DEF IInv

(* The keys that edit the password, and Return without a user name, touch  *)
(* neither threads nor generations.                                        *)
LEMMA EditKeysInv ==
    ASSUME IInv,
           \/ KeySubmitNameless \/ KeyBackSpace \/ KeyEscape
           \/ \E n \in 1..MaxText : KeyText(n)
    PROVE  IInv'
<1>1. TypeOK /\ AuthInv /\ LockInv /\ LoopBounds
  BY DEF IInv
<1>2. /\ UNCHANGED <<pamVars, authGen, keyUnchanged>>
      /\ unlocking = "no" /\ authState # "Checking"
  BY DEF KeySubmitNameless, KeyBackSpace, KeyEscape, KeyText, Typing
<1>3. /\ authState' \in {authState, "Idle", "ConfigError"}
      /\ authState' \in AuthState \ {"Checking"}
      /\ failedGen' \in {failedGen, failedGen + 1}
      /\ failedGen' \in 0..MaxFails
  BY <1>1, <1>2, LockerAssumption
     DEF KeySubmitNameless, KeyBackSpace, KeyEscape, KeyText, EnterFail,
         ClearFailedState, AuthState, FailStates, TypeOK, LockerAssumption
<1>4. pwLen' \in 0..PasswordCap /\ displayLen' \in 0..PasswordCap
  BY <1>1, LockerAssumption
     DEF KeySubmitNameless, KeyBackSpace, KeyEscape, KeyText,
         ClearFailedState, TypeOK, LockerAssumption
<1>5. PamInv' /\ \A h : Pending(h)' <=> Pending(h)
  BY <1>1, <1>2
     DEF AuthInv, pamVars, PamInv, PamTypeOK, SlotsHonest, SlotHolders,
         ReportedOnce, Reported, OkIsPams, AnswerFollowsWorker, Pending
<1>6. TypeOK'
  BY <1>1, <1>2, <1>3, <1>4, <1>5
     DEF TypeOK, PamInv, keyUnchanged, compositorVars, lockVars, loopVars,
         CompositorTypeOK
<1>7. AuthInv'
  <2>1. FreshGens' /\ CheckingIsPending' /\ PassedByPam'
    BY <1>1, <1>2, <1>3, <1>5
       DEF AuthInv, FreshGens, CheckingIsPending, PassedByPam, pamVars,
           keyUnchanged
  <2>2. PillConsistent'
    <3>1. PillConsistent
      BY <1>1 DEF AuthInv
    <3>2. CASE KeySubmitNameless
      BY <1>2, <3>1, <3>2
         DEF KeySubmitNameless, PillConsistent, EnterFail, FailStates,
             keyUnchanged
    <3>3. CASE KeyBackSpace \/ KeyEscape \/ \E n \in 1..MaxText : KeyText(n)
      <4>1. /\ authState \in FailStates =>
                   authState' = "Idle" /\ displayLen' = 0
            /\ authState \notin FailStates =>
                   /\ authState' = authState
                   /\ displayLen' \in {0, displayLen}
        BY <3>3 DEF KeyBackSpace, KeyEscape, KeyText, ClearFailedState
      <4>2. authState \notin FailStates => authState = "Idle"
        BY <1>1, <1>2 DEF TypeOK, AuthState
      <4>3. authState' = "Idle" /\ displayLen' \in {0, displayLen}
            /\ (displayLen' # 0 => authState = "Idle")
        BY <4>1, <4>2
      <4>4. unlocking' = "no" /\ displayLen \in Nat
        BY <1>1, <1>2 DEF keyUnchanged, TypeOK
      <4>5. ~(displayLen' > 0)
        BY <1>2, <3>1, <4>3, <4>4 DEF PillConsistent
      <4>6. QED
        BY <4>3, <4>5 DEF PillConsistent, FailStates
    <3>4. QED
      BY <3>2, <3>3
  <2>3. QED
    BY <1>5, <2>1, <2>2 DEF AuthInv
<1>8. LockInv'
  BY <1>1, <1>2, LockFrame DEF keyUnchanged, lockVars
<1>9. LoopBounds'
  BY <1>1, <1>2, <1>3 DEF LoopBounds, keyUnchanged, loopVars, Running, TypeOK
<1>10. QED
  BY <1>6, <1>7, <1>8, <1>9 DEF IInv

(* The PAM threads.                                                        *)
LEMMA ThreadsInv ==
    ASSUME IInv, NEW g \in Gens, WorkerThread(g) \/ WaiterThread(g)
    PROVE  IInv'
<1>1. TypeOK /\ AuthInv /\ LockInv /\ LoopBounds
  BY DEF IInv
<1>2. UNCHANGED threadUnchanged
  BY DEF WorkerThread, WaiterThread
<1>3. PamInv' /\ \A h \in Gens : Pending(h)' <=> Pending(h)
  BY <1>1, ReturnKeepsInv, DropKeepsInv, WaiterKeepsInv
     DEF WorkerThread, WaiterThread, AuthInv
<1>4. TypeOK'
  BY <1>1, <1>2, <1>3
     DEF TypeOK, PamInv, threadUnchanged, compositorVars, authVars, inputVars,
         lockVars, loopVars, CompositorTypeOK
<1>5. AuthInv'
  <2>1. FreshGens'
    BY <1>1, <1>2
       DEF AuthInv, FreshGens, WorkerThread, WaiterThread, PamReturns,
           DropSlot, WaiterRelays, WaiterTimesOut, threadUnchanged, authVars,
           TypeOK, PamTypeOK
  <2>2. CheckingIsPending' /\ PillConsistent'
    BY <1>1, <1>2, <1>3
       DEF AuthInv, CheckingIsPending, PillConsistent, threadUnchanged,
           authVars, inputVars
  <2>3. PassedByPam'
    <3>1. ASSUME unlocking # "no"
          PROVE  waiter'[authGen] = "relayed" /\ answer'[authGen] = "Ok"
      <4>1. /\ authGen \in Gens
            /\ waiter[authGen] = "relayed"
            /\ answer[authGen] = "Ok"
        BY <1>1, <3>1 DEF AuthInv, PassedByPam
      <4>2. worker[authGen] \notin {"none", "running"}
        BY <1>1, <4>1 DEF AuthInv, PamInv, AnswerFollowsWorker
      <4>3. QED
        BY <1>1, <4>1, <4>2
           DEF WorkerThread, WaiterThread, PamReturns, DropSlot, WaiterRelays,
               WaiterTimesOut, TypeOK, PamTypeOK
    <3>2. QED
      BY <1>1, <1>2, <3>1
         DEF AuthInv, PassedByPam, threadUnchanged, authVars
  <2>4. QED
    BY <1>3, <2>1, <2>2, <2>3 DEF AuthInv
<1>6. LockInv'
  BY <1>1, <1>2, LockFrame DEF threadUnchanged, lockVars
<1>7. LoopBounds'
  BY <1>1, <1>2
     DEF LoopBounds, Running, threadUnchanged, authVars, loopVars
<1>8. QED
  BY <1>4, <1>5, <1>6, <1>7 DEF IInv

(* The result callback.  An outcome of the current generation finds the    *)
(* user still waiting for it; any other changes nothing but the channel.   *)
LEMMA ResultInv == IInv /\ ResultArrives => IInv'
<1> SUFFICES ASSUME IInv, ResultArrives PROVE IInv'
  OBVIOUS
<1>1. TypeOK /\ AuthInv /\ LockInv /\ LoopBounds
  BY DEF IInv
<1>2. PICK first : first = Head(results).gen
  OBVIOUS
<1>3. /\ results # <<>> /\ results' = Tail(results)
      /\ UNCHANGED <<worker, waiter, answer, inFlight>>
      /\ UNCHANGED <<session, lockObject, toClient, inputVars, loopVars>>
  BY DEF ResultArrives
<1>4. /\ PamInv'
      /\ Head(results) \in Outcomes
      /\ first \in Gens
      /\ Pending(first)
      /\ ~Pending(first)'
      /\ \A h \in Gens \ {first} : Pending(h)' <=> Pending(h)
      /\ Head(results).result = "Ok" =>
             waiter[first] = "relayed" /\ answer[first] = "Ok"
  BY <1>1, <1>2, <1>3, ConsumeKeepsInv DEF AuthInv
<1>5. authGen' = authGen
  BY DEF ResultArrives, StaleResult, Authenticated, Rejected, authVars
<1>6. FreshGens'
  BY <1>1, <1>3, <1>5 DEF AuthInv, FreshGens
<1>7. CASE StaleResult
  <2>1. first # authGen
        /\ UNCHANGED <<authVars, clearTimers, unlocking, lockVars, unlockReq>>
    BY <1>2, <1>7 DEF StaleResult
  <2>2. TypeOK'
    BY <1>1, <1>3, <1>4, <2>1
       DEF TypeOK, PamInv, CompositorTypeOK, authVars, inputVars, lockVars,
           loopVars
  <2>3. AuthInv'
    <3>1. authGen \in Gens => (Pending(authGen)' <=> Pending(authGen))
      BY <1>4, <1>5, <2>1 DEF Pending, Reported
    <3>2. QED
      BY <1>1, <1>3, <1>4, <1>5, <1>6, <2>1, <3>1
         DEF AuthInv, CheckingIsPending, PassedByPam, PillConsistent,
             authVars, inputVars, Pending, Reported
  <2>4. LockInv'
    BY <1>1, <1>3, <2>1, LockFrame DEF compositorVars, lockVars
  <2>5. LoopBounds'
    BY <1>1, <1>3, <2>1 DEF LoopBounds, Running, authVars, loopVars
  <2>6. QED
    BY <2>2, <2>3, <2>4, <2>5 DEF IInv
<1>8. ASSUME first = authGen
      PROVE  /\ authState = "Checking" /\ unlocking = "no"
             /\ pwLen = 0 /\ ~Pending(authGen)'
  <2>1. authState = "Checking"
    BY <1>1, <1>4, <1>8 DEF AuthInv, CheckingIsPending
  <2>2. QED
    BY <1>1, <1>4, <1>5, <1>8, <2>1
       DEF AuthInv, PassedByPam, PillConsistent, Pending, Reported
<1>9. CASE Authenticated
  <2>1. first = authGen /\ Head(results).result = "Ok" /\ authState' = "Idle"
        /\ failedAttempts' = 0 /\ CompleteUnlockIfReady
        /\ UNCHANGED <<failedGen, clearTimers>>
    BY <1>2, <1>9 DEF Authenticated
  <2>2. unlocking = "no" /\ unlocking' = "fading" /\ ~Pending(authGen)'
    BY <1>8, <1>9, <2>1 DEF Authenticated
  <2>3. /\ LockInv'
        /\ lockHeld' \in BOOLEAN /\ isLocked' \in BOOLEAN
        /\ exit' \in BOOLEAN
        /\ emitted' \in Seq({"locked", "unlocked"})
        /\ unlockReq' \in {"none", "queued", "sent", "served"}
    BY <1>1, <1>3, <2>1, <2>2, CompleteUnlockKeepsLock
  <2>4. failedAttempts' \in 0..MaxFails
    BY <2>1, LockerAssumption DEF LockerAssumption
  <2>5. TypeOK'
    BY <1>1, <1>3, <1>4, <1>5, <2>1, <2>2, <2>3, <2>4
       DEF TypeOK, PamInv, CompositorTypeOK, inputVars, loopVars, AuthState
  <2>6. AuthInv'
    <3>1. authGen' \in Gens /\ waiter'[authGen'] = "relayed"
          /\ answer'[authGen'] = "Ok"
      BY <1>3, <1>4, <1>5, <2>1
    <3>2. CheckingIsPending' /\ PassedByPam' /\ PillConsistent'
      BY <1>5, <2>1, <2>2, <3>1
         DEF CheckingIsPending, PassedByPam, PillConsistent, FailStates
    <3>3. QED
      BY <1>4, <1>6, <3>2 DEF AuthInv
  <2>7. LoopBounds'
    BY <1>1, <1>3, <2>1 DEF LoopBounds, Running, loopVars, TypeOK
  <2>8. QED
    BY <2>3, <2>5, <2>6, <2>7 DEF IInv
<1>10. CASE Rejected
  <2>1. first = authGen /\ CompleteUnlockIfReady
        /\ failedGen' = failedGen + 1 /\ failedGen < MaxFails
        /\ failedAttempts' \in {failedAttempts, failedAttempts + 1}
        /\ clearTimers' = clearTimers \union {failedGen'}
        /\ unlocking' = unlocking
    BY <1>2, <1>10 DEF Rejected, EnterFail
  <2>2. authState' \in FailStates
    BY <1>4, <1>10
       DEF Rejected, EnterFail, FailStateOf, FailStates, Outcomes, Verdicts
  <2>3. unlocking = "no" /\ ~Pending(authGen)' /\ pwLen = 0
    BY <1>8, <2>1
  <2>4. /\ LockInv'
        /\ lockHeld' \in BOOLEAN /\ isLocked' \in BOOLEAN
        /\ exit' \in BOOLEAN
        /\ emitted' \in Seq({"locked", "unlocked"})
        /\ unlockReq' \in {"none", "queued", "sent", "served"}
    BY <1>1, <1>3, <2>1, CompleteUnlockKeepsLock
  <2>5. /\ failedGen' \in 0..MaxFails
        /\ failedAttempts' \in 0..MaxFails
        /\ failedAttempts' <= failedGen'
        /\ clearTimers' \subseteq 0..MaxFails
    BY <1>1, <2>1, LockerAssumption DEF TypeOK, LoopBounds, LockerAssumption
  <2>6. TypeOK'
    BY <1>1, <1>3, <1>4, <1>5, <2>1, <2>2, <2>4, <2>5
       DEF TypeOK, PamInv, CompositorTypeOK, inputVars, loopVars, AuthState
  <2>7. AuthInv'
    <3>1. authState' \notin {"Checking", "Idle"} /\ unlocking' = "no"
          /\ pwLen' = 0
      BY <1>3, <2>1, <2>2, <2>3 DEF FailStates, inputVars
    <3>2. CheckingIsPending' /\ PassedByPam' /\ PillConsistent'
      BY <1>5, <2>3, <3>1
         DEF CheckingIsPending, PassedByPam, PillConsistent
    <3>3. QED
      BY <1>4, <1>6, <3>2 DEF AuthInv
  <2>8. LoopBounds'
    BY <1>1, <1>3, <2>5 DEF LoopBounds, Running, loopVars
  <2>9. QED
    BY <2>4, <2>6, <2>7, <2>8 DEF IInv
<1>11. QED
  BY <1>7, <1>9, <1>10 DEF ResultArrives

(* A fail-clear timer, with or without effect.                             *)
LEMMA ClearTimerInv ==
    ASSUME IInv, NEW gen \in clearTimers, ClearTimerFires(gen)
    PROVE  IInv'
<1>1. TypeOK /\ AuthInv /\ LockInv /\ LoopBounds
  BY DEF IInv
<1>2. /\ clearTimers' = clearTimers \ {gen}
      /\ UNCHANGED <<pamVars, session, lockObject, toClient, authGen,
                     failedGen, failedAttempts, usernameMissing, pwLen,
                     unlocking, loopVars>>
  BY DEF ClearTimerFires
<1>3. CASE FailTimerApplies(gen)
  <2>1. /\ authState \in FailStates /\ authState' = "Idle"
        /\ displayLen' = 0 /\ CompleteUnlockIfReady
    BY <1>3 DEF ClearTimerFires, FailTimerApplies
  <2>2. PamInv' /\ \A h : Pending(h)' <=> Pending(h)
    BY <1>1, <1>2
       DEF AuthInv, pamVars, PamInv, PamTypeOK, SlotsHonest, SlotHolders,
           ReportedOnce, Reported, OkIsPams, AnswerFollowsWorker, Pending
  <2>3. /\ LockInv'
        /\ lockHeld' \in BOOLEAN /\ isLocked' \in BOOLEAN
        /\ exit' \in BOOLEAN
        /\ emitted' \in Seq({"locked", "unlocked"})
        /\ unlockReq' \in {"none", "queued", "sent", "served"}
    BY <1>1, <1>2, <2>1, CompleteUnlockKeepsLock
  <2>4. displayLen' \in 0..PasswordCap
    BY <2>1, LockerAssumption DEF LockerAssumption
  <2>5. TypeOK'
    BY <1>1, <1>2, <2>1, <2>2, <2>3, <2>4
       DEF TypeOK, PamInv, CompositorTypeOK, loopVars, AuthState
  <2>6. authState # "Checking"
    BY <2>1 DEF FailStates
  <2>7. AuthInv'
    BY <1>1, <1>2, <2>1, <2>2, <2>6
       DEF AuthInv, FreshGens, CheckingIsPending, PassedByPam,
           PillConsistent, pamVars, FailStates
  <2>8. LoopBounds'
    BY <1>1, <1>2 DEF LoopBounds, Running, loopVars
  <2>9. QED
    BY <2>3, <2>5, <2>7, <2>8 DEF IInv
<1>4. CASE ~FailTimerApplies(gen)
  <2>1. UNCHANGED <<authState, displayLen, lockVars, unlockReq>>
    BY <1>4 DEF ClearTimerFires
  <2>2. AuthInv'
    BY <1>1, <1>2, <2>1, AuthFrame DEF inputVars
  <2>3. LockInv'
    BY <1>1, <1>2, <2>1, LockFrame DEF compositorVars, lockVars
  <2>4. TypeOK'
    BY <1>1, <1>2, <2>1, <2>2
       DEF TypeOK, AuthInv, PamInv, CompositorTypeOK, lockVars, loopVars
  <2>5. LoopBounds'
    BY <1>1, <1>2 DEF LoopBounds, Running, loopVars
  <2>6. QED
    BY <2>2, <2>3, <2>4, <2>5 DEF IInv
<1>5. QED
  BY <1>3, <1>4

(* Time: the fade ends.                                                    *)
LEMMA FadeInv == IInv /\ FadeElapses => IInv'
<1> SUFFICES ASSUME IInv, FadeElapses PROVE IInv'
  OBVIOUS
<1>1. TypeOK /\ AuthInv /\ LockInv /\ LoopBounds
  BY DEF IInv
<1>2. /\ unlocking = "fading" /\ unlocking' = "faded"
      /\ UNCHANGED <<pamVars, compositorVars, authVars, inputVars,
                     clearTimers, lockVars, loopVars>>
  BY DEF FadeElapses
<1>3. PamInv' /\ \A h : Pending(h)' <=> Pending(h)
  BY <1>1, <1>2
     DEF AuthInv, pamVars, PamInv, PamTypeOK, SlotsHonest, SlotHolders,
         ReportedOnce, Reported, OkIsPams, AnswerFollowsWorker, Pending
<1>4. AuthInv'
  BY <1>1, <1>2, <1>3
     DEF AuthInv, FreshGens, CheckingIsPending, PassedByPam, PillConsistent,
         pamVars, authVars, inputVars, Pending, Reported
<1>5. LockInv'
  BY <1>1, <1>2, LockFrame DEF lockVars
<1>6. TypeOK'
  BY <1>1, <1>2, <1>3
     DEF TypeOK, PamInv, CompositorTypeOK, compositorVars, authVars,
         inputVars, lockVars, loopVars
<1>7. LoopBounds'
  BY <1>1, <1>2 DEF LoopBounds, Running, authVars, loopVars
<1>8. QED
  BY <1>4, <1>5, <1>6, <1>7 DEF IInv

(* The callers of redraw_all and the return of dispatch, which complete a  *)
(* finished fade and do nothing else but count errors or leave the loop.   *)
LEMMA CompletionInv == IInv /\ (Redraw \/ DispatchOk) => IInv'
<1> SUFFICES ASSUME IInv, Redraw \/ DispatchOk PROVE IInv'
  OBVIOUS
<1>1. TypeOK /\ AuthInv /\ LockInv /\ LoopBounds
  BY DEF IInv
<1>2. /\ CompleteUnlockIfReady
      /\ UNCHANGED <<pamVars, session, lockObject, toClient, authVars,
                     inputVars, clearTimers, unlocking>>
      /\ Running
  BY DEF Redraw, DispatchOk
<1>3. /\ errors' \in {0, errors}
      /\ pc' \in {"run", "closing"}
  BY DEF Redraw, DispatchOk, loopVars, Running
<1>4. /\ LockInv'
      /\ lockHeld' \in BOOLEAN /\ isLocked' \in BOOLEAN
      /\ exit' \in BOOLEAN
      /\ emitted' \in Seq({"locked", "unlocked"})
      /\ unlockReq' \in {"none", "queued", "sent", "served"}
  BY <1>1, <1>2, CompleteUnlockKeepsLock
<1>5. AuthInv'
  BY <1>1, <1>2, AuthFrame DEF authVars
<1>6. errors' \in 0..MaxDispatchErrors /\ errors' < MaxDispatchErrors
  BY <1>1, <1>2, <1>3, LockerAssumption
     DEF TypeOK, LoopBounds, LockerAssumption
<1>7. TypeOK'
  BY <1>1, <1>2, <1>3, <1>4, <1>5, <1>6
     DEF TypeOK, AuthInv, PamInv, CompositorTypeOK, authVars, inputVars
<1>8. LoopBounds'
  BY <1>1, <1>2, <1>6 DEF LoopBounds, authVars
<1>9. QED
  BY <1>4, <1>5, <1>7, <1>8 DEF IInv

(* The compositor says the session is locked.                              *)
LEMMA LockedInv == IInv /\ Locked => IInv'
<1> SUFFICES ASSUME IInv, Locked PROVE IInv'
  OBVIOUS
<1>1. TypeOK /\ AuthInv /\ LockInv /\ LoopBounds
  BY DEF IInv
<1>2. /\ toClient # <<>> /\ Head(toClient) = "locked"
      /\ toClient' = Tail(toClient)
      /\ UNCHANGED <<pamVars, session, lockObject, unlockReq, authVars,
                     inputVars, clearTimers, unlocking, lockHeld, exit,
                     loopVars>>
      /\ \/ isLocked' = TRUE /\ emitted' = Append(emitted, "locked")
         \/ UNCHANGED <<isLocked, emitted>>
  BY DEF Locked
<1>3. /\ toClient' \in Seq({"locked", "finished"})
      /\ \A i \in DOMAIN toClient' :
             i + 1 \in DOMAIN toClient /\ toClient'[i] = toClient[i + 1]
      /\ 1 \in DOMAIN toClient /\ toClient[1] = "locked"
  BY <1>1, <1>2 DEF TypeOK, CompositorTypeOK
<1>4. session # "open"
  BY <1>1, <1>3 DEF LockInv, LockObjectHistory
<1>5. AuthInv'
  BY <1>1, <1>2, AuthFrame DEF authVars
<1>6. emitted' \in Seq({"locked", "unlocked"}) /\ AnnouncedOnce'
  <2>1. emitted \in Seq({"locked", "unlocked"}) /\ AnnouncedOnce
    BY <1>1 DEF TypeOK, LockInv
  <2>2. CASE emitted' = Append(emitted, "locked")
    BY <1>2, <2>1, <2>2, EmitLocked, EmitAppends
  <2>3. CASE emitted' = emitted
    BY <1>2, <2>1, <2>3 DEF AnnouncedOnce
  <2>4. QED
    BY <1>2, <2>2, <2>3
<1>7. LockInv'
  <2>1. RequestJustified'
    BY <1>1, <1>2 DEF LockInv, RequestJustified
  <2>2. LockObjectHistory'
    BY <1>1, <1>2, <1>3, <1>4 DEF LockInv, LockObjectHistory
  <2>3. QED
    BY <1>6, <2>1, <2>2 DEF LockInv
<1>8. isLocked' \in BOOLEAN
  BY <1>1, <1>2 DEF TypeOK
<1>9. TypeOK'
  BY <1>1, <1>2, <1>3, <1>5, <1>6, <1>8
     DEF TypeOK, AuthInv, PamInv, CompositorTypeOK, authVars, inputVars,
         loopVars
<1>10. LoopBounds'
  BY <1>1, <1>2 DEF LoopBounds, Running, authVars, loopVars
<1>11. QED
  BY <1>5, <1>7, <1>9, <1>10 DEF IInv

(* The compositor says the lock is over: an unlock is only requested for a *)
(* session it has already shown.                                           *)
LEMMA FinishedInv == IInv /\ Finished => IInv'
<1> SUFFICES ASSUME IInv, Finished PROVE IInv'
  OBVIOUS
<1>1. TypeOK /\ AuthInv /\ LockInv /\ LoopBounds
  BY DEF IInv
<1>2. /\ toClient # <<>> /\ Head(toClient) = "finished"
      /\ toClient' = Tail(toClient)
      /\ exit' = TRUE /\ lockHeld' = FALSE
      /\ UNCHANGED <<pamVars, session, lockObject, authVars, inputVars,
                     clearTimers, unlocking, isLocked, loopVars>>
  BY DEF Finished
<1>3. /\ toClient' \in Seq({"locked", "finished"})
      /\ \A i \in DOMAIN toClient' :
             i + 1 \in DOMAIN toClient /\ toClient'[i] = toClient[i + 1]
      /\ 1 \in DOMAIN toClient /\ toClient[1] = "finished"
  BY <1>1, <1>2 DEF TypeOK, CompositorTypeOK
<1>4. session \in {"open", "dismissed"}
  BY <1>1, <1>3 DEF LockInv, LockObjectHistory
<1>5. AuthInv'
  BY <1>1, <1>2, AuthFrame DEF authVars
<1>6. LockObjectHistory'
  BY <1>1, <1>2, <1>3, <1>4 DEF LockInv, LockObjectHistory
<1>7. emitted \in Seq({"locked", "unlocked"}) /\ AnnouncedOnce
      /\ unlockReq \in {"none", "queued", "sent", "served"}
  BY <1>1 DEF TypeOK, CompositorTypeOK, LockInv
<1>8. /\ emitted' \in Seq({"locked", "unlocked"}) /\ AnnouncedOnce'
      /\ unlockReq' \in {"none", "queued", "sent", "served"}
      /\ RequestJustified'
  <2>1. CASE lockHeld /\ isLocked
    <3>1. unlockReq = "none" /\ session = "dismissed"
      BY <1>1, <1>4, <2>1
         DEF LockInv, RequestJustified, LockObjectHistory
    <3>2. unlockReq' = "queued" /\ emitted' = Append(emitted, "unlocked")
      BY <2>1 DEF Finished
    <3>3. emitted' \in Seq({"locked", "unlocked"}) /\ AnnouncedOnce'
      BY <1>7, <3>1, <3>2, EmitUnlocked, EmitAppends
    <3>4. QED
      BY <1>1, <1>2, <3>1, <3>2, <3>3 DEF LockInv, RequestJustified
  <2>2. CASE ~(lockHeld /\ isLocked)
    <3>1. UNCHANGED <<unlockReq, emitted>>
      BY <2>2 DEF Finished
    <3>2. QED
      BY <1>1, <1>2, <1>7, <3>1 DEF LockInv, RequestJustified, AnnouncedOnce
  <2>3. QED
    BY <2>1, <2>2
<1>9. TypeOK'
  BY <1>1, <1>2, <1>3, <1>5, <1>8
     DEF TypeOK, AuthInv, PamInv, CompositorTypeOK, authVars, inputVars,
         loopVars
<1>10. LoopBounds'
  BY <1>1, <1>2 DEF LoopBounds, Running, authVars, loopVars
<1>11. QED
  BY <1>5, <1>6, <1>8, <1>9, <1>10 DEF IInv, LockInv

(* Leaving the loop, by an error, at the end or by death.                  *)
LEMMA LeaveInv == IInv /\ (DispatchErr \/ FinalRoundtrip \/ Crash) => IInv'
<1> SUFFICES ASSUME IInv, DispatchErr \/ FinalRoundtrip \/ Crash
             PROVE  IInv'
  OBVIOUS
<1>1. TypeOK /\ AuthInv /\ LockInv /\ LoopBounds
  BY DEF IInv
<1>2. /\ UNCHANGED <<pamVars, session, lockObject, toClient, authVars,
                     inputVars, clearTimers, unlocking, lockVars>>
      /\ \/ unlockReq' = unlockReq
         \/ unlockReq = "queued" /\ unlockReq' = "sent"
      /\ pc' \in {"run", "closing", "gone", "dead"}
  BY DEF DispatchErr, FinalRoundtrip, Crash, compositorVars
<1>3. /\ errors' \in 0..MaxDispatchErrors
      /\ pc' = "run" => errors' < MaxDispatchErrors
  <2>1. CASE DispatchErr
    BY <1>1, <2>1, LockerAssumption
       DEF DispatchErr, TypeOK, LoopBounds, LockerAssumption
  <2>2. CASE FinalRoundtrip \/ Crash
    BY <1>1, <2>2 DEF FinalRoundtrip, Crash, TypeOK
  <2>3. QED
    BY <2>1, <2>2
<1>4. AuthInv'
  BY <1>1, <1>2, AuthFrame DEF authVars
<1>5. LockInv'
  BY <1>1, <1>2
     DEF LockInv, RequestJustified, LockObjectHistory, AnnouncedOnce, lockVars
<1>6. TypeOK'
  BY <1>1, <1>2, <1>3, <1>4
     DEF TypeOK, AuthInv, PamInv, CompositorTypeOK, authVars, inputVars,
         lockVars
<1>7. LoopBounds'
  BY <1>1, <1>2, <1>3 DEF LoopBounds, Running, authVars
<1>8. QED
  BY <1>4, <1>5, <1>6, <1>7 DEF IInv

(* The request reaches the wire.                                           *)
LEMMA FlushInv == IInv /\ Flush => IInv'
<1> SUFFICES ASSUME IInv, Flush PROVE IInv'
  OBVIOUS
<1>1. TypeOK /\ AuthInv /\ LockInv /\ LoopBounds
  BY DEF IInv
<1>2. /\ unlockReq = "queued" /\ unlockReq' = "sent"
      /\ UNCHANGED <<pamVars, session, lockObject, toClient, authVars,
                     inputVars, clearTimers, unlocking, lockVars, loopVars>>
  BY DEF Flush
<1>3. AuthInv'
  BY <1>1, <1>2, AuthFrame DEF authVars
<1>4. LockInv'
  BY <1>1, <1>2
     DEF LockInv, RequestJustified, LockObjectHistory, AnnouncedOnce, lockVars
<1>5. TypeOK'
  BY <1>1, <1>2, <1>3
     DEF TypeOK, AuthInv, PamInv, CompositorTypeOK, authVars, inputVars,
         lockVars, loopVars
<1>6. LoopBounds'
  BY <1>1, <1>2 DEF LoopBounds, Running, authVars, loopVars
<1>7. QED
  BY <1>3, <1>4, <1>5, <1>6 DEF IInv

(* The compositor: `finished' goes only to a lock that hides nothing, and  *)
(* a request that opens the session was made after the fade.               *)
LEMMA CompositorInv == IInv /\ Compositor => IInv'
<1> SUFFICES ASSUME IInv, Compositor PROVE IInv'
  OBVIOUS
<1>1. TypeOK /\ AuthInv /\ LockInv /\ LoopBounds
  BY DEF IInv
<1>2. UNCHANGED <<pamVars, authVars, inputVars, clearTimers, unlocking,
                 lockVars, loopVars>>
  BY DEF Compositor
<1>3. AuthInv'
  BY <1>1, <1>2, AuthFrame DEF authVars
<1>4. LoopBounds'
  BY <1>1, <1>2 DEF LoopBounds, Running, authVars, loopVars
<1>5. CompositorTypeOK' /\ LockInv'
  <2>1. ASSUME Grant \/ Refuse \/ Dismiss
        PROVE  CompositorTypeOK' /\ LockInv'
    <3>1. PICK e \in {"locked", "finished"} : toClient' = Append(toClient, e)
      BY <2>1 DEF Grant, Refuse, Dismiss
    <3>2. /\ toClient' \in Seq({"locked", "finished"})
          /\ DOMAIN toClient = 1..Len(toClient)
          /\ DOMAIN toClient' = 1..(Len(toClient) + 1)
          /\ Len(toClient) \in Nat
          /\ \A i \in DOMAIN toClient : toClient'[i] = toClient[i]
          /\ toClient'[Len(toClient) + 1] = e
      BY <1>1, <3>1 DEF TypeOK, CompositorTypeOK
    <3>3. \A i \in DOMAIN toClient' :
              \/ i \in DOMAIN toClient /\ toClient'[i] = toClient[i]
              \/ toClient'[i] = e
      BY <3>2
    <3>4. unlockReq' = unlockReq
      BY <2>1 DEF Grant, Refuse, Dismiss
    <3>5. CompositorTypeOK'
      BY <1>1, <2>1, <3>2, <3>4
         DEF TypeOK, CompositorTypeOK, Grant, Refuse, Dismiss
    <3>6. RequestJustified' /\ AnnouncedOnce'
      BY <1>1, <1>2, <2>1, <3>4
         DEF LockInv, RequestJustified, AnnouncedOnce, LockObjectHistory,
             lockVars, Grant, Refuse, Dismiss
    <3>7. LockObjectHistory'
      <4>1. CASE Grant
        BY <1>1, <1>2, <3>1, <3>3, <4>1
           DEF LockInv, LockObjectHistory, lockVars, Grant
      <4>2. CASE Refuse
        <5>1. e = "finished"
          BY <3>2, <4>2, <1>1 DEF Refuse, TypeOK, CompositorTypeOK
        <5>2. QED
          BY <1>1, <1>2, <3>3, <4>2, <5>1
             DEF LockInv, LockObjectHistory, lockVars, Refuse
      <4>3. CASE Dismiss
        <5>1. e = "finished"
          BY <3>2, <4>3, <1>1 DEF Dismiss, TypeOK, CompositorTypeOK
        <5>2. QED
          BY <1>1, <1>2, <3>3, <4>3, <5>1
             DEF LockInv, LockObjectHistory, lockVars, Dismiss
      <4>4. QED
        BY <2>1, <4>1, <4>2, <4>3
    <3>8. QED
      BY <3>5, <3>6, <3>7 DEF LockInv
  <2>2. ASSUME ReceiveUnlock
        PROVE  CompositorTypeOK' /\ LockInv'
    <3>1. unlockReq = "sent" /\ unlockReq' = "served" /\ toClient' = toClient
      BY <2>2 DEF ReceiveUnlock
    <3>2. CompositorTypeOK'
      BY <1>1, <2>2, <3>1 DEF TypeOK, CompositorTypeOK, ReceiveUnlock
    <3>3. RequestJustified' /\ AnnouncedOnce'
      BY <1>1, <1>2, <2>2, <3>1
         DEF LockInv, RequestJustified, AnnouncedOnce, LockObjectHistory,
             lockVars, ReceiveUnlock
    <3>4. LockObjectHistory'
      BY <1>1, <1>2, <2>2, <3>1
         DEF LockInv, LockObjectHistory, lockVars, ReceiveUnlock
    <3>5. QED
      BY <3>2, <3>3, <3>4 DEF LockInv
  <2>3. QED
    BY <2>1, <2>2 DEF Compositor
<1>6. TypeOK'
  BY <1>1, <1>2, <1>3, <1>5
     DEF TypeOK, AuthInv, PamInv, authVars, inputVars, lockVars, loopVars
<1>7. QED
  BY <1>3, <1>4, <1>5, <1>6 DEF IInv

(* Doing nothing.                                                          *)
LEMMA StutterInv == IInv /\ UNCHANGED vars => IInv'
<1> SUFFICES ASSUME IInv, UNCHANGED vars PROVE IInv'
  OBVIOUS
<1>1. TypeOK /\ AuthInv /\ LockInv /\ LoopBounds
  BY DEF IInv
<1>2. AuthInv' /\ LockInv'
  BY <1>1, AuthFrame, LockFrame DEF vars, authVars, lockVars
<1>3. TypeOK' /\ LoopBounds'
  BY <1>1, <1>2
     DEF vars, TypeOK, AuthInv, PamInv, CompositorTypeOK, compositorVars,
         authVars, inputVars, lockVars, loopVars, LoopBounds, Running
<1>4. QED
  BY <1>1, <1>2, <1>3 DEF IInv

(* Every step of the locker, its threads and the compositor preserves the  *)
(* invariant.                                                              *)
LEMMA NextInv == IInv /\ [Next]_vars => IInv'
<1> SUFFICES ASSUME IInv, [Next]_vars PROVE IInv'
  OBVIOUS
<1>1. CASE Keyboard
  BY <1>1, KeySubmitInv, KeyCancelInv, EditKeysInv DEF Keyboard
<1>2. CASE \E g \in Gens : WorkerThread(g) \/ WaiterThread(g)
  BY <1>2, ThreadsInv
<1>3. CASE ResultArrives
  BY <1>3, ResultInv
<1>4. CASE \E gen \in clearTimers : ClearTimerFires(gen)
  BY <1>4, ClearTimerInv
<1>5. CASE FadeElapses
  BY <1>5, FadeInv
<1>6. CASE Redraw \/ DispatchOk
  BY <1>6, CompletionInv
<1>7. CASE Locked \/ Finished
  BY <1>7, LockedInv, FinishedInv
<1>8. CASE DispatchErr \/ FinalRoundtrip \/ Crash
  BY <1>8, LeaveInv
<1>9. CASE Flush \/ Compositor
  BY <1>9, FlushInv, CompositorInv
<1>10. CASE UNCHANGED vars
  BY <1>10, StutterInv
<1>11. QED
  BY <1>1, <1>2, <1>3, <1>4, <1>5, <1>6, <1>7, <1>8, <1>9, <1>10 DEF Next

(* The invariant holds in every reachable state.                           *)
THEOREM Invariance == Spec => []IInv
<1>1. QED
  BY InitInv, NextInv, PTL DEF Spec
-----------------------------------------------------------------------------
(* Every variable keeps its type, for every bound.                         *)
THEOREM TypeCorrect == Spec => []TypeOK
<1>1. IInv => TypeOK
  BY DEF IInv
<1>2. QED
  BY <1>1, Invariance, PTL

(* The session is shown again at breadlock's request only after PAM        *)
(* accepted, in time, the attempt that is still current: state.rs          *)
(* complete_unlock_if_ready, main.rs on_result, keyboard.rs handle_key.    *)
THEOREM UnlockSafety == Spec => []OpenedOnlyByPam
<1>1. IInv => OpenedOnlyByPam
  BY DEF IInv, AuthInv, LockInv, RequestJustified, PassedByPam,
         OpenedOnlyByPam
<1>2. QED
  BY <1>1, Invariance, PTL

(* The in-flight counter is the number of PAM calls whose thread lives and *)
(* never exceeds the cap, in spite of timeouts and cancellations:          *)
(* auth/mod.rs spawn_check and InFlightSlot.                               *)
THEOREM CapHolds == Spec => []SlotsHonest
<1>1. IInv => SlotsHonest
  BY DEF IInv, AuthInv, PamInv
<1>2. QED
  BY <1>1, Invariance, PTL

(* No attempt is reported twice, by a late answer of PAM and by the timeout *)
(* of its waiter: auth/mod.rs spawn_check.                                  *)
THEOREM ChannelSafety == Spec => []ReportedOnce
<1>1. IInv => ReportedOnce
  BY DEF IInv, AuthInv, PamInv
<1>2. QED
  BY <1>1, Invariance, PTL

(* Ok is never reported for an attempt PAM did not accept, nor for one that *)
(* timed out: auth/mod.rs spawn_check.                                      *)
THEOREM OkComesFromPam == Spec => []OkIsPams
<1>1. IInv => OkIsPams
  BY DEF IInv, AuthInv, PamInv
<1>2. QED
  BY <1>1, Invariance, PTL

(* The screen says Checking exactly while the outcome of the current       *)
(* generation is to come: keyboard.rs submit and handle_key, main.rs       *)
(* on_result.                                                              *)
THEOREM NoOrphanCheck == Spec => []CheckingIsPending
<1>1. IInv => CheckingIsPending
  BY DEF IInv, AuthInv
<1>2. QED
  BY <1>1, Invariance, PTL

(* The dots shown belong to the attempt shown: keyboard.rs.                *)
THEOREM PillSafety == Spec => []PillConsistent
<1>1. IInv => PillConsistent
  BY DEF IInv, AuthInv
<1>2. QED
  BY <1>1, Invariance, PTL

(* An unlock is requested and announced together, and once: state.rs       *)
(* complete_unlock_if_ready and session.rs finished.                       *)
THEOREM AnnouncementSafety == Spec => []AnnouncedOnce
<1>1. IInv => AnnouncedOnce
  BY DEF IInv, LockInv
<1>2. QED
  BY <1>1, Invariance, PTL

(* Once PAM accepted, no key, late outcome or timer takes it back: the     *)
(* early return of handle_key, the generation test of on_result and        *)
(* fail_timer_applies.                                                     *)
THEOREM UnlockStands == Spec => UnlockIsFinal
<1>1. IInv /\ [Next]_vars =>
          [unlocking # "no" => /\ authState' = "Idle"
                               /\ authGen' = authGen
                               /\ unlocking' # "no"]_vars
  <2> SUFFICES ASSUME IInv, Next, unlocking # "no"
               PROVE  /\ authState' = "Idle"
                      /\ authGen' = authGen
                      /\ unlocking' # "no"
    OBVIOUS
  <2>1. /\ authState = "Idle" /\ authGen \in Gens /\ ~Pending(authGen)
        /\ TypeOK /\ PamInv
    BY DEF IInv, AuthInv, PassedByPam, CheckingIsPending
  <2>2. CASE Keyboard
    BY <2>2 DEF Keyboard, KeySubmit, KeySubmitNameless, KeyBackSpace,
                KeyEscape, KeyText, KeyCancel, Typing
  <2>3. CASE \E g \in Gens : WorkerThread(g) \/ WaiterThread(g)
    BY <2>1, <2>3 DEF WorkerThread, WaiterThread, threadUnchanged, authVars
  <2>4. CASE ResultArrives
    <3>1. Pending(Head(results).gen)
      BY <2>1, <2>4, ConsumeKeepsInv DEF ResultArrives
    <3>2. StaleResult
      BY <2>1, <2>4, <3>1 DEF ResultArrives, Authenticated, Rejected
    <3>3. QED
      BY <2>1, <3>2 DEF StaleResult, authVars
  <2>5. CASE \E gen \in clearTimers : ClearTimerFires(gen)
    BY <2>1, <2>5 DEF ClearTimerFires, FailTimerApplies, FailStates
  <2>6. CASE FadeElapses
    BY <2>1, <2>6 DEF FadeElapses, authVars
  <2>7. CASE Redraw \/ DispatchOk \/ DispatchErr
    BY <2>1, <2>7 DEF Redraw, DispatchOk, DispatchErr, authVars
  <2>8. CASE Locked \/ Finished \/ Compositor
    BY <2>1, <2>8 DEF Locked, Finished, Compositor, authVars
  <2>9. CASE Flush \/ FinalRoundtrip \/ Crash
    BY <2>1, <2>9 DEF Flush, FinalRoundtrip, Crash, authVars
  <2>10. QED
    BY <2>2, <2>3, <2>4, <2>5, <2>6, <2>7, <2>8, <2>9 DEF Next
<1>2. QED
  BY <1>1, Invariance, PTL DEF Spec, UnlockIsFinal

(* An old fail-clear timer spares a newer failure: state.rs                *)
(* fail_timer_applies.                                                     *)
THEOREM TimersSpareNewFailures == Spec => OldTimerSparesNewFailure
<1>1. IInv /\ [Next]_vars =>
          [clearTimers' # clearTimers /\ failedGen \in clearTimers'
             => authState' \in FailStates \union {authState}]_vars
  <2> SUFFICES ASSUME IInv, Next, clearTimers' # clearTimers,
                      failedGen \in clearTimers'
               PROVE  authState' \in FailStates \union {authState}
    OBVIOUS
  <2>1. CASE ResultArrives
    <3>1. CASE StaleResult
      BY <3>1 DEF StaleResult, authVars
    <3>2. CASE Authenticated
      BY <3>2 DEF Authenticated
    <3>3. CASE Rejected
      <4>1. Head(results) \in Outcomes
        BY <2>1, ConsumeKeepsInv DEF ResultArrives, IInv, AuthInv
      <4>2. QED
        BY <3>3, <4>1 DEF Rejected, EnterFail, FailStateOf, FailStates,
                          Outcomes, Verdicts
    <3>4. QED
      BY <2>1, <3>1, <3>2, <3>3 DEF ResultArrives
  <2>2. CASE \E gen \in clearTimers : ClearTimerFires(gen)
    BY <2>2 DEF ClearTimerFires, FailTimerApplies
  <2>3. CASE ~ResultArrives /\ ~\E gen \in clearTimers : ClearTimerFires(gen)
    BY <2>3
       DEF Next, Keyboard, KeySubmit, KeySubmitNameless, KeyBackSpace,
           KeyEscape, KeyText, KeyCancel, keyUnchanged, WorkerThread,
           WaiterThread, threadUnchanged, FadeElapses, Redraw, Locked,
           Finished, DispatchOk, DispatchErr, Flush, FinalRoundtrip, Crash,
           Compositor
  <2>4. QED
    BY <2>1, <2>2, <2>3
<1>2. QED
  BY <1>1, Invariance, PTL DEF Spec, OldTimerSparesNewFailure
-----------------------------------------------------------------------------
(* Part 3: Locker implements FailSecureLock.  The initial states map to    *)
(* its initial state and every step, in a state that satisfies IInv, to    *)
(* one of its steps or to none.                                            *)

(* The values FailSecureLock sees.                                         *)
liveAttempt == IF authState = "Checking" THEN authGen ELSE 0
acceptedAttempts == {g \in Gens : answer[g] = "Ok"}
hasPassed == unlocking # "no"

mapped == <<session, liveAttempt, authGen, acceptedAttempts, hasPassed>>

(* A step that changes nothing FailSecureLock sees maps to no step.        *)
LEMMA MappedStutter == UNCHANGED mapped => [FS!Next]_(FS!vars)
  BY DEF mapped, liveAttempt, acceptedAttempts, hasPassed, FS!vars

LEMMA InitRefines == Init => FS!Init
<1> SUFFICES ASSUME Init PROVE FS!Init
  OBVIOUS
<1>1. {g \in Gens : answer[g] = "Ok"} = {}
  BY DEF Init, PamInit
<1>2. authState # "Checking" /\ authGen = 0 /\ session = "open"
      /\ unlocking = "no"
  BY DEF Init, CompositorInit
<1>3. QED
  BY <1>1, <1>2 DEF FS!Init

(* The keyboard: submitting is trying, Escape in a check is withdrawing.   *)
LEMMA KeyboardRefines == IInv /\ Keyboard => [FS!Next]_(FS!vars)
<1> SUFFICES ASSUME IInv, Keyboard PROVE [FS!Next]_(FS!vars)
  OBVIOUS
<1>1. CASE KeySubmit
  <2>1. /\ authState # "Checking" /\ unlocking = "no" /\ unlocking' = "no"
        /\ authGen < MaxGen /\ authGen' = authGen + 1
        /\ authState' = "Checking"
        /\ session' = session
    BY <1>1 DEF KeySubmit, Typing, keyUnchanged, compositorVars
  <2>2. answer' = answer
    BY <1>1 DEF KeySubmit, SpawnCheck
  <2>3. FS!Try
    BY <2>1, <2>2 DEF FS!Try
  <2>4. QED
    BY <2>3 DEF FS!Next
<1>2. CASE KeyCancel
  <2>1. /\ authState = "Checking" /\ authState' = "Idle"
        /\ authGen' = authGen + 1 /\ answer' = answer
        /\ session' = session /\ unlocking' = unlocking
    BY <1>2 DEF KeyCancel, keyUnchanged, compositorVars, pamVars
  <2>2. authGen # 0
    BY <2>1 DEF IInv, AuthInv, CheckingIsPending, Gens
  <2>3. FS!Withdraw
    BY <2>1, <2>2 DEF FS!Withdraw
  <2>4. QED
    BY <2>3 DEF FS!Next
<1>3. CASE \/ KeySubmitNameless \/ KeyBackSpace \/ KeyEscape
           \/ \E n \in 1..MaxText : KeyText(n)
  <2>1. /\ authState # "Checking" /\ authState' # "Checking"
        /\ UNCHANGED <<session, authGen, answer, unlocking>>
    BY <1>3
       DEF KeySubmitNameless, KeyBackSpace, KeyEscape, KeyText, Typing,
           EnterFail, ClearFailedState, keyUnchanged, compositorVars, pamVars
  <2>2. UNCHANGED mapped
    BY <2>1 DEF mapped, liveAttempt, acceptedAttempts, hasPassed
  <2>3. QED
    BY <2>2, MappedStutter
<1>4. QED
  BY <1>1, <1>2, <1>3 DEF Keyboard

(* The threads: only an acceptance by PAM shows.                           *)
LEMMA ThreadsRefine ==
    ASSUME IInv, NEW g \in Gens, WorkerThread(g) \/ WaiterThread(g)
    PROVE  [FS!Next]_(FS!vars)
<1>1. UNCHANGED <<session, authState, authGen, unlocking>>
  BY DEF WorkerThread, WaiterThread, threadUnchanged, compositorVars,
         authVars
<1>2. CASE PamReturns(g, "Ok")
  <2>1. g <= authGen
    BY <1>2 DEF IInv, AuthInv, FreshGens, PamReturns, TypeOK, Gens
  <2>2. {h \in Gens : answer'[h] = "Ok"} =
            {h \in Gens : answer[h] = "Ok"} \union {g}
    BY <1>2 DEF PamReturns, IInv, TypeOK, PamTypeOK
  <2>3. FS!Accept(g)
    BY <1>1, <2>1, <2>2 DEF FS!Accept
  <2>4. g \in FS!Attempts
    BY DEF FS!Attempts, Gens
  <2>5. QED
    BY <2>3, <2>4 DEF FS!Next
<1>3. CASE ~PamReturns(g, "Ok")
  <2>1. acceptedAttempts' = acceptedAttempts
    <3>1. CASE \E r \in Verdicts : PamReturns(g, r)
      <4>1. PICK r \in Verdicts : PamReturns(g, r)
        BY <3>1
      <4>2. r # "Ok" /\ answer[g] = "none"
        BY <1>3, <4>1
           DEF IInv, AuthInv, PamInv, AnswerFollowsWorker, PamReturns
      <4>3. QED
        BY <4>1, <4>2
           DEF acceptedAttempts, PamReturns, IInv, TypeOK, PamTypeOK
    <3>2. CASE DropSlot(g) \/ WaiterRelays(g) \/ WaiterTimesOut(g)
      BY <3>2 DEF acceptedAttempts, DropSlot, WaiterRelays, WaiterTimesOut
    <3>3. QED
      BY <3>1, <3>2 DEF WorkerThread, WaiterThread
  <2>2. UNCHANGED mapped
    BY <1>1, <2>1 DEF mapped, liveAttempt, hasPassed
  <2>3. QED
    BY <2>2, MappedStutter
<1>4. QED
  BY <1>2, <1>3

(* The result callback: the acceptance of the live attempt passes it, a    *)
(* failure withdraws it, and an outcome of another attempt does not show.  *)
LEMMA ResultRefines == IInv /\ ResultArrives => [FS!Next]_(FS!vars)
<1> SUFFICES ASSUME IInv, ResultArrives PROVE [FS!Next]_(FS!vars)
  OBVIOUS
<1>1. /\ UNCHANGED <<worker, waiter, answer, inFlight, session>>
      /\ results # <<>> /\ results' = Tail(results)
  BY DEF ResultArrives
<1>2. PICK first : first = Head(results).gen
  OBVIOUS
<1>3. /\ first \in Gens /\ Pending(first)
      /\ Head(results).result = "Ok" => answer[first] = "Ok"
      /\ Head(results) \in Outcomes
  BY <1>1, <1>2, ConsumeKeepsInv DEF IInv, AuthInv
<1>4. CASE StaleResult
  <2>1. UNCHANGED mapped
    BY <1>1, <1>4
       DEF StaleResult, authVars, mapped, liveAttempt, acceptedAttempts,
           hasPassed
  <2>2. QED
    BY <2>1, MappedStutter
<1>5. ASSUME first = authGen
      PROVE  authState = "Checking" /\ unlocking = "no" /\ authGen # 0
  BY <1>3, <1>5
     DEF IInv, AuthInv, CheckingIsPending, PassedByPam, Gens
<1>6. CASE Authenticated
  <2>1. /\ first = authGen /\ answer[authGen] = "Ok"
        /\ authState' = "Idle" /\ authGen' = authGen /\ unlocking' = "fading"
    BY <1>2, <1>3, <1>5, <1>6 DEF Authenticated
  <2>2. authState = "Checking" /\ authGen \in {g \in Gens : answer[g] = "Ok"}
    BY <1>3, <1>5, <2>1
  <2>3. FS!Pass
    BY <1>1, <2>1, <2>2 DEF FS!Pass
  <2>4. QED
    BY <2>3 DEF FS!Next
<1>7. CASE Rejected
  <2>1. /\ first = authGen /\ authState' # "Checking"
        /\ authGen' = authGen /\ unlocking' = unlocking
    BY <1>2, <1>3, <1>7
       DEF Rejected, EnterFail, FailStateOf, Outcomes, Verdicts
  <2>2. authState = "Checking" /\ authGen # 0
    BY <1>5, <2>1
  <2>3. FS!Withdraw
    BY <1>1, <2>1, <2>2 DEF FS!Withdraw
  <2>4. QED
    BY <2>3 DEF FS!Next
<1>8. QED
  BY <1>4, <1>6, <1>7 DEF ResultArrives

(* The compositor: granting engages, serving the request opens.            *)
LEMMA CompositorRefines == IInv /\ Compositor => [FS!Next]_(FS!vars)
<1> SUFFICES ASSUME IInv, Compositor PROVE [FS!Next]_(FS!vars)
  OBVIOUS
<1>1. UNCHANGED <<authState, authGen, answer, unlocking>>
  BY DEF Compositor, pamVars, authVars
<1>2. LockObjectHistory /\ RequestJustified
  BY DEF IInv, LockInv
<1>3. CASE session' = session
  <2>1. UNCHANGED mapped
    BY <1>1, <1>3 DEF mapped, liveAttempt, acceptedAttempts, hasPassed
  <2>2. QED
    BY <2>1, MappedStutter
<1>4. CASE Grant
  <2>1. FS!Engage
    BY <1>1, <1>2, <1>4 DEF Grant, LockObjectHistory, FS!Engage
  <2>2. QED
    BY <2>1 DEF FS!Next
<1>5. CASE Dismiss
  <2>1. FS!Dismiss
    BY <1>1, <1>2, <1>5 DEF Dismiss, LockObjectHistory, FS!Dismiss
  <2>2. QED
    BY <2>1 DEF FS!Next
<1>6. CASE ReceiveUnlock /\ lockObject = "active"
  <2>1. session = "locked" /\ session' = "opened" /\ unlocking # "no"
    BY <1>2, <1>6 DEF ReceiveUnlock, LockObjectHistory, RequestJustified
  <2>2. FS!Open
    BY <1>1, <2>1 DEF FS!Open
  <2>3. QED
    BY <2>2 DEF FS!Next
<1>7. QED
  BY <1>3, <1>4, <1>5, <1>6 DEF Compositor, Refuse, ReceiveUnlock

(* Timers, redraws, lock events, the loop and its end do not show.         *)
LEMMA RestRefines ==
    ASSUME IInv,
           \/ \E gen \in clearTimers : ClearTimerFires(gen)
           \/ FadeElapses \/ Redraw \/ Locked \/ Finished \/ DispatchOk
           \/ DispatchErr \/ Flush \/ FinalRoundtrip \/ Crash
           \/ UNCHANGED vars
    PROVE  [FS!Next]_(FS!vars)
<1>1. UNCHANGED <<session, authGen, answer>>
  BY DEF ClearTimerFires, FadeElapses, Redraw, Locked, Finished, DispatchOk,
         DispatchErr, Flush, FinalRoundtrip, Crash, vars, compositorVars,
         pamVars, authVars
<1>2. hasPassed' = hasPassed
  BY DEF ClearTimerFires, FadeElapses, Redraw, Locked, Finished, DispatchOk,
         DispatchErr, Flush, FinalRoundtrip, Crash, vars, hasPassed
<1>3. \/ authState' = authState
      \/ authState \in FailStates /\ authState' = "Idle"
  BY DEF ClearTimerFires, FailTimerApplies, FadeElapses, Redraw, Locked,
         Finished, DispatchOk, DispatchErr, Flush, FinalRoundtrip, Crash,
         vars, authVars
<1>4. UNCHANGED mapped
  BY <1>1, <1>2, <1>3 DEF mapped, liveAttempt, acceptedAttempts, FailStates
<1>5. QED
  BY <1>4, MappedStutter

(* The locker keeps the promise: whatever its threads, timers and queues   *)
(* do, and wherever it dies, the session is shown again by it only after   *)
(* PAM accepted the attempt the user was waiting for.                      *)
THEOREM Refinement == Spec => ImplementsFailSecure
<1>1. IInv /\ [Next]_vars => [FS!Next]_(FS!vars)
  BY KeyboardRefines, ThreadsRefine, ResultRefines, CompositorRefines,
     RestRefines DEF Next
<1>2. QED
  BY <1>1, InitRefines, Invariance, PTL
     DEF Spec, ImplementsFailSecure, FS!Spec
=============================================================================
