--------------------------- MODULE CommandsProofs ---------------------------
(***************************************************************************)
(* The locker singleton does its work for any number of lockers, commands, *)
(* deaths and probes: IInv is an inductive invariant of Commands.          *)
(***************************************************************************)
EXTENDS Commands, TLAPS

(* A bounded counter that moves keeps the counters' type, and no other     *)
(* counter moves with it.                                                  *)
LEMMA Counting ==
    ASSUME TypeOK,
           \/ Count("commands", MaxCommands)
           \/ Count("ends", MaxEnds)
           \/ Count("deaths", MaxDeaths)
           \/ Count("flockErrors", MaxFlockErrors)
    PROVE  /\ counts' \in [commands : 0..MaxCommands, ends : 0..MaxEnds,
                           deaths : 0..MaxDeaths,
                           flockErrors : 0..MaxFlockErrors]
           /\ counts'.flockErrors = 0 => counts.flockErrors = 0
<1>1. counts \in [commands : 0..MaxCommands, ends : 0..MaxEnds,
                  deaths : 0..MaxDeaths, flockErrors : 0..MaxFlockErrors]
      /\ MaxCommands \in Nat /\ MaxEnds \in Nat /\ MaxDeaths \in Nat
      /\ MaxFlockErrors \in Nat
  BY CommandsAssumption DEF TypeOK, CommandsAssumption
<1>2. CASE Count("commands", MaxCommands)
  BY <1>1, <1>2 DEF Count
<1>3. CASE Count("ends", MaxEnds)
  BY <1>1, <1>3 DEF Count
<1>4. CASE Count("deaths", MaxDeaths)
  BY <1>1, <1>4 DEF Count
<1>5. CASE Count("flockErrors", MaxFlockErrors)
  BY <1>1, <1>5 DEF Count
<1>6. QED
  BY <1>2, <1>3, <1>4, <1>5

(* After an error of try_acquire the counter of errors is not zero.        *)
LEMMA ErrorCounted ==
    ASSUME TypeOK, FlockError PROVE counts'.flockErrors # 0
  BY CommandsAssumption DEF TypeOK, FlockError, Count, CommandsAssumption

(* The initial states satisfy the invariant.                               *)
LEMMA InitInv == Init => IInv
<1> SUFFICES ASSUME Init PROVE IInv
  OBVIOUS
<1>1. counts \in [commands : 0..MaxCommands, ends : 0..MaxEnds,
                  deaths : 0..MaxDeaths, flockErrors : 0..MaxFlockErrors]
  BY CommandsAssumption DEF Init, CommandsAssumption
<1>2. queue \in [Subscribers -> Seq(Verbs)]
  BY DEF Init
<1>3. TypeOK
  BY <1>1, <1>2 DEF Init, TypeOK, Phases
<1>4. SingletonLive /\ Guarded
  BY CommandsAssumption
     DEF Init, SingletonLive, Guarded, CommandsAssumption, Marked, Subscribers
<1>5. QED
  BY <1>3, <1>4 DEF IInv

(* A step that leaves the singleton and the phases alone, and takes no job *)
(* from the listener while it holds the singleton.                         *)
LEMMA QuietInv ==
    ASSUME IInv, TypeOK', UNCHANGED <<singleton, phase>>,
           counts'.flockErrors = 0 => counts.flockErrors = 0,
           singleton = Listener => job'[Listener] # NoJob
    PROVE  IInv'
  BY DEF IInv, SingletonLive, Guarded

(* A locker moves on, within the marked phases or outside of them.         *)
LEMMA MoveInv ==
    ASSUME IInv, TypeOK', NEW p \in Lockers, NEW next, Enter(p, next),
           next \in Marked <=> phase[p] \in Marked,
           UNCHANGED <<singleton, job>>,
           counts'.flockErrors = 0 => counts.flockErrors = 0
    PROVE  IInv'
<1>1. \A q \in Lockers : phase'[q] \in Marked <=> phase[q] \in Marked
  BY DEF IInv, TypeOK, Enter
<1>2. QED
  BY <1>1 DEF IInv, SingletonLive, Guarded

LEMMA PublishInv ==
    ASSUME IInv, NEW verb \in Verbs, Publish(verb) PROVE IInv'
<1>1. /\ counts' \in [commands : 0..MaxCommands, ends : 0..MaxEnds,
                      deaths : 0..MaxDeaths, flockErrors : 0..MaxFlockErrors]
      /\ counts'.flockErrors = 0 => counts.flockErrors = 0
  BY Counting DEF IInv, Publish
<1>2. queue' \in [Subscribers -> Seq(Verbs)]
  BY DEF IInv, TypeOK, Publish
<1>3. wanted' \in BOOLEAN
  BY DEF IInv, TypeOK, Publish
<1>4. TypeOK'
  BY <1>1, <1>2, <1>3, Zenon DEF IInv, TypeOK, Publish
<1>5. QED
  BY <1>1, <1>4, QuietInv DEF IInv, SingletonLive, Publish

LEMMA HypridleInv ==
    ASSUME IInv, NEW p \in Lockers, Hypridle(p) PROVE IInv'
<1>1. TypeOK'
  BY DEF IInv, TypeOK, Hypridle, Enter, Phases
<1>2. "new" \notin Marked /\ phase[p] \notin Marked
  BY DEF Hypridle, Free, Marked
<1>3. QED
  BY <1>1, <1>2, MoveInv DEF Hypridle

(* What taking a command does to the types.                                *)
LEMMA NextCommandTypes ==
    ASSUME TypeOK, NEW s \in Subscribers, NEW running \in BOOLEAN,
           NextCommand(s, running)
    PROVE  /\ queue' \in [Subscribers -> Seq(Verbs)]
           /\ job' \in [Subscribers -> {NoJob} \union
                                       [verb : Honored, running : BOOLEAN]]
           /\ job'[s] # NoJob
           /\ \A t \in Subscribers : t # s => job'[t] = job[t]
<1>1. queue \in [Subscribers -> Seq(Verbs)] /\ queue[s] \in Seq(Verbs)
      /\ queue[s] # <<>>
  BY DEF TypeOK, NextCommand
<1>2. Tail(queue[s]) \in Seq(Verbs)
  BY <1>1
<1>3. queue' \in [Subscribers -> Seq(Verbs)]
  BY <1>1, <1>2 DEF NextCommand
<1>4. [verb |-> Head(queue[s]), running |-> running]
          \in [verb : Honored, running : BOOLEAN]
  BY DEF NextCommand
<1>5. /\ job' \in [Subscribers -> {NoJob} \union
                                  [verb : Honored, running : BOOLEAN]]
      /\ job'[s] = [verb |-> Head(queue[s]), running |-> running]
      /\ \A t \in Subscribers : t # s => job'[t] = job[t]
  BY <1>4 DEF TypeOK, NextCommand
<1>6. job'[s] # NoJob
  BY <1>5 DEF NextCommand, NoJob, Honored
<1>7. QED
  BY <1>3, <1>5, <1>6

LEMMA OwnCommandInv ==
    ASSUME IInv, NEW p \in Lockers, OwnCommand(p) PROVE IInv'
<1>1. p \in Subscribers /\ Listener \in Subscribers /\ p # Listener
  BY CommandsAssumption DEF Subscribers, CommandsAssumption
<1>2. NextCommand(p, TRUE) /\ UNCHANGED <<singleton, counts>> /\ TypeOK
  BY DEF OwnCommand, IInv
<1>3. /\ queue' \in [Subscribers -> Seq(Verbs)]
      /\ job' \in [Subscribers -> {NoJob} \union
                                  [verb : Honored, running : BOOLEAN]]
      /\ job'[Listener] = job[Listener]
  BY <1>1, <1>2, NextCommandTypes
<1>4. TypeOK'
  BY <1>2, <1>3 DEF TypeOK, NextCommand
<1>5. QED
  BY <1>2, <1>3, <1>4, QuietInv DEF IInv, SingletonLive, NextCommand

LEMMA ProbeInv == ASSUME IInv, Probe PROVE IInv'
<1>1. Listener \in Subscribers /\ Listener \notin Lockers /\ TypeOK
  BY CommandsAssumption DEF Subscribers, CommandsAssumption, IInv
<1>2. PICK running \in BOOLEAN : NextCommand(Listener, running)
  BY DEF Probe
<1>3. /\ queue' \in [Subscribers -> Seq(Verbs)]
      /\ job' \in [Subscribers -> {NoJob} \union
                                  [verb : Honored, running : BOOLEAN]]
      /\ job'[Listener] # NoJob
  BY <1>1, <1>2, NextCommandTypes
<1>4. UNCHANGED <<phase, session, holder, wanted>>
  BY <1>2 DEF NextCommand
<1>5. CASE UNCHANGED singleton
  <2>1. /\ counts' \in [commands : 0..MaxCommands, ends : 0..MaxEnds,
                        deaths : 0..MaxDeaths, flockErrors : 0..MaxFlockErrors]
        /\ counts'.flockErrors = 0 => counts.flockErrors = 0
    BY <1>1, <1>5, Counting DEF Probe, FlockError, TypeOK
  <2>2. TypeOK'
    BY <1>3, <1>4, <1>5, <2>1, Zenon DEF IInv, TypeOK
  <2>3. QED
    BY <1>3, <1>4, <1>5, <2>1, <2>2, QuietInv
<1>6. CASE /\ singleton = Nobody /\ singleton' = Listener
           /\ UNCHANGED counts
  <2>1. TypeOK'
    BY <1>1, <1>3, <1>4, <1>6 DEF TypeOK
  <2>2. \A p \in Lockers : phase[p] \in Marked => counts.flockErrors # 0
    BY <1>6, CommandsAssumption DEF IInv, Guarded, CommandsAssumption
  <2>3. SingletonLive' /\ Guarded'
    BY <1>1, <1>3, <1>4, <1>6, <2>2 DEF SingletonLive, Guarded
  <2>4. QED
    BY <2>1, <2>3 DEF IInv
<1>7. QED
  BY <1>5, <1>6 DEF Probe, FlockError

LEMMA ProbeEndsInv == ASSUME IInv, ProbeEnds PROVE IInv'
<1>1. TypeOK'
  BY DEF IInv, TypeOK, ProbeEnds
<1>2. SingletonLive'
  BY CommandsAssumption
     DEF SingletonLive, ProbeEnds, CommandsAssumption, Subscribers
<1>3. Guarded'
  BY CommandsAssumption DEF IInv, Guarded, ProbeEnds, CommandsAssumption
<1>4. QED
  BY <1>1, <1>2, <1>3 DEF IInv

LEMMA IgnoreInv ==
    ASSUME IInv, NEW s \in Subscribers, IgnoreCommand(s) PROVE IInv'
<1>1. queue[s] \in Seq(Verbs) /\ queue[s] # <<>>
  BY DEF IInv, TypeOK, IgnoreCommand
<1>2. Tail(queue[s]) \in Seq(Verbs)
  BY <1>1
<1>3. TypeOK'
  BY <1>2 DEF IInv, TypeOK, IgnoreCommand
<1>4. QED
  BY <1>3, QuietInv DEF IInv, SingletonLive, IgnoreCommand

LEMMA ReplyInv == ASSUME IInv, NEW s \in Subscribers, Reply(s) PROVE IInv'
<1>1. /\ job' = [job EXCEPT ![s] = NoJob]
      /\ UNCHANGED <<singleton, session, holder, queue, counts>>
      /\ s = Listener => singleton # Listener
  BY DEF Reply
<1>2. job' \in [Subscribers -> {NoJob} \union
                               [verb : Honored, running : BOOLEAN]]
  BY <1>1 DEF IInv, TypeOK
<1>3. singleton = Listener => job'[Listener] # NoJob
  BY <1>1, CommandsAssumption
     DEF IInv, TypeOK, SingletonLive, Subscribers, CommandsAssumption
<1>4. CASE UNCHANGED phase
  <2>1. wanted' \in BOOLEAN
    BY <1>4 DEF IInv, TypeOK, Reply, StartLocker
  <2>2. TypeOK'
    BY <1>1, <1>2, <1>4, <2>1, Zenon DEF IInv, TypeOK
  <2>3. QED
    BY <1>1, <1>3, <1>4, <2>2, QuietInv
<1>5. CASE \E p \in Free : Enter(p, "new") /\ UNCHANGED wanted
  <2>1. PICK p \in Lockers : phase[p] = "none" /\ Enter(p, "new")
    BY <1>5 DEF Free
  <2>2. TypeOK'
    BY <1>1, <1>2, <1>5, <2>1 DEF IInv, TypeOK, Enter, Phases
  <2>3. \A q \in Lockers : phase'[q] \in Marked <=> phase[q] \in Marked
    BY <2>1 DEF IInv, TypeOK, Enter, Marked
  <2>4. SingletonLive' /\ Guarded'
    BY <1>1, <1>3, <2>3 DEF IInv, SingletonLive, Guarded
  <2>5. QED
    BY <2>2, <2>4 DEF IInv
<1>6. QED
  BY <1>4, <1>5 DEF Reply, StartLocker

LEMMA AcquireInv == ASSUME IInv, NEW p \in Lockers, Acquire(p) PROVE IInv'
<1>1. /\ phase[p] = "new" /\ TypeOK
      /\ UNCHANGED <<session, holder, queue, job, wanted>>
  BY DEF Acquire, IInv
<1>2. CASE /\ singleton = Nobody /\ singleton' = p
           /\ Enter(p, "up") /\ UNCHANGED counts
  <2>1. TypeOK'
    BY <1>1, <1>2 DEF TypeOK, Enter, Phases, Marked, Subscribers
  <2>2. phase'[p] = "up" /\ \A q \in Lockers : q # p => phase'[q] = phase[q]
    BY <1>1, <1>2 DEF TypeOK, Enter
  <2>3. SingletonLive'
    BY <1>2, <2>2, CommandsAssumption
       DEF SingletonLive, Marked, CommandsAssumption
  <2>4. Guarded'
    BY <1>2, <2>2, CommandsAssumption DEF IInv, Guarded, CommandsAssumption
  <2>5. QED
    BY <2>1, <2>3, <2>4 DEF IInv
<1>3. CASE Enter(p, "duplicate") /\ UNCHANGED <<singleton, counts>>
  <2>1. TypeOK'
    BY <1>1, <1>3 DEF TypeOK, Enter, Phases
  <2>2. "duplicate" \notin Marked /\ phase[p] \notin Marked
    BY <1>1 DEF Marked
  <2>3. QED
    BY <1>1, <1>3, <2>1, <2>2, MoveInv
<1>4. CASE FlockError /\ Enter(p, "up")
  <2>1. /\ counts' \in [commands : 0..MaxCommands, ends : 0..MaxEnds,
                        deaths : 0..MaxDeaths, flockErrors : 0..MaxFlockErrors]
        /\ counts'.flockErrors # 0 /\ UNCHANGED singleton
    BY <1>1, <1>4, Counting, ErrorCounted DEF FlockError
  <2>2. TypeOK'
    BY <1>1, <1>4, <2>1 DEF TypeOK, Enter, Phases, Marked
  <2>3. SingletonLive' /\ Guarded'
    BY <1>1, <1>4, <2>1
       DEF IInv, TypeOK, SingletonLive, Guarded, Enter, Marked
  <2>4. QED
    BY <2>2, <2>3 DEF IInv
<1>5. QED
  BY <1>2, <1>3, <1>4 DEF Acquire

(* The steps of a lock screen while it holds what it holds.                *)
LEMMA ScreenInv ==
    ASSUME IInv, NEW p \in Lockers,
           \/ Ask(p) \/ Grant(p) \/ Refuse(p) \/ Accept(p) \/ Unlock(p)
           \/ Dismiss(p)
    PROVE  IInv'
<1>1. TypeOK /\ phase[p] \in Marked /\ UNCHANGED <<singleton, queue, job>>
  BY DEF IInv, Ask, Grant, Refuse, Accept, Unlock, Dismiss, EndLock, Marked
<1>2. PICK next \in Marked : Enter(p, next)
  BY DEF Ask, Grant, Refuse, Accept, Unlock, Dismiss, EndLock, Marked
<1>3. /\ counts' \in [commands : 0..MaxCommands, ends : 0..MaxEnds,
                      deaths : 0..MaxDeaths, flockErrors : 0..MaxFlockErrors]
      /\ counts'.flockErrors = 0 => counts.flockErrors = 0
  <2>1. UNCHANGED counts \/ Count("ends", MaxEnds)
    BY DEF Ask, Grant, Refuse, Accept, Unlock, Dismiss
  <2>2. QED
    BY <1>1, <2>1, Counting DEF TypeOK
<1>4. /\ session' \in {"open", "locked"}
      /\ holder' \in Lockers \union {Nobody}
      /\ wanted' \in BOOLEAN
  BY <1>1 DEF TypeOK, Ask, Grant, Refuse, Accept, Unlock, Dismiss, EndLock
<1>5. phase' \in [Lockers -> Phases]
  BY <1>1, <1>2 DEF TypeOK, Enter, Phases
<1>6. TypeOK'
  BY <1>1, <1>3, <1>4, <1>5, Zenon DEF TypeOK
<1>7. QED
  BY <1>1, <1>2, <1>3, <1>6, MoveInv

(* The end of a process, in whatever phase it is.                          *)
LEMMA GoneInv ==
    ASSUME IInv, NEW p \in Lockers, Gone(p),
           holder' \in Lockers \union {Nobody},
           UNCHANGED counts \/ Count("deaths", MaxDeaths)
    PROVE  IInv'
<1>1. p \in Subscribers /\ Listener \in Subscribers /\ p # Listener /\ TypeOK
  BY CommandsAssumption DEF Subscribers, CommandsAssumption, IInv
<1>2. /\ counts' \in [commands : 0..MaxCommands, ends : 0..MaxEnds,
                      deaths : 0..MaxDeaths, flockErrors : 0..MaxFlockErrors]
      /\ counts'.flockErrors = 0 => counts.flockErrors = 0
  BY <1>1, Counting DEF TypeOK
<1>3. /\ queue' \in [Subscribers -> Seq(Verbs)]
      /\ job' \in [Subscribers -> {NoJob} \union
                                  [verb : Honored, running : BOOLEAN]]
      /\ job'[Listener] = job[Listener]
  BY <1>1 DEF TypeOK, Gone
<1>4. /\ phase' \in [Lockers -> Phases]
      /\ phase'[p] = "none"
      /\ \A q \in Lockers : q # p => phase'[q] = phase[q]
  BY <1>1 DEF TypeOK, Gone, Enter, Phases
<1>5. TypeOK'
  BY <1>1, <1>2, <1>3, <1>4 DEF TypeOK, Gone
<1>6. SingletonLive'
  BY <1>1, <1>3, <1>4, CommandsAssumption
     DEF IInv, SingletonLive, Gone, CommandsAssumption
<1>7. Guarded'
  BY <1>2, <1>4 DEF IInv, Guarded, Gone, Marked
<1>8. QED
  BY <1>5, <1>6, <1>7 DEF IInv

LEMMA ExitInv == ASSUME IInv, NEW p \in Lockers, Exit(p) PROVE IInv'
  BY GoneInv DEF Exit, IInv, TypeOK

LEMMA DieInv == ASSUME IInv, NEW p \in Lockers, Die(p) PROVE IInv'
<1>1. holder' \in Lockers \union {Nobody}
  BY DEF IInv, TypeOK, Die
<1>2. QED
  BY <1>1, GoneInv DEF Die

LEMMA StutterInv == ASSUME IInv, UNCHANGED vars PROVE IInv'
<1>1. TypeOK'
  BY DEF IInv, TypeOK, vars
<1>2. QED
  BY <1>1, QuietInv DEF IInv, SingletonLive, vars

LEMMA NextInv == ASSUME IInv, [Next]_vars PROVE IInv'
<1>1. Listener \in Subscribers /\ Lockers \subseteq Subscribers
  BY DEF Subscribers
<1>2. CASE \E verb \in Verbs : Publish(verb)
  BY <1>2, PublishInv
<1>3. CASE Listening
  BY <1>1, <1>3, ProbeInv, ProbeEndsInv, ReplyInv, IgnoreInv DEF Listening
<1>4. ASSUME NEW p \in Lockers,
             OwnCommand(p) \/ Reply(p) \/ IgnoreCommand(p)
      PROVE  IInv'
  BY <1>1, <1>4, OwnCommandInv, ReplyInv, IgnoreInv
<1>5. ASSUME NEW p \in Lockers, Locking(p) \/ Environment(p)
      PROVE  IInv'
  BY <1>5, HypridleInv, AcquireInv, ScreenInv, ExitInv, DieInv
     DEF Locking, Environment
<1>6. QED
  BY <1>2, <1>3, <1>4, <1>5, StutterInv DEF Next

(* The invariant holds in every reachable state.                           *)
THEOREM Invariance == Spec => []IInv
<1>1. Init => IInv
  BY InitInv
<1>2. IInv /\ [Next]_vars => IInv'
  BY NextInv
<1>3. QED
  BY <1>1, <1>2, PTL DEF Spec

(* Every variable keeps its type: no verb that handle_command does not     *)
(* know becomes a job.                                                     *)
THEOREM TypeCorrect == Spec => []TypeOK
<1>1. IInv => TypeOK
  BY DEF IInv
<1>2. QED
  BY <1>1, Invariance, PTL

(* The locker singleton never outlives the process that holds it, nor the  *)
(* probe of the listener its command.                                      *)
THEOREM NoStaleSingleton == Spec => []SingletonLive
<1>1. IInv => SingletonLive
  BY DEF IInv
<1>2. QED
  BY <1>1, Invariance, PTL

(* One locker at a time, whatever commands, probes, deaths and starts come *)
(* together, as long as try_acquire reports no error.                      *)
THEOREM MutualExclusion == Spec => []OneLocker
<1>1. IInv => OneLocker
  BY DEF IInv, Guarded, OneLocker
<1>2. QED
  BY <1>1, Invariance, PTL

(* No step that handles a bus command ends the lock.                       *)
THEOREM BusCannotUnlock == Spec => BusNeverUnlocks
<1>1. ASSUME IInv, [Next]_vars, session = "locked", session' = "open"
      PROVE  /\ UNCHANGED <<queue, job>>
             /\ holder \in Lockers
             /\ phase[holder] \in {"showing", "fading"}
  <2>1. PICK p \in Lockers : Unlock(p) \/ Dismiss(p)
    BY <1>1
       DEF Next, vars, Publish, Listening, Probe, ProbeEnds, NextCommand,
           FlockError, Reply, IgnoreCommand, OwnCommand, Locking, Acquire, Ask,
           Exit, Gone, Environment, Hypridle, Grant, Refuse, Accept, Die
  <2>2. QED
    BY <2>1 DEF Unlock, Dismiss, EndLock
<1>2. IInv /\ [Next]_vars =>
        [session = "locked" /\ session' = "open" =>
            /\ UNCHANGED <<queue, job>>
            /\ holder \in Lockers
            /\ phase[holder] \in {"showing", "fading"}]_vars
  BY <1>1
<1>3. QED
  BY <1>2, Invariance, PTL DEF Spec, BusNeverUnlocks
=============================================================================
