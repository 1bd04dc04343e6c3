------------------------------ MODULE Commands ------------------------------
(***************************************************************************)
(* The processes around one session: `breadlock listen', the lockers that  *)
(* it or hypridle start, the locker singleton, the bus commands, and what  *)
(* the compositor makes of the lockers (breadlock/src/bread_events.rs and  *)
(* the two entry points in breadlock/src/main.rs).                         *)
(*                                                                         *)
(* singleton_held has no way to look at the singleton but to acquire it    *)
(* and let it go again.  The replies to commands are not state: what a     *)
(* subscriber is about to reply is read off its job.                       *)
(*                                                                         *)
(* A lock screen is reduced to its phases.  Locker.tla has the inside,     *)
(* where a password may be accepted even before the lock is granted.       *)
(***************************************************************************)
EXTENDS Naturals, Sequences, FiniteSets

CONSTANTS
    Lockers,        \* process ids for lockers; an id is used again
    Listener,       \* breadlock listen, started once
    Nobody,
    Verbs,          \* the commands published, known or not
    MaxCommands,    \* bound on commands published
    MaxEnds,        \* bound on locks refused, or ended by a password or by
                    \* the compositor
    MaxDeaths,      \* bound on lockers that die or give up
    MaxFlockErrors  \* bound on errors of try_acquire

ASSUME CommandsAssumption ==
    /\ Listener \notin Lockers
    /\ Nobody \notin Lockers \union {Listener}
    /\ {MaxCommands, MaxEnds, MaxDeaths, MaxFlockErrors} \subseteq Nat

VARIABLES
    singleton,  \* who holds the locker singleton
    phase,      \* phase[p] of a locker process
    session,    \* "open" or "locked"
    holder,     \* whose lock it is; Nobody when its client is gone
    queue,      \* queue[s]: commands on their way to subscriber s
    job,        \* job[s]: the command s handles, and locker_is_running()
    wanted,     \* history: a lock command was published and nothing has
                \* locked, refused to lock or reported a failure since
    counts      \* commands, ends, deaths and flockErrors so far

vars == <<singleton, phase, session, holder, queue, job, wanted, counts>>

Honored == {"lock", "unlock"}

Subscribers == Lockers \union {Listener}

NoJob == [verb |-> "none", running |-> FALSE]

\* A lock process between enter_lock_process and the end of run_lock.
Marked == {"up", "asking", "showing", "fading", "leaving"}

Phases == Marked \union {"none", "new", "duplicate"}

TypeOK ==
    /\ singleton \in Subscribers \union {Nobody}
    /\ phase \in [Lockers -> Phases]
    /\ session \in {"open", "locked"}
    /\ holder \in Lockers \union {Nobody}
    /\ queue \in [Subscribers -> Seq(Verbs)]
    /\ job \in [Subscribers -> {NoJob} \union
                              [verb : Honored, running : BOOLEAN]]
    /\ wanted \in BOOLEAN
    /\ counts \in [commands : 0..MaxCommands, ends : 0..MaxEnds,
                   deaths : 0..MaxDeaths, flockErrors : 0..MaxFlockErrors]

Init ==
    /\ singleton = Nobody
    /\ phase = [p \in Lockers |-> "none"]
    /\ session = "open"
    /\ holder = Nobody
    /\ queue = [s \in Subscribers |-> <<>>]
    /\ job = [s \in Subscribers |-> NoJob]
    /\ wanted = FALSE
    /\ counts = [commands |-> 0, ends |-> 0, deaths |-> 0, flockErrors |-> 0]

Count(what, bound) ==
    /\ counts[what] < bound
    /\ counts' = [counts EXCEPT ![what] = @ + 1]

Enter(p, next) == phase' = [phase EXCEPT ![p] = next]

Free == {p \in Lockers : phase[p] = "none"}
-----------------------------------------------------------------------------
\* A client of the bus publishes a command; each subscriber gets its copy.
Publish(verb) ==
    /\ Count("commands", MaxCommands)
    /\ queue' = [s \in Subscribers |->
                    IF s = Listener \/ phase[s] \in Marked
                    THEN Append(queue[s], verb) ELSE queue[s]]
    /\ wanted' = (wanted \/ (verb = "lock" /\ session = "open"))
    /\ UNCHANGED <<singleton, phase, session, holder, job>>

\* hypridle runs lock_cmd.  One id is left for the listener.
Hypridle(p) ==
    /\ p \in Free
    /\ Free # {p}
    /\ Enter(p, "new")
    /\ UNCHANGED <<singleton, session, holder, queue, job, wanted, counts>>
-----------------------------------------------------------------------------
\* try_acquire fails for a reason of its own.
FlockError == Count("flockErrors", MaxFlockErrors) /\ UNCHANGED singleton

NextCommand(s, running) ==
    /\ queue[s] # <<>>
    /\ Head(queue[s]) \in Honored
    /\ job[s] = NoJob
    /\ queue' = [queue EXCEPT ![s] = Tail(@)]
    /\ job' = [job EXCEPT ![s] = [verb |-> Head(queue[s]), running |-> running]]
    /\ UNCHANGED <<phase, session, holder, wanted>>

\* handle_command ignores a verb it does not know.
IgnoreCommand(s) ==
    /\ queue[s] # <<>>
    /\ Head(queue[s]) \notin Honored
    /\ job[s] = NoJob
    /\ queue' = [queue EXCEPT ![s] = Tail(@)]
    /\ UNCHANGED <<singleton, phase, session, holder, job, wanted, counts>>

\* locker_is_running in a locker: LOCKER_RUNNING is set.
OwnCommand(p) ==
    /\ phase[p] \in Marked
    /\ NextCommand(p, TRUE)
    /\ UNCHANGED <<singleton, counts>>

\* locker_is_running in the listener: singleton_held tries the singleton,
\* gets it, finds it held, or learns nothing.
Probe ==
    \/ /\ singleton = Nobody
       /\ singleton' = Listener
       /\ NextCommand(Listener, FALSE)
       /\ UNCHANGED counts
    \/ /\ singleton \in Lockers
       /\ NextCommand(Listener, TRUE)
       /\ UNCHANGED <<singleton, counts>>
    \/ FlockError /\ NextCommand(Listener, FALSE)

\* The guard of the probe is dropped.
ProbeEnds ==
    /\ singleton = Listener
    /\ singleton' = Nobody
    /\ UNCHANGED <<phase, session, holder, queue, job, wanted, counts>>

\* start_locker: the child is spawned, or the reason why not is reported.
StartLocker ==
    \/ \E p \in Free : Enter(p, "new") /\ UNCHANGED wanted
    \/ wanted' = FALSE /\ UNCHANGED phase

\* Mutant: the bus command ends the lock.
ReplyUnlocks(s) ==
    /\ job[s] # NoJob
    /\ s = Listener => singleton # Listener
    /\ job' = [job EXCEPT ![s] = NoJob]
    /\ IF job[s].verb = "lock" /\ ~job[s].running
       THEN StartLocker /\ UNCHANGED session
       ELSE /\ session' = IF job[s].verb = "unlock" THEN "open" ELSE session
            /\ UNCHANGED <<phase, wanted>>
    /\ UNCHANGED <<singleton, holder, queue, counts>>

\* Mutant: the lock command is acknowledged and nothing is started.
ReplyOnly(s) ==
    /\ job[s] # NoJob
    /\ s = Listener => singleton # Listener
    /\ job' = [job EXCEPT ![s] = NoJob]
    /\ UNCHANGED <<singleton, phase, session, holder, queue, wanted, counts>>

\* honor_lock_command and honor_unlock_command: `done' or `failed' is
\* published, and a locker started when a lock is wanted and none runs.
Reply(s) ==
    /\ job[s] # NoJob
    /\ s = Listener => singleton # Listener
    /\ job' = [job EXCEPT ![s] = NoJob]
    /\ IF job[s].verb = "lock" /\ ~job[s].running
       THEN StartLocker
       ELSE UNCHANGED <<phase, wanted>>
    /\ UNCHANGED <<singleton, session, holder, queue, counts>>
-----------------------------------------------------------------------------
\* Mutant: a singleton that is held is taken over.
AcquireAnyway(p) ==
    /\ phase[p] = "new"
    /\ singleton' = p
    /\ Enter(p, "up")
    /\ UNCHANGED <<session, holder, queue, job, wanted, counts>>

\* The head of run_lock.  A locker that finds the singleton held exits; one
\* that cannot tell goes on without it.
Acquire(p) ==
    /\ phase[p] = "new"
    /\ \/ /\ singleton = Nobody
          /\ singleton' = p
          /\ Enter(p, "up")
          /\ UNCHANGED counts
       \/ /\ singleton # Nobody
          /\ Enter(p, "duplicate")
          /\ UNCHANGED <<singleton, counts>>
       \/ FlockError /\ Enter(p, "up")
    /\ UNCHANGED <<session, holder, queue, job, wanted>>

\* The session lock is requested.
Ask(p) ==
    /\ phase[p] = "up"
    /\ Enter(p, "asking")
    /\ UNCHANGED <<singleton, session, holder, queue, job, wanted, counts>>

\* The compositor locks for one client at a time.  A lock whose client is
\* gone may be taken over.
Grant(p) ==
    /\ phase[p] = "asking"
    /\ holder = Nobody
    /\ holder' = p
    /\ session' = "locked"
    /\ Enter(p, "showing")
    /\ wanted' = FALSE
    /\ UNCHANGED <<singleton, queue, job, counts>>

Refuse(p) ==
    /\ phase[p] = "asking"
    /\ Count("ends", MaxEnds)
    /\ Enter(p, "leaving")
    /\ wanted' = FALSE
    /\ UNCHANGED <<singleton, session, holder, queue, job>>

\* PAM accepts the password; the screen fades.
Accept(p) ==
    /\ phase[p] = "showing"
    /\ Count("ends", MaxEnds)
    /\ Enter(p, "fading")
    /\ UNCHANGED <<singleton, session, holder, queue, job, wanted>>

EndLock(p) ==
    /\ holder = p
    /\ holder' = Nobody
    /\ session' = "open"
    /\ Enter(p, "leaving")
    /\ UNCHANGED <<singleton, queue, job, wanted>>

Unlock(p) == phase[p] = "fading" /\ EndLock(p) /\ UNCHANGED counts

\* The compositor ends the lock by itself.
Dismiss(p) ==
    /\ phase[p] \in {"showing", "fading"}
    /\ EndLock(p)
    /\ Count("ends", MaxEnds)

\* Mutant: the singleton is a file that outlives its process.
GoneKeepsSingleton(p) ==
    /\ Enter(p, "none")
    /\ queue' = [queue EXCEPT ![p] = <<>>]
    /\ job' = [job EXCEPT ![p] = NoJob]
    /\ UNCHANGED <<singleton, session, wanted>>

\* The process is gone, with its threads and its singleton.
Gone(p) ==
    /\ Enter(p, "none")
    /\ singleton' = IF singleton = p THEN Nobody ELSE singleton
    /\ queue' = [queue EXCEPT ![p] = <<>>]
    /\ job' = [job EXCEPT ![p] = NoJob]
    /\ UNCHANGED <<session, wanted>>

Exit(p) ==
    /\ phase[p] \in {"duplicate", "leaving"}
    /\ Gone(p)
    /\ UNCHANGED <<holder, counts>>

\* A locker panics, is killed or gives up on its event loop: it has not
\* unlocked, and the session stays as it is.
Die(p) ==
    /\ phase[p] # "none"
    /\ Count("deaths", MaxDeaths)
    /\ Gone(p)
    /\ holder' = IF holder = p THEN Nobody ELSE holder
-----------------------------------------------------------------------------
Listening ==
    Probe \/ ProbeEnds \/ Reply(Listener) \/ IgnoreCommand(Listener)

Locking(p) ==
    \/ Acquire(p)
    \/ Ask(p)
    \/ Unlock(p)
    \/ Exit(p)

Environment(p) ==
    \/ Hypridle(p)
    \/ Grant(p)
    \/ Refuse(p)
    \/ Accept(p)
    \/ Dismiss(p)
    \/ Die(p)

Next ==
    \/ \E verb \in Verbs : Publish(verb)
    \/ Listening
    \/ \E p \in Lockers :
           \/ OwnCommand(p) \/ Reply(p) \/ IgnoreCommand(p)
           \/ Locking(p) \/ Environment(p)

Spec == Init /\ [][Next]_vars

(***************************************************************************)
(* Processes run, and the compositor answers a request that it can grant.  *)
(***************************************************************************)
Fairness ==
    /\ WF_vars(Listening)
    /\ \A p \in Lockers : WF_vars(Locking(p)) /\ WF_vars(Grant(p))

FairSpec == Spec /\ Fairness
-----------------------------------------------------------------------------
(* The singleton never outlives its holder: a locker that holds it runs,   *)
(* the listener only holds it for a command it handles.  A singleton left  *)
(* behind would turn every later locker away from an unlocked session.     *)
SingletonLive ==
    /\ singleton \in Lockers => phase[singleton] \in Marked
    /\ singleton = Listener => job[Listener] # NoJob

(* As long as try_acquire reports no error, one locker runs at a time, and *)
(* no probe of the listener lets a second one in.                          *)
OneLocker ==
    counts.flockErrors = 0 =>
        \A p, q \in Lockers :
            phase[p] \in Marked /\ phase[q] \in Marked => p = q

(* EVENTS.md, "Bus clients must never trigger unlock": a lock ends when    *)
(* its own client was let through by PAM or the compositor ended it, in a  *)
(* step that handles no command.                                           *)
BusNeverUnlocks ==
    [][session = "locked" /\ session' = "open" =>
          /\ UNCHANGED <<queue, job>>
          /\ holder \in Lockers
          /\ phase[holder] \in {"showing", "fading"}]_vars

(* A lock command that finds the session open gets it locked, or an answer *)
(* why not, however the probes of the listener, the lockers it starts and  *)
(* those of hypridle interleave.  This holds as long as lock is the only   *)
(* verb on the bus and no locker is on its way out.  The comment on        *)
(* locker_is_running has no such condition: it takes a locker that runs    *)
(* for one that "is already locking this session".                         *)
LockCommandLocks == wanted ~> ~wanted

(* The message of a locker that exits as a duplicate: the session is       *)
(* already locked by another breadlock.                                    *)
DuplicateOfALocker ==
    \A p \in Lockers :
        phase[p] = "duplicate" =>
            \/ session = "locked"
            \/ \E q \in Lockers : phase[q] \in Marked

(* EVENTS.md on bread.lock.unlock.done: no locker was running, session     *)
(* already unlocked.  The listener says so when it could get the singleton.*)
FreeMeansUnlocked == singleton = Listener => session = "open"
-----------------------------------------------------------------------------
(* The inductive strengthening: without an error of try_acquire, every     *)
(* locker past it holds the singleton.                                     *)
Guarded ==
    counts.flockErrors = 0 =>
        \A p \in Lockers : phase[p] \in Marked => singleton = p

IInv ==
    /\ TypeOK
    /\ SingletonLive
    /\ Guarded
=============================================================================
