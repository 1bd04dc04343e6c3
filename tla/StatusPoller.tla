----------------------------- MODULE StatusPoller -----------------------------
(***************************************************************************)
(* The thread that asks D-Bus for the line under the clock: what plays     *)
(* (session bus) and the battery (system bus), polled one call at a time   *)
(* while players and buses come and go (breadlock/src/status.rs).          *)
(*                                                                         *)
(* A line is known by the player it speaks of; a title is not looked at,   *)
(* nor is the wording.  A battery reading of 0 is one that gives no line:  *)
(* no battery, another kind of device, or no percentage.                   *)
(***************************************************************************)
EXTENDS Naturals, Sequences

CONSTANTS
    PlayerCount,    \* players with a name on the session bus
    MaxCharge,      \* battery readings are 0..MaxCharge
    MaxSnapshots    \* bound on the snapshots in the channel

ASSUME StatusAssumption ==
    {PlayerCount, MaxCharge, MaxSnapshots} \subseteq Nat

\* In the order of ListNames.
Players == 1..PlayerCount

VARIABLES
    player,     \* per player, "Playing", "Paused", "Gone" (or any other
                \* answer), or "Hung": it takes the call and never answers
    charge,     \* the reading of UPower's display device
    up,         \* the buses that run
    wanted,     \* config.status: the lines asked for
    conn,       \* per bus, "none", "open", or "dead": opened before the bus
                \* went away
    at,         \* where the thread is
    names,      \* players still to be read in this poll
    paused,     \* the first of them that was paused, or 0
    line,       \* now_playing of the snapshot in the making, 0 if empty
    snapshots,  \* the channel
    status      \* status_info

statusVars == <<player, charge, up, wanted, conn, at, names, paused, line,
                snapshots, status>>

Buses == {"session", "system"}

Answers == {"Playing", "Paused", "Gone", "Hung"}

Snapshot == [nowPlaying: Players \union {0}, battery: 0..MaxCharge]

StatusTypeOK ==
    /\ player \in [Players -> Answers]
    /\ charge \in 0..MaxCharge
    /\ up \subseteq Buses
    /\ wanted \subseteq Buses
    /\ conn \in [Buses -> {"none", "open", "dead"}]
    /\ at \in {"poll", "read", "battery", "device", "asleep", "off"}
    /\ names \in Seq(Players)
    /\ paused \in Players \union {0}
    /\ line \in Players \union {0}
    /\ snapshots \in Seq(Snapshot)
    /\ Len(snapshots) <= MaxSnapshots
    /\ status \in Snapshot

Blank == [nowPlaying |-> 0, battery |-> 0]

\* spawn_poller starts no thread when neither line is wanted.
StatusInit ==
    /\ player \in [Players -> Answers]
    /\ charge \in 0..MaxCharge
    /\ up \in SUBSET Buses
    /\ wanted \in SUBSET Buses
    /\ conn = [b \in Buses |-> "none"]
    /\ at = IF wanted = {} THEN "off" ELSE "poll"
    /\ names = <<>>
    /\ paused = 0
    /\ line = 0
    /\ snapshots = <<>>
    /\ status = Blank

world == <<player, charge, up>>
-----------------------------------------------------------------------------
\* A connection is opened when there is none; one to a bus that went away
\* is found out by the call, and dropped.
Connected(bus) == IF conn[bus] = "none" /\ bus \in up THEN "open" ELSE conn[bus]

\* Mutant: a connection that failed is kept.
CallKeeps(bus) == conn' = [conn EXCEPT ![bus] = Connected(bus)]

Call(bus) ==
    conn' = [conn EXCEPT ![bus] = IF Connected(bus) = "open" THEN "open" ELSE "none"]

\* ListNames, or no now-playing line.
PollNames ==
    /\ at = "poll"
    /\ paused' = 0
    /\ line' = 0
    /\ IF "session" \notin wanted
       THEN at' = "battery" /\ UNCHANGED <<conn, names>>
       ELSE /\ Call("session")
            /\ IF Connected("session") = "open"
               THEN at' = "read" /\ names' = [i \in Players |-> i]
               ELSE at' = "battery" /\ UNCHANGED names
    /\ UNCHANGED <<world, wanted, snapshots, status>>

\* read_player on the next name: the first that plays ends the search, the
\* first that is paused is kept.  An error passes the player over and leaves
\* the connection alone; no answer at all blocks the thread here.
ReadPlayer ==
    /\ at = "read"
    /\ names # <<>>
    /\ LET answer == IF conn["session"] = "open" THEN player[Head(names)] ELSE "Gone"
       IN  /\ answer # "Hung"
           /\ IF answer = "Playing"
              THEN at' = "battery" /\ line' = Head(names) /\ names' = <<>>
              ELSE names' = Tail(names) /\ UNCHANGED <<at, line>>
           /\ paused' = IF answer = "Paused" /\ paused = 0 THEN Head(names) ELSE paused
    /\ UNCHANGED <<world, wanted, conn, snapshots, status>>

NoneLeft ==
    /\ at = "read"
    /\ names = <<>>
    /\ line' = paused
    /\ at' = "battery"
    /\ UNCHANGED <<world, wanted, conn, names, paused, snapshots, status>>

\* The snapshot is sent; the thread sleeps.
Send(battery) ==
    /\ Len(snapshots) < MaxSnapshots
    /\ snapshots' = Append(snapshots, [nowPlaying |-> line, battery |-> battery])
    /\ at' = "asleep"

\* GetDisplayDevice, or no battery line.
PollDevice ==
    /\ at = "battery"
    /\ IF "system" \notin wanted
       THEN Send(0) /\ UNCHANGED conn
       ELSE /\ Call("system")
            /\ IF Connected("system") = "open"
               THEN at' = "device" /\ UNCHANGED snapshots
               ELSE Send(0)
    /\ UNCHANGED <<world, wanted, names, paused, line, status>>

\* GetAll on the display device.
PollCharge ==
    /\ at = "device"
    /\ Call("system")
    /\ Send(IF conn["system"] = "open" THEN charge ELSE 0)
    /\ UNCHANGED <<world, wanted, names, paused, line, status>>

Wake ==
    /\ at = "asleep"
    /\ at' = "poll"
    /\ UNCHANGED <<world, wanted, conn, names, paused, line, snapshots, status>>

Poller == PollNames \/ ReadPlayer \/ NoneLeft \/ PollDevice \/ PollCharge \/ Wake

\* The callback of status::register takes the snapshot over.
TakeSnapshot ==
    /\ snapshots # <<>>
    /\ status' = Head(snapshots)
    /\ snapshots' = Tail(snapshots)
    /\ UNCHANGED <<world, wanted, conn, at, names, paused, line>>
-----------------------------------------------------------------------------
\* The world: players, the battery, and buses that stop and start.
PlayerChanges(p) ==
    /\ \E a \in Answers \ {player[p]} : player' = [player EXCEPT ![p] = a]
    /\ UNCHANGED <<charge, up, conn>>

ChargeChanges ==
    /\ \E c \in (0..MaxCharge) \ {charge} : charge' = c
    /\ UNCHANGED <<player, up, conn>>

BusStops(b) ==
    /\ b \in up
    /\ up' = up \ {b}
    /\ conn' = [conn EXCEPT ![b] = IF @ = "open" THEN "dead" ELSE @]
    /\ UNCHANGED <<player, charge>>

BusStarts(b) ==
    /\ b \notin up
    /\ up' = up \union {b}
    /\ UNCHANGED <<player, charge, conn>>

WorldChanges ==
    /\ \/ \E p \in Players : PlayerChanges(p)
       \/ ChargeChanges
       \/ \E b \in Buses : BusStops(b) \/ BusStarts(b)
    /\ UNCHANGED <<wanted, at, names, paused, line, snapshots, status>>
-----------------------------------------------------------------------------
\* "The first one advertising Playing, else the first paused one."
FirstOf(a) ==
    LET those == {p \in Players : player[p] = a}
    IN  IF those = {} THEN 0 ELSE CHOOSE p \in those : \A q \in those : p <= q

Truth == [nowPlaying |-> IF "session" \in up \intersect wanted
                         THEN IF FirstOf("Playing") # 0 THEN FirstOf("Playing")
                              ELSE FirstOf("Paused")
                         ELSE 0,
          battery |-> IF "system" \in up \intersect wanted
                      THEN charge ELSE 0]

(* The status shown is the state of the world again and again, unless a    *)
(* player hangs: the call to it has no timeout, and the battery waits      *)
(* behind it.                                                              *)
StatusCatchesUp ==
    []<>(status = Truth \/ \E p \in Players : player[p] = "Hung")

\* What a snapshot says that was not asked for is nothing.
Asked(s) ==
    /\ "session" \notin wanted => s.nowPlaying = 0
    /\ "system" \notin wanted => s.battery = 0

(* The comment on spawn_poller and poll_once: a line that is switched off  *)
(* in the configuration is never shown, whatever plays.                    *)
ShownIsAsked == Asked(status)

(* The strengthening: nor is it on its way.                                *)
StatusInv ==
    /\ StatusTypeOK
    /\ ShownIsAsked
    /\ \A i \in DOMAIN snapshots : Asked(snapshots[i])
    /\ "session" \notin wanted => line = 0 /\ at # "read"
    /\ "system" \notin wanted => at # "device"
=============================================================================
