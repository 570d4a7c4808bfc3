-------------------------------- MODULE Health --------------------------------
(***************************************************************************)
(* classify_health: what the heartbeats of a snapshot say of a process at  *)
(* the time of the observation.  busy stands for a CPU share of 20 percent *)
(* or more.                                                                *)
(***************************************************************************)
EXTENDS Integers

CONSTANTS
    StaleAfter,   \* stale_after_ns, 3 s by default
    Channels,     \* heartbeat channels, Gui among them; four in the code
    Gui           \* channel::gui

ASSUME HealthAssumption ==
    /\ StaleAfter \in Nat
    /\ Gui \in Channels

Heartbeats == [Channels -> [active : {0, 1}, timestamp_ns : Nat]]

Healths == {"awaiting_heartbeat", "healthy", "degraded", "gui_stalled",
            "globally_stalled_idle", "globally_stalled_busy"}

\* A timestamp of zero is a channel that has yet to beat.
Stale(heartbeat, now) ==
    heartbeat.timestamp_ns = 0 \/ now - heartbeat.timestamp_ns > StaleAfter

Active(heartbeats) == {c \in Channels : heartbeats[c].active = 1}

Current(heartbeats, now) == {c \in Active(heartbeats) : ~Stale(heartbeats[c], now)}

\* Mutant: what the current channels say is not weighed against the stale ones.
AnyCurrentIsHealthy(heartbeats, now) ==
    IF Gui \notin Active(heartbeats) \ Current(heartbeats, now) THEN "healthy"
    ELSE "gui_stalled"

\* The verdict when some active channel is current.
WithCurrent(heartbeats, now) ==
    IF Gui \in Active(heartbeats) \ Current(heartbeats, now) THEN "gui_stalled"
    ELSE IF Current(heartbeats, now) # Active(heartbeats) THEN "degraded"
    ELSE "healthy"

\* Mutant: a stale channel does not count as active.
StaleIsInactive(heartbeats, now, busy) ==
    IF Current(heartbeats, now) # {} THEN WithCurrent(heartbeats, now)
    ELSE "awaiting_heartbeat"

ClassifyHealth(heartbeats, now, busy) ==
    IF Active(heartbeats) = {} THEN "awaiting_heartbeat"
    ELSE IF Current(heartbeats, now) # {} THEN WithCurrent(heartbeats, now)
    ELSE IF busy THEN "globally_stalled_busy" ELSE "globally_stalled_idle"

\* How bad a verdict is.
Severity(health) ==
    CASE health = "awaiting_heartbeat" -> 0
      [] health = "healthy"     -> 1
      [] health = "degraded"    -> 2
      [] health = "gui_stalled" -> 3
      [] health \in {"globally_stalled_idle", "globally_stalled_busy"} -> 4
=============================================================================
