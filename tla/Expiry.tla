-------------------------------- MODULE Expiry --------------------------------
(***************************************************************************)
(* When an environment expires, on a clock finer than a second: the stamps *)
(* of execs, files and terminals, which may come late or get lost, the     *)
(* whole seconds that SQLStore keeps of them, and the reaper, whose cycle  *)
(* lists, stops and deletes in turn while time passes and others use the   *)
(* environment.  The server stays up; EnvLifecycle has its restarts.       *)
(***************************************************************************)
EXTENDS Integers

CONSTANTS
    Second,        \* clock units in a second
    Idle,          \* HAAS_IDLE_TIMEOUT
    Lifetime,      \* HAAS_MAX_LIFETIME
    Interval,      \* interval of the reaper
    ReapTimeout,   \* context of a cycle
    KeepAlive,     \* interval of a terminal's stamps
    Slack,         \* the longest a goroutine is held up that could run
    Lag,           \* the longest an Update takes to reach the database
    MaxFails,      \* bound: failed Updates
    MaxMissed,     \* bound: cycles that fail the environment
    MaxNow         \* bound: the clock

ASSUME ExpiryAssumption ==
    /\ {Second, Idle, Lifetime, Interval, ReapTimeout, KeepAlive} \subseteq Nat \ {0}
    /\ {Slack, Lag, MaxFails, MaxMissed, MaxNow} \subseteq Nat

VARIABLES
    store,         \* "sql" or "memory"
    now,
    up,            \* the environment's record is there
    live,          \* its container is there
    last, expires, \* the times the store was given
    row,           \* what SQLStore has of them, in seconds
    use,           \* "none", or an "exec" or a "terminal" under way
    since,         \*    when it began
    due,           \*    its first stamp is still to come
    kept,          \* history: a stamp of it has reached the store
    skipped,       \* history: how many failed since
    nextKeep,      \* ticker of the terminal
    nextReap,      \* ticker of the reaper
    cycle,         \* where its cycle is: "idle", "listed", "stopped" or "others"
    asked,         \*    when it called ListExpired
    found,         \* history: kept and skipped at that time
    missed,        \* history: cycles that did not remove the expired environment
    fails

timeVars == <<last, expires, row>>
useVars == <<use, since, due, kept, skipped, nextKeep>>
reapVars == <<nextReap, cycle, asked, found, missed>>
vars == <<store, now, up, live, timeVars, useVars, reapVars, fails>>

\* time.Time.Unix.
Unix(t) == t \div Second

\* Create and Update of SQLStore.
RowOf(used, end) == [last |-> Unix(used), expires |-> Unix(end)]

\* A creation at any fraction of a second and of the reaper's interval.
Init ==
    /\ store \in {"sql", "memory"}
    /\ now \in 0..Second - 1
    /\ up = TRUE /\ live = TRUE
    /\ last = now /\ expires = now + Lifetime /\ row = RowOf(last, expires)
    /\ use = "none" /\ since = 0 /\ due = FALSE /\ kept = FALSE /\ skipped = 0
    /\ nextKeep = 0
    /\ nextReap \in now + 1..now + Interval
    /\ cycle = "idle" /\ asked = 0 /\ found = [kept |-> FALSE, skipped |-> 0]
    /\ missed = 0 /\ fails = 0

-----------------------------------------------------------------------------
(* ListExpired.                                                            *)

ExpiredInMemory(t) == t - last > Idle \/ t > expires

\* Mutant: up to and including the cutoff.
MutantExpiredInSQL(t) == row.last <= Unix(t - Idle) \/ row.expires <= Unix(t)

ExpiredInSQL(t) == row.last < Unix(t - Idle) \/ row.expires < Unix(t)

\* Mutant: the lifetime alone counts.
MutantExpired == now > expires

Expired == IF store = "sql" THEN ExpiredInSQL(now) ELSE ExpiredInMemory(now)

-----------------------------------------------------------------------------
(* Stamps.                                                                 *)

\* Times a handler may have read since the given one for an Update that takes
\* effect now; MemoryStore's object is written in place.
Stamps(from) == {t \in from..now : now - t <= IF store = "sql" THEN Lag ELSE 0}

\* Mutant: the stamp never reaches the row.
MutantStamp(t) == last' = t /\ UNCHANGED row

\* env.LastUsedAt and the Update of the record, which rewrites whatever a
\* faster Update has written.
Stamp(t) == last' = t /\ row' = RowOf(t, expires)

\* The Update fails, which is only logged.
Lost == /\ store = "sql" /\ fails < MaxFails
        /\ fails' = fails + 1 /\ UNCHANGED <<last, row>>

\* A file operation stamps when it is done, be it that the container has gone
\* since.
FileOp ==
    /\ up
    /\ \/ \E t \in Stamps(expires - Lifetime) : Stamp(t) /\ UNCHANGED fails
       \/ Lost
    /\ UNCHANGED <<store, now, up, live, expires, useVars, reapVars>>

\* Nobody uses the environment any more.
Unused ==
    /\ use' = "none" /\ since' = 0 /\ due' = FALSE /\ kept' = FALSE /\ skipped' = 0
    /\ nextKeep' = 0

\* A command has started in the container; the handler is about to stamp.
Begin(kind) ==
    /\ up /\ live /\ use = "none"
    /\ use' = kind /\ since' = now /\ due' = TRUE
    /\ kept' = FALSE /\ skipped' = 0
    /\ UNCHANGED <<store, now, up, live, timeVars, reapVars, fails>>

StartExec == Begin("exec") /\ UNCHANGED nextKeep
StartTerminal == Begin("terminal") /\ nextKeep' = now + KeepAlive

\* The only stamp of an exec, the first one of a terminal.
FirstStamp ==
    /\ up /\ use # "none" /\ due /\ due' = FALSE
    /\ \/ /\ \E t \in Stamps(since) : Stamp(t)
          /\ kept' = TRUE /\ skipped' = 0 /\ UNCHANGED fails
       \/ Lost /\ UNCHANGED <<kept, skipped>>
    /\ UNCHANGED <<store, now, up, live, expires, use, since, nextKeep, reapVars>>

\* Mutant: the ticker is not read.
MutantKeepAliveTick ==
    /\ up /\ use = "terminal" /\ now >= nextKeep
    /\ nextKeep' = now + KeepAlive
    /\ UNCHANGED <<store, now, up, live, timeVars, use, since, due, kept, skipped, reapVars, fails>>

\* A tick of the terminal's ticker, of which the next comes within an interval.
KeepAliveTick ==
    /\ up /\ use = "terminal" /\ now >= nextKeep
    /\ nextKeep' \in now + 1..now + KeepAlive
    /\ \/ /\ \E t \in Stamps(since) : Stamp(t)
          /\ kept' = TRUE /\ skipped' = 0 /\ UNCHANGED fails
       \/ Lost /\ skipped' = skipped + 1 /\ UNCHANGED kept
    /\ UNCHANGED <<store, now, up, live, expires, use, since, due, reapVars>>

EndUse ==
    /\ up /\ use # "none" /\ ~due /\ Unused
    /\ UNCHANGED <<store, now, up, live, timeVars, reapVars, fails>>

-----------------------------------------------------------------------------
(* A cycle of the reaper.  Its calls run under one context; what MemoryStore*)
(* is asked never fails.                                                   *)

\* A failure of the cycle that leaves an expired environment.
Miss == store = "sql" /\ missed < MaxMissed /\ missed' = missed + 1

\* A tick, of which the next comes within an interval, and ListExpired,
ReapTick ==
    /\ up /\ cycle = "idle" /\ now >= nextReap
    /\ nextReap' \in now + 1..now + Interval
    /\ UNCHANGED <<store, now, up, live, timeVars, useVars, fails>>

ReapList ==
    /\ ReapTick
    /\ cycle' = IF Expired THEN "listed" ELSE "others"
    /\ asked' = now /\ found' = [kept |-> kept, skipped |-> skipped]
    /\ UNCHANGED missed

\* whose error ends the cycle.
ReapListFails ==
    /\ ReapTick /\ store = "sql"
    /\ IF Expired THEN Miss ELSE UNCHANGED missed
    /\ UNCHANGED <<cycle, asked, found>>

\* StopContainer, after those of other environments; its error, also that of
\* the context, is only logged.
ReapStop ==
    /\ up /\ cycle = "listed" /\ cycle' = "stopped"
    /\ \/ live' = FALSE /\ Unused
       \/ UNCHANGED <<live, useVars>>
    /\ UNCHANGED <<store, now, up, timeVars, nextReap, asked, found, missed, fails>>

\* Delete, and then the rest of the list.
ReapDelete ==
    /\ up /\ cycle = "stopped" /\ cycle' = "others"
    /\ \/ /\ store = "memory" \/ now <= asked + ReapTimeout
          /\ up' = FALSE /\ UNCHANGED missed
       \/ Miss /\ UNCHANGED up
    /\ UNCHANGED <<store, now, live, timeVars, useVars, nextReap, asked, found, fails>>

\* A tick that came during the cycle is taken at once.
ReapEnds ==
    /\ up /\ cycle = "others" /\ cycle' = "idle"
    /\ nextReap' = IF nextReap < now THEN now ELSE nextReap
    /\ asked' = 0 /\ found' = [kept |-> FALSE, skipped |-> 0]
    /\ UNCHANGED <<store, now, up, live, timeVars, useVars, missed, fails>>

\* Time passes, but nobody who could go on waits for longer than Slack, and
\* the calls of a cycle return when its context ends.
Tick ==
    /\ up /\ now < MaxNow
    /\ now < Slack + IF cycle = "idle" THEN nextReap ELSE asked + ReapTimeout
    /\ use = "terminal" => now < nextKeep + Slack
    /\ now' = now + 1
    /\ UNCHANGED <<store, up, live, timeVars, useVars, reapVars, fails>>

Next == \/ FileOp \/ StartExec \/ StartTerminal \/ FirstStamp \/ KeepAliveTick \/ EndUse
        \/ ReapList \/ ReapListFails \/ ReapStop \/ ReapDelete \/ ReapEnds \/ Tick

Spec == Init /\ [][Next]_vars

-----------------------------------------------------------------------------
(* Properties.                                                             *)

\* The longest time between the starts of two cycles.
Round == Slack + IF Interval > ReapTimeout + Slack THEN Interval ELSE ReapTimeout + Slack

Flags == up \in BOOLEAN /\ live \in BOOLEAN /\ due \in BOOLEAN /\ kept \in BOOLEAN

\* The row is the exact times in seconds; nobody is overdue by more than the
\* slack.
Times ==
    /\ store \in {"sql", "memory"}
    /\ use \in {"none", "exec", "terminal"} /\ cycle \in {"idle", "listed", "stopped", "others"}
    /\ {now, last, expires, since, nextKeep, nextReap, asked} \subseteq Nat
    /\ last <= now /\ since <= now /\ asked <= now
    /\ {skipped, fails, found.skipped, missed} \subseteq Nat
    /\ row = RowOf(last, expires)
    /\ cycle = "idle" => now <= nextReap + Slack
    /\ cycle # "idle" => now <= asked + ReapTimeout + Slack
    /\ use = "terminal" => now <= nextKeep + Slack

TypeOK == Flags /\ Times

\* Whole seconds never make an environment expire early, and they delay it by
\* less than a second: what MemoryStore returns at some time SQLStore returns
\* one second later, if nobody has used the environment meanwhile.
StoresAgree ==
    /\ ExpiredInSQL(now) => ExpiredInMemory(now)
    /\ ExpiredInMemory(now - Second) => ExpiredInSQL(now)

\* The longest an unused environment is not listed as idle, from the time of
\* its last stamp: a stamp that took longer than that to arrive counts from
\* when it did.
Unlisted == IF Lag > Idle + Second THEN Lag ELSE Idle + Second

\* An environment that is idle or at the end of its lifetime is gone after a
\* second, the rest of the round that was under way and one more cycle; every
\* cycle whose list or Delete failed, or came too late for its context, costs
\* one more round, and no more.
ReapedInTime ==
    LET reaping == (missed + 1) * Round + ReapTimeout + Slack
    IN  up => now <= last + Unlisted + reaping /\ now <= expires + Second + reaping

\* The reaper stops a container under an exec or a terminal only if the
\* lifetime was over; if the use began after the list was drawn up, which
\* the comment on the keep-alive does not foresee; if none of its stamps had
\* reached the store; if an exec had run for the idle timeout, but for what a
\* late stamp of another request takes off; or if so many stamps of a terminal
\* had failed in a row that the idle timeout went by, which needs none to fail
\* if HAAS_IDLE_TIMEOUT is as short as the keep-alive.
UseIsSpared ==
    [][live /\ ~live' /\ use # "none" =>
         \/ asked > expires
         \/ since >= asked
         \/ ~found.kept
         \/ use = "exec" /\ asked - since > Idle - Lag
         \/ use = "terminal" /\ (KeepAlive + Slack) * (found.skipped + 1) + Lag > Idle]_vars
=============================================================================
