----------------------------- MODULE ExpiryProofs -----------------------------
(***************************************************************************)
(* Proofs about Expiry, for every length of a second, of the timeouts and  *)
(* of the intervals.                                                       *)
(***************************************************************************)
EXTENDS Expiry, TLAPS

\* The constants, one by one.
LEMMA Constants ==
    /\ Second \in Nat /\ Second > 0 /\ Idle \in Nat /\ Lifetime \in Nat
    /\ Interval \in Nat /\ ReapTimeout \in Nat /\ KeepAlive \in Nat
    /\ Slack \in Nat /\ Lag \in Nat
BY ExpiryAssumption

\* Whole seconds are a floor.
LEMMA Floor ==
    \A t \in Int : /\ Unix(t) \in Int
                   /\ Second * Unix(t) <= t
                   /\ t < Second * Unix(t) + Second
<1>1. \A t \in Int : /\ t \div Second \in Int
                     /\ Second * (t \div Second) <= t
                     /\ t < Second * (t \div Second) + Second
  BY Constants
<1>. QED BY <1>1 DEF Unix

\* A later second is at least a second later.
LEMMA Multiples ==
    \A a, b \in Int : /\ a < b => Second * a + Second <= Second * b
                      /\ a <= b => Second * a <= Second * b
BY Constants

\* Comparing whole seconds: never before the times themselves differ, and
\* always once they differ by a second.
LEMMA FloorOrder ==
    \A x, y \in Int : /\ Unix(x) < Unix(y) => x < y
                      /\ x + Second <= y => Unix(x) < Unix(y)
<1>1. SUFFICES ASSUME NEW x \in Int, NEW y \in Int
               PROVE  /\ Unix(x) < Unix(y) => x < y
                      /\ x + Second <= y => Unix(x) < Unix(y)
  OBVIOUS
<1>2. /\ Unix(x) \in Int /\ Second * Unix(x) <= x /\ x < Second * Unix(x) + Second
      /\ Unix(y) \in Int /\ Second * Unix(y) <= y /\ y < Second * Unix(y) + Second
  BY Floor
<1>3. /\ Second * Unix(x) \in Int /\ Second * Unix(y) \in Int
      /\ Unix(x) < Unix(y) => Second * Unix(x) + Second <= Second * Unix(y)
      /\ Unix(y) <= Unix(x) => Second * Unix(y) <= Second * Unix(x)
  BY <1>2, Multiples, Constants
<1>. QED BY <1>2, <1>3, Constants

-----------------------------------------------------------------------------
(* The inductive invariant.  TypeOK says that nobody is overdue; Sched that  *)
(* the last cycle came before the environment had expired, but for the       *)
(* rounds that were missed; Kept that a terminal's next stamp is near its    *)
(* last one; Excused why a use was listed.                                   *)

Within(t, m) == t <= last + Unlisted + m /\ t <= expires + Second + m

Gap == IF Interval > ReapTimeout + Slack THEN Interval ELSE ReapTimeout + Slack

Sched ==
    /\ nextReap <= now + Interval
    /\ cycle # "idle" => nextReap <= asked + Interval
    /\ cycle = "idle" => Within(nextReap, missed * Round + Gap)
    /\ cycle = "others" => Within(asked, missed * Round)
    /\ cycle \in {"listed", "stopped"} => Within(asked, missed * Round + Round)

Kept ==
    /\ use = "terminal" => nextKeep <= now + KeepAlive
    /\ use = "terminal" /\ kept =>
          nextKeep <= last + Lag + KeepAlive + (KeepAlive + Slack) * skipped
    /\ use = "exec" /\ kept => since <= last + Lag

Excuse ==
    \/ asked > expires
    \/ since >= asked
    \/ ~found.kept
    \/ use = "exec" /\ asked - since > Idle - Lag
    \/ use = "terminal" /\ (KeepAlive + Slack) * (found.skipped + 1) + Lag > Idle

Excused == cycle = "listed" /\ use # "none" => Excuse

IInv == TypeOK /\ expires >= Lifetime /\ (up => Sched) /\ Kept /\ Excused

\* The numbers of the state.
LEMMA Numbers ==
    ASSUME TypeOK
    PROVE  /\ now \in Nat /\ last \in Nat /\ expires \in Nat /\ since \in Nat
           /\ nextKeep \in Nat /\ nextReap \in Nat /\ asked \in Nat
           /\ skipped \in Nat /\ missed \in Nat /\ found.skipped \in Nat
           /\ last <= now /\ since <= now /\ asked <= now
BY DEF TypeOK, Times

\* A round is a gap and the slack, and covers either reason for a gap.
LEMMA Rounds ==
    /\ Gap \in Nat /\ Round \in Nat /\ Round = Gap + Slack
    /\ Interval <= Gap /\ ReapTimeout + Slack <= Gap
BY Constants DEF Gap, Round

LEMMA UnlistedBounds == Unlisted \in Nat /\ Lag <= Unlisted /\ Idle + Second <= Unlisted
BY Constants DEF Unlisted

\* One more round.
LEMMA MissedRounds ==
    \A m \in Nat : /\ m * Round \in Nat
                   /\ (m + 1) * Round = m * Round + Round
<1>1. \A m \in Nat, r \in Nat : m * r \in Nat /\ (m + 1) * r = m * r + r
  OBVIOUS
<1>. QED BY <1>1, Rounds

\* One more interval.
LEMMA SkippedStamps ==
    \A m \in Nat : /\ (KeepAlive + Slack) * m \in Nat
                   /\ (KeepAlive + Slack) * (m + 1) = (KeepAlive + Slack) * m + KeepAlive + Slack
                   /\ (KeepAlive + Slack) * 0 = 0
<1>1. \A m \in Nat, r \in Nat : r * m \in Nat /\ r * (m + 1) = r * m + r /\ r * 0 = 0
  OBVIOUS
<1>2. KeepAlive + Slack \in Nat
  BY Constants
<1>. QED BY <1>1, <1>2, Constants

\* The time of a stamp.
LEMMA StampTime ==
    ASSUME TypeOK, NEW from \in Nat, NEW t \in Stamps(from)
    PROVE  t \in Nat /\ from <= t /\ t <= now /\ now <= t + Lag
<1>1. t \in from .. now /\ now - t <= IF store = "sql" THEN Lag ELSE 0
  BY DEF Stamps
<1>. QED BY <1>1, Numbers, Constants

\* Both stores compare the same times.
LEMMA Agree ==
    ASSUME TypeOK
    PROVE  StoresAgree
<1>1. /\ now \in Int /\ last \in Int /\ expires \in Int /\ Idle \in Int /\ Second \in Int
      /\ now - Idle \in Int
  BY Numbers, Constants
<1>2. row.last = Unix(last) /\ row.expires = Unix(expires)
  BY DEF TypeOK, Times, RowOf
<1>3. /\ Unix(last) < Unix(now - Idle) => last < now - Idle
      /\ last + Second <= now - Idle => Unix(last) < Unix(now - Idle)
      /\ Unix(expires) < Unix(now) => expires < now
      /\ expires + Second <= now => Unix(expires) < Unix(now)
  BY <1>1, FloorOrder
<1>4. ExpiredInSQL(now) => ExpiredInMemory(now)
  BY <1>1, <1>2, <1>3 DEF ExpiredInSQL, ExpiredInMemory
<1>5. ExpiredInMemory(now - Second) => ExpiredInSQL(now)
  BY <1>1, <1>2, <1>3 DEF ExpiredInSQL, ExpiredInMemory
<1>. QED BY <1>4, <1>5 DEF StoresAgree

\* What is left by a cycle had not expired a second before, and what is
\* taken has expired.
LEMMA ReapDecides ==
    ASSUME TypeOK
    PROVE  /\ ~Expired => now <= last + Idle + Second /\ now <= expires + Second
           /\ Expired => now - last > Idle \/ now > expires
<1>1. now \in Int /\ last \in Int /\ expires \in Int
  BY Numbers
<1>2. CASE store = "sql"
  <2>1. /\ ~ExpiredInSQL(now) => ~ExpiredInMemory(now - Second)
        /\ ExpiredInSQL(now) => ExpiredInMemory(now)
    BY Agree DEF StoresAgree
  <2>2. Expired <=> ExpiredInSQL(now)
    BY <1>2 DEF Expired
  <2>3. /\ ~ExpiredInMemory(now - Second) => now <= last + Idle + Second /\ now <= expires + Second
        /\ ExpiredInMemory(now) => now - last > Idle \/ now > expires
    BY <1>1, Constants DEF ExpiredInMemory
  <2>. QED BY <2>1, <2>2, <2>3
<1>3. CASE store = "memory"
  BY <1>1, <1>3, Constants DEF Expired, ExpiredInMemory
<1>. QED BY <1>2, <1>3 DEF TypeOK, Times

\* A stamp that takes effect keeps the schedule.
LEMMA StampKeepsSched ==
    ASSUME TypeOK, Sched, NEW t \in Nat, t <= now, now <= t + Lag, last' = t,
           UNCHANGED <<now, expires, reapVars>>
    PROVE  Sched'
<1>. DEFINE M == missed * Round
<1>1. /\ M \in Nat /\ Gap \in Nat /\ Round \in Nat /\ Interval <= Gap
      /\ Unlisted \in Nat /\ Lag <= Unlisted
  BY Numbers, MissedRounds, Rounds, UnlistedBounds
<1>2. /\ nextReap \in Nat /\ asked \in Nat /\ now \in Nat /\ expires \in Nat /\ asked <= now
      /\ nextReap <= now + Interval
  BY Numbers DEF Sched
<1>3. nextReap <= t + Unlisted + (M + Gap)
  BY <1>1, <1>2, Constants
<1>4. asked <= t + Unlisted + M /\ asked <= t + Unlisted + (M + Round)
  BY <1>1, <1>2, Constants
<1>. QED BY <1>3, <1>4 DEF Sched, Within, reapVars

LEMMA Initially == Init => IInv
<1>. SUFFICES ASSUME Init PROVE IInv
  OBVIOUS
<1>1. /\ now \in Nat /\ last = now /\ expires = now + Lifetime
      /\ nextReap \in Nat /\ nextReap <= now + Interval /\ now <= nextReap
  BY Constants DEF Init
<1>2. TypeOK
  <2>1. Flags
    BY Zenon DEF Init, Flags
  <2>2. found.skipped = 0 /\ missed = 0 /\ fails = 0 /\ skipped = 0 /\ asked = 0
    BY DEF Init
  <2>3. Times
    BY <1>1, <2>2, Constants DEF Init, Times
  <2>. QED BY <2>1, <2>3 DEF TypeOK
<1>3. Sched
  <2>1. missed * Round = 0
    BY Rounds DEF Init
  <2>2. nextReap <= last + Unlisted + (0 + Gap) /\ nextReap <= expires + Second + (0 + Gap)
    BY <1>1, Rounds, UnlistedBounds, Constants
  <2>. QED BY <1>1, <2>1, <2>2 DEF Init, Sched, Within
<1>. QED BY <1>1, <1>2, <1>3, Constants DEF IInv, Init, Kept, Excused

LEMMA FileOpOK == IInv /\ up /\ FileOp => IInv'
<1>. SUFFICES ASSUME IInv, up, FileOp PROVE IInv'
  OBVIOUS
<1>0. TypeOK /\ expires >= Lifetime /\ Sched /\ Kept /\ Excused
  BY DEF IInv
<1>1. UNCHANGED <<store, now, up, live, expires, useVars, reapVars>>
  BY DEF FileOp
<1>2. CASE \E t \in Stamps(expires - Lifetime) : Stamp(t) /\ UNCHANGED fails
  <2>1. PICK t \in Stamps(expires - Lifetime) : Stamp(t) /\ UNCHANGED fails
    BY <1>2
  <2>2. t \in Nat /\ t <= now /\ now <= t + Lag
    <3>1. expires - Lifetime \in Nat
      BY <1>0, Numbers, Constants
    <3>. QED BY <1>0, <3>1, StampTime
  <2>3. TypeOK'
    <3>1. Flags'
      BY <1>0, <1>1, Zenon DEF TypeOK, Flags, useVars
    <3>2. Times'
      BY <1>0, <1>1, <2>1, <2>2 DEF TypeOK, Times, Stamp, useVars, reapVars
    <3>. QED BY <3>1, <3>2 DEF TypeOK
  <2>4. Sched'
    BY <1>0, <1>1, <2>1, <2>2, StampKeepsSched DEF Stamp
  <2>5. Kept'
    <3>1. last' = t /\ now \in Nat /\ nextKeep \in Nat /\ since \in Nat /\ since <= now
      BY <1>0, <2>1, Numbers DEF Stamp
    <3>2. (KeepAlive + Slack) * skipped \in Nat
      BY <1>0, Numbers, SkippedStamps
    <3>3. use = "terminal" => nextKeep <= t + Lag + KeepAlive + (KeepAlive + Slack) * skipped
      BY <1>0, <2>2, <3>1, <3>2, Constants DEF Kept
    <3>. QED BY <1>0, <1>1, <2>2, <3>1, <3>3, Constants DEF Kept, useVars
  <2>. QED BY <1>0, <1>1, <2>3, <2>4, <2>5 DEF IInv, Excused, Excuse, useVars, reapVars
<1>3. CASE Lost
  BY <1>0, <1>1, <1>3 DEF Lost, IInv, TypeOK, Flags, Times, Sched, Within, Kept, Excused, Excuse,
                           useVars, reapVars
<1>. QED BY <1>2, <1>3 DEF FileOp

LEMMA BeginOK == IInv /\ up /\ (StartExec \/ StartTerminal) => IInv'
<1>. SUFFICES ASSUME IInv, up, StartExec \/ StartTerminal PROVE IInv'
  OBVIOUS
<1>0. TypeOK /\ expires >= Lifetime /\ Sched /\ Kept /\ Excused
  BY DEF IInv
<1>1. /\ UNCHANGED <<store, now, up, live, timeVars, reapVars, fails>>
      /\ since' = now /\ ~kept' /\ skipped' = 0
      /\ use' \in {"exec", "terminal"}
      /\ use' = "terminal" => nextKeep' = now + KeepAlive
      /\ nextKeep' \in {nextKeep, now + KeepAlive}
  BY DEF StartExec, StartTerminal, Begin
<1>2. TypeOK'
  <2>1. nextKeep' \in Nat /\ (use' = "terminal" => now <= nextKeep' + Slack)
    BY <1>0, <1>1, Numbers, Constants
  <2>2. Flags'
    BY <1>0, Zenon DEF StartExec, StartTerminal, Begin, TypeOK, Flags
  <2>3. Times'
    BY <1>0, <1>1, <2>1, Numbers DEF TypeOK, Times, timeVars, reapVars
  <2>. QED BY <2>2, <2>3 DEF TypeOK
<1>3. Sched'
  BY <1>0, <1>1 DEF Sched, Within, timeVars, reapVars
<1>4. Kept'
  BY <1>0, <1>1, Numbers, Constants DEF Kept
<1>5. Excused'
  BY <1>0, <1>1, Numbers DEF Excused, Excuse, reapVars
<1>. QED BY <1>0, <1>1, <1>2, <1>3, <1>4, <1>5 DEF IInv, timeVars

LEMMA FirstStampOK == IInv /\ up /\ FirstStamp => IInv'
<1>. SUFFICES ASSUME IInv, up, FirstStamp PROVE IInv'
  OBVIOUS
<1>0. TypeOK /\ expires >= Lifetime /\ Sched /\ Kept /\ Excused
  BY DEF IInv
<1>1. UNCHANGED <<store, now, up, live, expires, use, since, nextKeep, reapVars>>
  BY DEF FirstStamp
<1>2. Flags'
  BY <1>0, Zenon DEF FirstStamp, TypeOK, Flags
<1>3. CASE (\E t \in Stamps(since) : Stamp(t)) /\ kept' = TRUE /\ skipped' = 0 /\ UNCHANGED fails
  <2>1. PICK t \in Stamps(since) : Stamp(t)
    BY <1>3
  <2>2. t \in Nat /\ since <= t /\ t <= now /\ now <= t + Lag
    BY <1>0, Numbers, StampTime
  <2>3. TypeOK'
    <3>1. skipped' = 0 /\ UNCHANGED fails
      BY <1>3
    <3>2. Times'
      BY <1>0, <1>1, <2>1, <2>2, <3>1 DEF TypeOK, Times, Stamp, reapVars
    <3>. QED BY <1>2, <3>2 DEF TypeOK
  <2>4. Sched'
    BY <1>0, <1>1, <2>1, <2>2, StampKeepsSched DEF Stamp
  <2>5. Kept'
    <3>1. last' = t /\ now \in Nat /\ nextKeep \in Nat /\ since \in Nat
      BY <1>0, <2>1, Numbers DEF Stamp
    <3>2. (KeepAlive + Slack) * skipped' = 0
      BY <1>3, SkippedStamps
    <3>. QED BY <1>0, <1>1, <2>2, <3>1, <3>2, Constants DEF Kept
  <2>. QED BY <1>0, <1>1, <2>3, <2>4, <2>5 DEF IInv, Excused, Excuse, reapVars
<1>4. CASE Lost /\ UNCHANGED <<kept, skipped>>
  <2>1. UNCHANGED <<last, row, kept, skipped>> /\ fails' = fails + 1
    BY <1>4 DEF Lost
  <2>2. Times'
    BY <1>0, <1>1, <2>1 DEF TypeOK, Times, reapVars
  <2>3. Sched' /\ Kept' /\ Excused'
    BY <1>0, <1>1, <2>1 DEF Sched, Within, Kept, Excused, Excuse, reapVars
  <2>. QED BY <1>0, <1>1, <1>2, <2>2, <2>3 DEF IInv, TypeOK
<1>. QED BY <1>3, <1>4 DEF FirstStamp

LEMMA KeepAliveOK == IInv /\ up /\ KeepAliveTick => IInv'
<1>. SUFFICES ASSUME IInv, up, KeepAliveTick PROVE IInv'
  OBVIOUS
<1>0. TypeOK /\ expires >= Lifetime /\ Sched /\ Kept /\ Excused
  BY DEF IInv
<1>1. /\ UNCHANGED <<store, now, up, live, expires, use, since, due, reapVars>>
      /\ use = "terminal" /\ nextKeep' \in now + 1 .. now + KeepAlive
  BY DEF KeepAliveTick
<1>2. /\ nextKeep' \in Nat /\ now <= nextKeep' /\ nextKeep' <= now + KeepAlive
      /\ now <= nextKeep + Slack
  BY <1>0, <1>1, Numbers, Constants DEF TypeOK, Times
<1>3. Flags'
  BY <1>0, Zenon DEF KeepAliveTick, TypeOK, Flags
<1>4. CASE (\E t \in Stamps(since) : Stamp(t)) /\ kept' = TRUE /\ skipped' = 0 /\ UNCHANGED fails
  <2>1. PICK t \in Stamps(since) : Stamp(t)
    BY <1>4
  <2>2. t \in Nat /\ since <= t /\ t <= now /\ now <= t + Lag
    BY <1>0, Numbers, StampTime
  <2>3. TypeOK'
    <3>1. now <= nextKeep' + Slack
      BY <1>0, <1>2, Numbers, Constants
    <3>2. skipped' = 0 /\ UNCHANGED fails
      BY <1>4
    <3>3. Times'
      BY <1>0, <1>1, <1>2, <2>1, <2>2, <3>1, <3>2 DEF TypeOK, Times, Stamp, reapVars
    <3>. QED BY <1>3, <3>3 DEF TypeOK
  <2>4. Sched'
    BY <1>0, <1>1, <2>1, <2>2, StampKeepsSched DEF Stamp
  <2>5. Kept'
    <3>1. last' = t /\ now \in Nat
      BY <1>0, <2>1, Numbers DEF Stamp
    <3>2. (KeepAlive + Slack) * skipped' = 0
      BY <1>4, SkippedStamps
    <3>3. nextKeep' <= t + Lag + KeepAlive + 0
      BY <1>2, <2>2, <3>1, Constants
    <3>. QED BY <1>1, <1>2, <3>1, <3>2, <3>3 DEF Kept
  <2>. QED BY <1>0, <1>1, <2>3, <2>4, <2>5 DEF IInv, Excused, Excuse, reapVars
<1>5. CASE Lost /\ skipped' = skipped + 1 /\ UNCHANGED kept
  <2>1. UNCHANGED <<last, row>> /\ fails' = fails + 1
    BY <1>5 DEF Lost
  <2>2. TypeOK'
    <3>1. now <= nextKeep' + Slack /\ skipped' \in Nat /\ fails' \in Nat
      BY <1>0, <1>2, <1>5, <2>1, Numbers, Constants DEF TypeOK, Times
    <3>2. Times'
      BY <1>0, <1>1, <1>2, <2>1, <3>1 DEF TypeOK, Times, reapVars
    <3>. QED BY <1>3, <3>2 DEF TypeOK
  <2>3. Sched'
    BY <1>0, <1>1, <2>1 DEF Sched, Within, reapVars
  <2>4. Kept'
    <3>1. /\ (KeepAlive + Slack) * skipped \in Nat
          /\ (KeepAlive + Slack) * skipped' = (KeepAlive + Slack) * skipped + KeepAlive + Slack
      BY <1>0, <1>5, Numbers, SkippedStamps
    <3>2. kept => nextKeep <= last + Lag + KeepAlive + (KeepAlive + Slack) * skipped
      BY <1>0, <1>1 DEF Kept
    <3>3. kept => nextKeep' <= last + Lag + KeepAlive
                               + ((KeepAlive + Slack) * skipped + KeepAlive + Slack)
      BY <1>0, <1>2, <3>1, <3>2, Numbers, Constants
    <3>. QED BY <1>1, <1>2, <1>5, <2>1, <3>1, <3>3 DEF Kept
  <2>. QED BY <1>0, <1>1, <2>2, <2>3, <2>4 DEF IInv, Excused, Excuse, reapVars
<1>. QED BY <1>4, <1>5 DEF KeepAliveTick

\* What is left of the invariant when nobody uses the environment.
LEMMA UnusedOK ==
    ASSUME IInv, Unused, live' = live \/ live' = FALSE,
           cycle' = cycle \/ (cycle = "listed" /\ cycle' = "stopped"),
           UNCHANGED <<store, now, up, timeVars, nextReap, asked, found, missed, fails>>
    PROVE  IInv'
<1>0. TypeOK /\ expires >= Lifetime /\ (up => Sched)
  BY DEF IInv
<1>1. /\ UNCHANGED <<store, now, up, last, expires, row, nextReap, asked, found, missed, fails>>
      /\ use' = "none" /\ since' = 0 /\ skipped' = 0 /\ nextKeep' = 0
  BY DEF Unused, timeVars
<1>2. Flags'
  BY <1>0, <1>1, Zenon DEF Unused, TypeOK, Flags
<1>3. Times'
  BY <1>0, <1>1 DEF TypeOK, Times
<1>4. up => Sched'
  BY <1>0, <1>1 DEF Sched, Within
<1>. QED BY <1>0, <1>1, <1>2, <1>3, <1>4 DEF IInv, TypeOK, Kept, Excused

LEMMA EndUseOK == IInv /\ up /\ EndUse => IInv'
<1>. SUFFICES ASSUME IInv, EndUse PROVE IInv'
  OBVIOUS
<1>1. Unused /\ UNCHANGED <<store, now, up, live, timeVars, reapVars, fails>>
  BY DEF EndUse
<1>2. cycle' = cycle /\ live' = live
  BY <1>1, Zenon DEF reapVars
<1>3. UNCHANGED <<store, now, up, timeVars, nextReap, asked, found, missed, fails>>
  BY <1>1, Zenon DEF reapVars
<1>. QED BY <1>1, <1>2, <1>3, UnusedOK, Zenon

\* What a list says of a use.
LEMMA ListedOnlyIf ==
    ASSUME TypeOK, Kept, Expired, use # "none", kept, ~(now > expires)
    PROVE  \/ use = "exec" /\ now - since > Idle - Lag
           \/ use = "terminal" /\ (KeepAlive + Slack) * (skipped + 1) + Lag > Idle
<1>1. now - last > Idle
  BY ReapDecides
<1>2. CASE use = "exec"
  BY <1>1, <1>2, Numbers, Constants DEF Kept
<1>3. CASE use = "terminal"
  <2>1. /\ now <= nextKeep + Slack
        /\ nextKeep <= last + Lag + KeepAlive + (KeepAlive + Slack) * skipped
    BY <1>3 DEF Kept, TypeOK, Times
  <2>2. /\ (KeepAlive + Slack) * skipped \in Nat
        /\ (KeepAlive + Slack) * (skipped + 1) = (KeepAlive + Slack) * skipped + KeepAlive + Slack
    BY Numbers, SkippedStamps
  <2>3. ((KeepAlive + Slack) * skipped + KeepAlive + Slack) + Lag > Idle
    BY <1>1, <2>1, <2>2, Numbers, Constants
  <2>. QED BY <1>3, <2>2, <2>3
<1>. QED BY <1>2, <1>3 DEF TypeOK, Times

LEMMA ReapListOK == IInv /\ up /\ (ReapList \/ ReapListFails) => IInv'
<1>. SUFFICES ASSUME IInv, up, ReapList \/ ReapListFails PROVE IInv'
  OBVIOUS
<1>. DEFINE M == missed * Round
<1>0. TypeOK /\ expires >= Lifetime /\ Sched /\ Kept /\ Excused
  BY DEF IInv
<1>1. /\ UNCHANGED <<store, now, up, live, timeVars, useVars, fails>>
      /\ cycle = "idle" /\ nextReap' \in now + 1 .. now + Interval
  BY DEF ReapList, ReapListFails, ReapTick
<1>2. /\ nextReap' \in Nat /\ now <= nextReap' /\ nextReap' <= now + Interval
  BY <1>0, <1>1, Numbers, Constants
<1>3. /\ M \in Nat /\ Gap \in Nat /\ Round = Gap + Slack /\ Interval <= Gap
      /\ Unlisted \in Nat /\ Idle + Second <= Unlisted
      /\ (missed + 1) * Round = M + Round
  BY <1>0, Numbers, MissedRounds, Rounds, UnlistedBounds
<1>4. now <= last + Unlisted + (M + Round) /\ now <= expires + Second + (M + Round)
  <2>1. nextReap <= last + Unlisted + (M + Gap) /\ nextReap <= expires + Second + (M + Gap)
    BY <1>0, <1>1 DEF Sched, Within
  <2>2. now <= nextReap + Slack
    BY <1>0, <1>1 DEF TypeOK, Times
  <2>. QED BY <1>0, <1>3, <2>1, <2>2, Numbers, Constants
<1>5. ~Expired => now <= last + Unlisted + M /\ now <= expires + Second + M
  <2>1. ~Expired => now <= last + Idle + Second /\ now <= expires + Second
    BY <1>0, ReapDecides
  <2>. QED BY <1>0, <1>3, <2>1, Numbers, Constants
<1>6. Kept'
  BY <1>0, <1>1 DEF Kept, useVars, timeVars
<1>7. CASE ReapList
  <2>1. /\ cycle' = (IF Expired THEN "listed" ELSE "others") /\ missed' = missed
        /\ asked' = now /\ found' = [kept |-> kept, skipped |-> skipped]
    BY <1>7 DEF ReapList
  <2>2. TypeOK'
    <3>1. now <= now + ReapTimeout + Slack /\ found'.skipped \in Nat
      BY <1>0, <2>1, Numbers, Constants
    <3>. QED BY <1>0, <1>1, <1>2, <2>1, <3>1, Numbers DEF TypeOK, Flags, Times, timeVars, useVars
  <2>3. Sched'
    BY <1>1, <1>2, <1>4, <1>5, <2>1 DEF Sched, Within, timeVars
  <2>4. Excused'
    <3>. SUFFICES ASSUME Expired, use # "none", kept, ~(now > expires)
                  PROVE  Excuse'
      BY <1>1, <2>1 DEF Excused, Excuse, timeVars, useVars
    <3>1. found'.skipped = skipped
      BY <2>1
    <3>. QED BY <1>0, <1>1, <2>1, <3>1, ListedOnlyIf DEF Excuse, timeVars, useVars
  <2>. QED BY <1>0, <1>1, <1>6, <2>2, <2>3, <2>4 DEF IInv, timeVars
<1>8. CASE ReapListFails
  <2>1. /\ cycle' = "idle" /\ asked' = asked /\ found' = found
        /\ \/ Expired /\ missed' = missed + 1
           \/ ~Expired /\ missed' = missed
    BY <1>1, <1>8 DEF ReapListFails, Miss
  <2>2. TypeOK'
    <3>1. now <= nextReap' + Slack /\ missed' \in Nat
      BY <1>0, <1>2, <2>1, Numbers, Constants
    <3>. QED BY <1>0, <1>1, <1>2, <2>1, <3>1 DEF TypeOK, Flags, Times, timeVars, useVars
  <2>3. Sched'
    <3>1. Expired => /\ nextReap' <= last + Unlisted + ((M + Round) + Gap)
                     /\ nextReap' <= expires + Second + ((M + Round) + Gap)
      BY <1>0, <1>2, <1>3, <1>4, Numbers, Constants
    <3>2. ~Expired => /\ nextReap' <= last + Unlisted + (M + Gap)
                      /\ nextReap' <= expires + Second + (M + Gap)
      BY <1>0, <1>2, <1>3, <1>5, Numbers, Constants
    <3>. QED BY <1>1, <1>2, <1>3, <2>1, <3>1, <3>2 DEF Sched, Within, timeVars
  <2>4. Excused'
    BY <2>1 DEF Excused
  <2>. QED BY <1>0, <1>1, <1>6, <2>2, <2>3, <2>4 DEF IInv, timeVars
<1>. QED BY <1>7, <1>8

LEMMA ReapStopOK == IInv /\ up /\ ReapStop => IInv'
<1>. SUFFICES ASSUME IInv, up, ReapStop PROVE IInv'
  OBVIOUS
<1>1. CASE live' = FALSE /\ Unused
  BY <1>1, UnusedOK DEF ReapStop
<1>2. CASE UNCHANGED <<live, useVars>>
  BY <1>2 DEF ReapStop, IInv, TypeOK, Flags, Times, Sched, Within, Kept, Excused, timeVars, useVars
<1>. QED BY <1>1, <1>2 DEF ReapStop

LEMMA ReapDeleteOK == IInv /\ up /\ ReapDelete => IInv'
<1>. SUFFICES ASSUME IInv, up, ReapDelete PROVE IInv'
  OBVIOUS
<1>0. TypeOK /\ expires >= Lifetime /\ Sched /\ Kept
  BY DEF IInv
<1>1. /\ UNCHANGED <<store, now, live, timeVars, useVars, nextReap, asked, found, fails>>
      /\ cycle = "stopped" /\ cycle' = "others"
  BY DEF ReapDelete
<1>2. (missed' = missed /\ ~up') \/ missed' = missed + 1
  BY Zenon DEF ReapDelete, Miss
<1>3. Flags'
  BY <1>0, Zenon DEF ReapDelete, TypeOK, Flags, useVars
<1>4. TypeOK'
  <2>1. missed' \in Nat
    BY <1>0, <1>2, Numbers
  <2>2. Times'
    BY <1>0, <1>1, <2>1 DEF TypeOK, Times, timeVars, useVars
  <2>. QED BY <1>3, <2>2 DEF TypeOK
<1>5. up' => Sched'
  <2>1. up' => missed' * Round = missed * Round + Round
    BY <1>0, <1>2, Numbers, MissedRounds
  <2>. QED BY <1>0, <1>1, <2>1 DEF Sched, Within, timeVars
<1>. QED BY <1>0, <1>1, <1>4, <1>5 DEF IInv, Kept, Excused, timeVars, useVars

LEMMA ReapEndsOK == IInv /\ up /\ ReapEnds => IInv'
<1>. SUFFICES ASSUME IInv, up, ReapEnds PROVE IInv'
  OBVIOUS
<1>. DEFINE M == missed * Round
<1>0. TypeOK /\ expires >= Lifetime /\ Sched /\ Kept
  BY DEF IInv
<1>1. /\ UNCHANGED <<store, now, up, live, timeVars, useVars, missed, fails>>
      /\ cycle = "others" /\ cycle' = "idle" /\ asked' = 0 /\ found' = [kept |-> FALSE, skipped |-> 0]
      /\ nextReap' = IF nextReap < now THEN now ELSE nextReap
  BY DEF ReapEnds
<1>2. nextReap' \in Nat /\ now <= nextReap' + Slack
  BY <1>0, <1>1, Numbers, Constants
<1>3. TypeOK'
  BY <1>0, <1>1, <1>2, Numbers DEF TypeOK, Flags, Times, timeVars, useVars
<1>4. Sched'
  <2>1. /\ M \in Nat /\ Gap \in Nat /\ Interval <= Gap /\ ReapTimeout + Slack <= Gap
        /\ Unlisted \in Nat
    BY <1>0, Numbers, MissedRounds, Rounds, UnlistedBounds
  <2>2. /\ nextReap <= asked + Interval /\ now <= asked + ReapTimeout + Slack
        /\ asked <= last + Unlisted + M /\ asked <= expires + Second + M
        /\ nextReap <= now + Interval
    BY <1>0, <1>1 DEF TypeOK, Times, Sched, Within
  <2>3. /\ nextReap' <= last + Unlisted + (M + Gap) /\ nextReap' <= expires + Second + (M + Gap)
        /\ nextReap' <= now + Interval
    BY <1>0, <1>1, <2>1, <2>2, Numbers, Constants
  <2>. QED BY <1>1, <2>3 DEF Sched, Within, timeVars
<1>. QED BY <1>0, <1>1, <1>3, <1>4 DEF IInv, Kept, Excused, timeVars, useVars

LEMMA TickOK == IInv /\ up /\ Tick => IInv'
<1>. SUFFICES ASSUME IInv, up, Tick PROVE IInv'
  OBVIOUS
<1>0. TypeOK /\ expires >= Lifetime /\ Sched /\ Kept /\ Excused
  BY DEF IInv
<1>1. /\ UNCHANGED <<store, up, live, timeVars, useVars, reapVars, fails>>
      /\ now' = now + 1
      /\ now < Slack + IF cycle = "idle" THEN nextReap ELSE asked + ReapTimeout
      /\ use = "terminal" => now < nextKeep + Slack
  BY DEF Tick
<1>2. /\ now' \in Nat /\ last <= now' /\ since <= now' /\ asked <= now'
      /\ cycle = "idle" => now' <= nextReap + Slack
      /\ cycle # "idle" => now' <= asked + ReapTimeout + Slack
      /\ use = "terminal" => now' <= nextKeep + Slack
  BY <1>0, <1>1, Numbers, Constants
<1>3. TypeOK'
  BY <1>0, <1>1, <1>2 DEF TypeOK, Flags, Times, timeVars, useVars, reapVars
<1>4. Sched'
  BY <1>0, <1>1, Numbers, Constants DEF Sched, Within, timeVars, reapVars
<1>5. Kept'
  BY <1>0, <1>1, Numbers, Constants DEF Kept, timeVars, useVars
<1>. QED BY <1>0, <1>1, <1>3, <1>4, <1>5 DEF IInv, Excused, Excuse, timeVars, useVars, reapVars

LEMMA Preserved == IInv /\ [Next]_vars => IInv'
<1>. SUFFICES ASSUME IInv, [Next]_vars PROVE IInv'
  OBVIOUS
<1>1. CASE Next
  <2>1. up
    BY <1>1 DEF Next, FileOp, StartExec, StartTerminal, Begin, FirstStamp, KeepAliveTick, EndUse,
                ReapList, ReapListFails, ReapTick, ReapStop, ReapDelete, ReapEnds, Tick
  <2>. QED BY <1>1, <2>1, FileOpOK, BeginOK, FirstStampOK, KeepAliveOK, EndUseOK, ReapListOK,
              ReapStopOK, ReapDeleteOK, ReapEndsOK, TickOK DEF Next
<1>2. CASE UNCHANGED vars
  BY <1>2 DEF vars, timeVars, useVars, reapVars, IInv, TypeOK, Flags, Times, Sched, Within, Kept,
                Excused, Excuse
<1>. QED BY <1>1, <1>2

\* The row is the exact times in seconds, and nobody is overdue.
THEOREM ExpiryTypes == Spec => []TypeOK
<1>1. IInv => TypeOK BY DEF IInv
<1>. QED BY <1>1, Initially, Preserved, PTL DEF Spec

\* Truncation to seconds never expires an environment early and delays it by
\* less than a second, whatever the idle timeout and the lifetime.
THEOREM StoresAlwaysAgree == Spec => []StoresAgree
<1>1. TypeOK => StoresAgree BY Agree
<1>. QED BY <1>1, ExpiryTypes, PTL

\* A bound on how long an environment outlives its timeouts, with one more
\* round for every cycle that failed.
THEOREM AlwaysReapedInTime == Spec => []ReapedInTime
<1>1. IInv => ReapedInTime
  <2>. SUFFICES ASSUME IInv, up PROVE ReapedInTime
    BY DEF ReapedInTime
  <2>. DEFINE M == missed * Round
  <2>0. TypeOK /\ Sched
    BY DEF IInv
  <2>1. /\ M \in Nat /\ Gap \in Nat /\ Round = Gap + Slack /\ Unlisted \in Nat
        /\ (missed + 1) * Round = M + Round
    BY <2>0, Numbers, MissedRounds, Rounds, UnlistedBounds
  <2>2. CASE cycle = "idle"
    <3>1. /\ nextReap <= last + Unlisted + (M + Gap) /\ nextReap <= expires + Second + (M + Gap)
          /\ now <= nextReap + Slack
      BY <2>0, <2>2 DEF Sched, Within, TypeOK, Times
    <3>2. /\ now <= last + Unlisted + ((M + Round) + ReapTimeout + Slack)
          /\ now <= expires + Second + ((M + Round) + ReapTimeout + Slack)
      BY <2>0, <2>1, <3>1, Numbers, Constants
    <3>. QED BY <2>1, <3>2 DEF ReapedInTime
  <2>3. CASE cycle # "idle"
    <3>1. /\ \/ asked <= last + Unlisted + M /\ asked <= expires + Second + M
             \/ asked <= last + Unlisted + (M + Round) /\ asked <= expires + Second + (M + Round)
          /\ now <= asked + ReapTimeout + Slack
      BY <2>0, <2>3 DEF Sched, Within, TypeOK, Times
    <3>2. /\ now <= last + Unlisted + ((M + Round) + ReapTimeout + Slack)
          /\ now <= expires + Second + ((M + Round) + ReapTimeout + Slack)
      BY <2>0, <2>1, <3>1, Numbers, Rounds, Constants
    <3>. QED BY <2>1, <3>2 DEF ReapedInTime
  <2>. QED BY <2>2, <2>3
<1>. QED BY <1>1, Initially, Preserved, PTL DEF Spec

\* The reaper stops a container that is used only for one of the causes that
\* the property names, whatever the timeouts and the intervals are.
THEOREM UseAlwaysSpared == Spec => UseIsSpared
<1>1. IInv /\ [Next]_vars => [live /\ ~live' /\ use # "none" => Excuse]_vars
  <2>. SUFFICES ASSUME IInv, Next, live, ~live', use # "none"
                PROVE  Excuse
    OBVIOUS
  <2>1. ReapStop
    BY DEF Next, FileOp, StartExec, StartTerminal, Begin, FirstStamp, KeepAliveTick, EndUse,
           ReapList, ReapListFails, ReapTick, ReapDelete, ReapEnds, Tick
  <2>. QED BY <2>1 DEF ReapStop, IInv, Excused
<1>2. [live /\ ~live' /\ use # "none" => Excuse]_vars =>
        [live /\ ~live' /\ use # "none" =>
         \/ asked > expires
         \/ since >= asked
         \/ ~found.kept
         \/ use = "exec" /\ asked - since > Idle - Lag
         \/ use = "terminal" /\ (KeepAlive + Slack) * (found.skipped + 1) + Lag > Idle]_vars
  BY DEF Excuse
<1>. QED BY <1>1, <1>2, Initially, Preserved, PTL DEF Spec, UseIsSpared
=============================================================================
