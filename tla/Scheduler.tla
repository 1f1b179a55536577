----------------------------- MODULE Scheduler -----------------------------
(***************************************************************************)
(* EveryIntervalScheduler of wt-engine: polled with the current time, it   *)
(* fires at once, then at most once per interval on the grid the first     *)
(* poll set.  A poll that comes several intervals late fires once, for the *)
(* oldest due time, and skips the rest.  The caller's clock may go back.   *)
(***************************************************************************)
EXTENDS Option

CONSTANTS
  Interval,  \* interval_ns
  PollTimes,     \* the times a poll may come at
  MaxFires   \* bound on the number of events

\* With an interval of zero or less next_due does not return.
ASSUME IntervalAssumption == Interval \in Nat \ {0}
ASSUME PollTimesAssumption == PollTimes \subseteq Int

VARIABLES
  next_fire,  \* Option, the next time due
  fired       \* the events returned so far: [ts, fire_time]

vars == <<next_fire, fired>>

Init ==
  /\ next_fire = None
  /\ fired = <<>>

FireFirst(now) ==
  /\ next_fire = None
  /\ next_fire' = Some(now + Interval)
  /\ fired' = Append(fired, [ts |-> now, fire_time |-> now])

\* Mutants: one interval is added, not as many as passed; the grid moves to
\* the poll; one interval too many is added.
CatchUpOnce(next, now) == next + Interval
CatchUpFromNow(next, now) == now + Interval
CatchUpTwice(next, now) == next + ((now - next) \div Interval + 2) * Interval

\* Where the loop that adds intervals until the time is past now ends.
CatchUp(next, now) == next + ((now - next) \div Interval + 1) * Interval

FireDue(now) ==
  /\ IsSome(next_fire)
  /\ now >= next_fire[1]
  /\ next_fire' = Some(CatchUp(next_fire[1], now))
  /\ fired' = Append(fired, [ts |-> now, fire_time |-> next_fire[1]])

NotDue(now) ==
  /\ IsSome(next_fire)
  /\ now < next_fire[1]
  /\ UNCHANGED vars

NextDue(now) == FireFirst(now) \/ FireDue(now) \/ NotDue(now)

Next == \E now \in PollTimes : Len(fired) < MaxFires /\ NextDue(now)

Spec == Init /\ [][Next]_vars
-----------------------------------------------------------------------------
\* The next time due is known once an event has fired.
TypeOK ==
  /\ next_fire \in Seq(Int) /\ Len(next_fire) <= 1
  /\ fired \in Seq([ts : PollTimes, fire_time : Int])
  /\ next_fire = None <=> fired = <<>>

\* No due time fires twice, not even when the clock goes back and passes it
\* again, and none fires early.
FiresOnce ==
  /\ \A m, n \in 1..Len(fired) : m < n => fired[m].fire_time < fired[n].fire_time
  /\ \A n \in 1..Len(fired) :
       /\ fired[n].fire_time <= fired[n].ts
       /\ fired[n].ts < next_fire[1]

\* However late the polls come, the due times do not drift: they stay on the
\* grid of intervals after the first event, and so does the next one.
StaysOnGrid ==
  \A n \in 1..Len(fired) :
    /\ (fired[n].fire_time - fired[1].ts) % Interval = 0
    /\ (next_fire[1] - fired[1].ts) % Interval = 0

\* A due time is skipped only when an event fired at or after it: between
\* the due times of two events in a row every grid point lies before the
\* poll that fired the first.
SkipsOnlyThePast ==
  \A n \in 2..Len(fired) :
    /\ fired[n].fire_time > fired[n - 1].ts
    /\ fired[n].fire_time <= fired[n - 1].ts + Interval
=============================================================================
