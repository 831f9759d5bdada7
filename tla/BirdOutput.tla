----------------------------- MODULE BirdOutput -----------------------------
(***************************************************************************)
(* What internal/bird reads out of "birdc show protocols [all]": the state *)
(* of each BGP protocol, its route counts and since when it is up.         *)
(*                                                                         *)
(* A line of the output is the head of a protocol or a line of routes that *)
(* routesRe matches, which one with a count of filtered routes is not;     *)
(* times are seconds since midnight and a day has Day of them.             *)
(***************************************************************************)
EXTENDS Lines

CONSTANTS
  Day,        \* seconds in a day
  ClockLimit  \* BIRD shows a clock time up to this age and a date beyond it

ASSUME DayAssumption == Day \in Nat \ {0} /\ ClockLimit \in 0 .. Day

(* Seeded fault: a clock time after now is left in the future. *)
UptimeOfToday(now, since) ==
  IF since.clock THEN IF since.t > now THEN 0 ELSE now - since.t
  ELSE now + since.days * Day

(* A clock time is today's, or yesterday's if that is still to come; a     *)
(* date counts from its midnight.                                          *)
parseSinceToUptimeSecs(now, since) ==
  IF since.clock THEN IF since.t > now THEN now + Day - since.t ELSE now - since.t
  ELSE now + since.days * Day

(* GetPeerStates: BGP protocols whose line has an Info column. *)
NoInfo == ""

StateStep(states, l) ==
  IF l.bgp /\ l.info # NoInfo THEN Append(states, [name |-> l.name, state |-> l.info])
  ELSE states

GetPeerStates(lines) ==
  LET states[n \in 0 .. Len(lines)] ==
        IF n = 0 THEN <<>> ELSE StateStep(states[n - 1], lines[n])
  IN states[Len(lines)]

(* GetPeerDetails: one pass, in which a line of routes adds to the last    *)
(* BGP protocol seen.                                                      *)
NewDetail(l, now) ==
  [name |-> l.name, state |-> l.info, routes |-> 0,
   uptime |-> parseSinceToUptimeSecs(now, l.since)]

(* Seeded fault: a second channel replaces the counts of the first. *)
DetailStepReplacing(details, l, now) ==
  IF l.head THEN IF l.bgp THEN Append(details, NewDetail(l, now)) ELSE details
  ELSE IF details = <<>> THEN details
  ELSE [details EXCEPT ![Len(details)].routes = l.routes]

DetailStep(details, l, now) ==
  IF l.head THEN IF l.bgp THEN Append(details, NewDetail(l, now)) ELSE details
  ELSE IF details = <<>> THEN details
  ELSE [details EXCEPT ![Len(details)].routes = @ + l.routes]

GetPeerDetails(lines, now) ==
  LET details[n \in 0 .. Len(lines)] ==
        IF n = 0 THEN <<>> ELSE DetailStep(details[n - 1], lines[n], now)
  IN details[Len(lines)]

-----------------------------------------------------------------------------
(* The reference: BIRD runs protocols, each with its age and a route count *)
(* per channel, and prints them in order.                                  *)
Protocols ==
  [name : STRING, bgp : BOOLEAN, info : STRING, age : Nat, channels : Seq(Nat)]

Since(now, age) ==
  IF age < ClockLimit
  THEN [clock |-> TRUE, t |-> IF age > now THEN now + Day - age ELSE now - age]
  ELSE [clock |-> FALSE,
        days |-> IF age > now THEN (age - now + Day - 1) \div Day ELSE 0]

Row(p, now) ==
  [head |-> TRUE, bgp |-> p.bgp, name |-> p.name, info |-> p.info,
   since |-> Since(now, p.age)]

Printed(p, now) ==
  <<Row(p, now)>>
  \o [i \in DOMAIN p.channels |-> [head |-> FALSE, routes |-> p.channels[i]]]

Table(ps, now) == [i \in DOMAIN ps |-> Row(ps[i], now)]
Output(ps, now) == Joined([i \in DOMAIN ps |-> Printed(ps[i], now)])

(* Nothing but BGP protocols comes after a BGP protocol. *)
OthersFirst(ps) == \A i, j \in DOMAIN ps : i < j /\ ps[i].bgp => ps[j].bgp

(* The n members of S in order. *)
Numbered(n, S) ==
  {at \in [1 .. n -> S] : /\ \A j, k \in 1 .. n : j < k => at[j] < at[k]
                          /\ \A i \in S : \E k \in 1 .. n : at[k] = i}

Total(channels) ==
  LET sum[n \in 0 .. Len(channels)] == IF n = 0 THEN 0 ELSE sum[n - 1] + channels[n]
  IN sum[Len(channels)]

(* Exact below ClockLimit; a date is never short, and over by less than a  *)
(* day.                                                                    *)
UptimeFits(uptime, age) ==
  IF age < ClockLimit THEN uptime = age ELSE age <= uptime /\ uptime < age + Day

DetailFits(d, p) ==
  /\ d.name = p.name /\ d.state = p.info
  /\ d.routes = Total(p.channels) /\ UptimeFits(d.uptime, p.age)
==============================================================================
