------------------------------ MODULE PortalHub ------------------------------
(***************************************************************************)
(* The portal hub: the loop that refreshes the integration state against   *)
(* the upstream service, expires the donor and follows the supporter key,  *)
(* the account operations of the HTTP handlers that can hide the account   *)
(* surface at any moment, and the portal.state events both publish.        *)
(*                                                                         *)
(* An expiry is none, future or past.  Links and promotions are present or *)
(* not.  Only the loop moves the settings generation, so its check never   *)
(* fails while a cycle runs and is left out; so are Refresh, which nothing *)
(* in the program calls, and the cached notice, on which nothing depends.  *)
(***************************************************************************)
EXTENDS Naturals

CONSTANTS
    Op,        \* bound: account operations in flight
    MaxTicks   \* bound: expiry instants that pass

ASSUME TicksAssumption == MaxTicks \in Nat

VARIABLES
    hub,    \* Hub.state
    loop,   \* Run: its position, the candidate of the cycle, the expiry timer
    ops,    \* per account operation: its position and the snapshot it read
    heard,  \* history: the snapshot read last for an event
    key,    \* the supporter key differs from the one last noted
    ticks

portalVars == <<hub, loop, ops, heard, key, ticks>>

Fresh == [acc |-> FALSE, ads |-> FALSE, live |-> FALSE, donor |-> FALSE, until |-> "none",
          links |-> FALSE, promotions |-> FALSE]

NotDonor(st) == [st EXCEPT !.donor = FALSE, !.until = "none"]

\* What clients see; the slot shows only while it is live.
Snapshot(st) == [acc |-> st.acc, ads |-> st.ads /\ st.live, donor |-> st.donor, links |-> st.links]

PortalInit ==
    /\ hub = Fresh
    /\ loop = [pc |-> "begin", hourly |-> FALSE, next |-> Fresh, timer |-> "off"]
    /\ ops = [o \in Op |-> "idle"]
    /\ heard = Snapshot(Fresh)
    /\ key = FALSE /\ ticks = 0

\* The donor expiry passes: for the state, the candidate and the timer alike.
Passed(st) == [st EXCEPT !.until = IF @ = "future" THEN "past" ELSE @]
Tick ==
    /\ ticks < MaxTicks
    /\ ticks' = ticks + 1
    /\ hub' = Passed(hub)
    /\ loop' = [loop EXCEPT !.next = Passed(@),
                            !.timer = IF @ = "armed" THEN "fired" ELSE @]
    /\ UNCHANGED <<ops, heard, key>>

\* A save of the settings changes the supporter key, or changes it back.
SetKey ==
    /\ key' = ~key
    /\ UNCHANGED <<hub, loop, ops, heard, ticks>>

---------------------------------------------------------------------------
(* A refresh cycle.  Each call may fail; a candidate is built aside and    *)
(* committed at the end.                                                   *)

Goes(pc, next) == loop' = [loop EXCEPT !.pc = pc, !.next = next]

Begin ==
    /\ loop.pc = "begin"
    /\ key' = FALSE
    /\ Goes("settings", hub)
    /\ UNCHANGED <<hub, ops, heard, ticks>>

\* Public settings, whose failure removes accounts and promotions, then links.
SettingsAndLinks ==
    /\ loop.pc = "settings"
    /\ \/ Goes("commit", NotDonor([loop.next EXCEPT !.acc = FALSE, !.ads = FALSE, !.live = FALSE,
                                                    !.promotions = FALSE]))
       \/ \E acc, ads, links \in BOOLEAN :
             Goes("account", [loop.next EXCEPT !.acc = acc, !.ads = ads, !.links = links])
    /\ UNCHANGED <<hub, ops, heard, key, ticks>>

\* How a call of the upstream client ends: do and statusError tell rejected
\* credentials from an outage and from everything else.
Reply == {"ok", "credentials", "unavailable", "other"}

\* Mutant of AccountAnswers: an answer that names no donor keeps the last one.
AccountKeepsDonor(next, reply) ==
    IF reply = "ok" THEN {next} \cup {[next EXCEPT !.donor = TRUE, !.until = u] : u \in {"none", "future"}}
    ELSE {next}

\* AccountStatus: a status whose expiry is past is no donor; rejected
\* credentials are no outage; any other error hides the account controls.
AccountAnswers(next, reply) ==
    CASE reply = "ok" -> {NotDonor(next)} \cup {[next EXCEPT !.donor = TRUE, !.until = u] : u \in {"none", "future"}}
      [] reply = "credentials" -> {NotDonor(next)}
      [] OTHER -> {[NotDonor(next) EXCEPT !.acc = FALSE]}

Account ==
    /\ loop.pc = "account"
    /\ \E reply \in Reply :
       \E next \in IF loop.next.acc THEN AccountAnswers(loop.next, reply) ELSE {NotDonor(loop.next)} :
          Goes("promotions", next)
    /\ UNCHANGED <<hub, ops, heard, key, ticks>>

\* A delivery fills the slot, if only with no creative; one that fails hides it.
Hidden(next) == [next EXCEPT !.promotions = FALSE, !.live = FALSE]
Delivered(next, reply) ==
    IF reply = "ok" THEN {[next EXCEPT !.promotions = some, !.live = TRUE] : some \in BOOLEAN}
    ELSE {Hidden(next)}

\* PromotionAvailability: whether the probe finds a creative.
Available(reply) == IF reply = "ok" THEN BOOLEAN ELSE {FALSE}

\* Mutant of Slot: donors are not looked at.
SlotForAll(next) == IF ~next.ads THEN {Hidden(next)} ELSE UNION {Delivered(next, reply) : reply \in Reply}

\* A live slot is delivered to directly, a hidden one after the probe; donors
\* and disabled ads hide it.
Slot(next) ==
    IF ~next.ads \/ next.donor THEN {Hidden(next)}
    ELSE UNION {IF next.live \/ found THEN Delivered(next, reply) ELSE {Hidden(next)} :
                   reply \in Reply, found \in UNION {Available(probe) : probe \in Reply}}

Promote ==
    /\ loop.pc = "promotions"
    /\ \E next \in Slot(loop.next) : Goes("commit", next)
    /\ UNCHANGED <<hub, ops, heard, key, ticks>>

\* Mutant of SnapshotChanged: the links are not compared.
SnapshotChangedButLinks(before, after) ==
    \/ before.acc # after.acc \/ before.ads # after.ads \/ before.live # after.live
    \/ before.donor # after.donor \/ before.until # after.until

SnapshotChanged(before, after) ==
    \/ before.acc # after.acc \/ before.ads # after.ads \/ before.live # after.live
    \/ before.donor # after.donor \/ before.until # after.until \/ before.links # after.links

AfterCycle == IF loop.hourly THEN "notice" ELSE "top"

Commit ==
    /\ loop.pc = "commit"
    /\ hub' = loop.next
    /\ Goes(IF SnapshotChanged(hub, loop.next) THEN "emit" ELSE AfterCycle, Fresh)
    /\ UNCHANGED <<ops, heard, key, ticks>>

\* emit: the snapshot is read after the critical section that changed the state.
Emit ==
    /\ loop.pc = "emit"
    /\ heard' = Snapshot(hub)
    /\ Goes(AfterCycle, Fresh)
    /\ UNCHANGED <<hub, ops, key, ticks>>

\* RefreshNotice at the end of an hourly cycle, whatever it finds.
CycleNotice ==
    /\ loop.pc = "notice"
    /\ loop' = [loop EXCEPT !.pc = "top", !.hourly = FALSE]
    /\ UNCHANGED <<hub, ops, heard, key, ticks>>

---------------------------------------------------------------------------
(* Run.                                                                    *)

\* donorDelay: no delay for no expiry, and none for one that has passed.
DonorDelay == hub.donor /\ hub.until = "future"

\* The top of the loop arms the expiry timer or stops it.
Arm ==
    /\ loop.pc = "top"
    /\ loop' = [loop EXCEPT !.pc = "select", !.timer = IF DonorDelay THEN "armed" ELSE "off"]
    /\ UNCHANGED <<hub, ops, heard, key, ticks>>

Hourly ==
    /\ loop.pc = "select"
    /\ loop' = [loop EXCEPT !.pc = "begin", !.hourly = TRUE]
    /\ UNCHANGED <<hub, ops, heard, key, ticks>>

\* The settings poll refreshes when the key changed.
Poll ==
    /\ loop.pc = "select"
    /\ loop' = [loop EXCEPT !.pc = IF key THEN "begin" ELSE "top"]
    /\ key' = FALSE
    /\ UNCHANGED <<hub, ops, heard, ticks>>

ExpireDonor ==
    /\ loop.pc = "select"
    /\ loop.timer = "fired"
    /\ IF hub.donor /\ hub.until = "past"
       THEN /\ hub' = NotDonor(hub)
            /\ loop' = [loop EXCEPT !.pc = "emit", !.timer = "off"]
       ELSE /\ loop' = [loop EXCEPT !.pc = "top", !.timer = "off"]
            /\ UNCHANGED hub
    /\ UNCHANGED <<ops, heard, key, ticks>>

\* The context is cancelled: at the select or at the gate of a cycle.
Stop ==
    /\ loop.pc \in {"select", "begin", "settings", "account", "promotions"}
    /\ loop' = [loop EXCEPT !.pc = "stopped", !.next = Fresh, !.timer = "off"]
    /\ UNCHANGED <<hub, ops, heard, key, ticks>>

---------------------------------------------------------------------------
(* Handlers.                                                               *)

\* Login, Register, Me and AccountStatus pass the gate and call upstream.
CallAccount(o) ==
    /\ ops[o] = "idle"
    /\ hub.acc
    /\ ops' = [ops EXCEPT ![o] = "calling"]
    /\ UNCHANGED <<hub, loop, heard, key, ticks>>

\* observeAccountOutcome: an outage hides the surface, anything else changes nothing.
Outage(st) == [NotDonor(st) EXCEPT !.acc = FALSE]

Observe(o) ==
    /\ ops[o] = "calling"
    /\ \E reply \in Reply :
          LET hides == reply = "unavailable" IN
          /\ hub' = IF hides THEN Outage(hub) ELSE hub
          /\ ops' = [ops EXCEPT ![o] = IF hides /\ (hub.acc \/ hub.donor) THEN "emit" ELSE "idle"]
    /\ UNCHANGED <<loop, heard, key, ticks>>

EmitOutcome(o) ==
    /\ ops[o] = "emit"
    /\ heard' = Snapshot(hub)
    /\ ops' = [ops EXCEPT ![o] = "idle"]
    /\ UNCHANGED <<hub, loop, key, ticks>>

Cycle == Begin \/ SettingsAndLinks \/ Account \/ Promote \/ Commit \/ Emit \/ CycleNotice \/ Arm

PortalNext ==
    \/ Tick \/ SetKey
    \/ Cycle \/ Hourly \/ Poll \/ ExpireDonor \/ Stop
    \/ \E o \in Op : CallAccount(o) \/ Observe(o) \/ EmitOutcome(o)

\* The cycle goes on, its calls have deadlines, and the hourly timer, which
\* nothing stops, fires again and again.
PortalSpec ==
    /\ PortalInit /\ [][PortalNext]_portalVars
    /\ WF_portalVars(Cycle) /\ SF_portalVars(Hourly)

---------------------------------------------------------------------------
HubState == [acc : BOOLEAN, ads : BOOLEAN, live : BOOLEAN, donor : BOOLEAN,
             until : {"none", "future", "past"}, links : BOOLEAN, promotions : BOOLEAN]

PortalTypeOK ==
    /\ hub \in HubState
    /\ loop \in [pc : {"begin", "settings", "account", "promotions", "commit", "emit", "notice",
                       "top", "select", "stopped"},
                 hourly : BOOLEAN, next : HubState, timer : {"off", "armed", "fired"}]
    /\ ops \in [Op -> {"idle", "calling", "emit"}]
    /\ key \in BOOLEAN /\ ticks \in 0..MaxTicks

\* Whatever changed the snapshot - a cycle, the expiry or a handler that met
\* an outage - an event with it or with a later one was made from it.
NoSilentChange ==
    loop.pc # "emit" /\ (\A o \in Op : ops[o] # "emit") => heard = Snapshot(hub)

\* A donor hides the promotions across the household, also while the account
\* surface is changed underneath a running cycle.
DonorSeesNoAds == hub.donor => ~hub.live /\ ~hub.promotions

\* A donor whose expiry has passed does not stay one, by the timer or, when
\* its expiry was missed, by a later cycle.
DonorExpires ==
    hub.donor /\ hub.until = "past"
        ~> (hub.donor => hub.until # "past") \/ loop.pc = "stopped"
=============================================================================
