--------------------------- MODULE PortalHubProofs ---------------------------
(***************************************************************************)
(* A donor sees no promotions, for any account operations: the candidate   *)
(* of a cycle is clean when it is committed, and whatever handlers, the    *)
(* expiry and the passing of time do to the state meanwhile keeps it so.   *)
(* And no change of what clients see goes without an event.                *)
(***************************************************************************)
EXTENDS PortalHub, TLAPS

Clean(st) == st.donor => ~st.live /\ ~st.promotions

HubInv ==
    /\ hub \in HubState /\ Clean(hub)
    /\ loop \in [pc : {"begin", "settings", "account", "promotions", "commit", "emit", "notice",
                       "top", "select", "stopped"},
                 hourly : BOOLEAN, next : HubState, timer : {"off", "armed", "fired"}]
    /\ loop.pc = "commit" => Clean(loop.next)

---------------------------------------------------------------------------
(* What the helpers make of a state.                                       *)

LEMMA FreshClean == Fresh \in HubState /\ Clean(Fresh)
  BY DEF Fresh, HubState, Clean

LEMMA NotDonorClean ==
    ASSUME NEW st \in HubState PROVE NotDonor(st) \in HubState /\ Clean(NotDonor(st))
  BY DEF NotDonor, HubState, Clean

LEMMA OutageClean ==
    ASSUME NEW st \in HubState PROVE Outage(st) \in HubState /\ Clean(Outage(st))
  BY DEF Outage, NotDonor, HubState, Clean

LEMMA PassedClean ==
    ASSUME NEW st \in HubState
    PROVE  Passed(st) \in HubState /\ (Clean(st) => Clean(Passed(st)))
  BY DEF Passed, HubState, Clean

LEMMA AnswersTyped ==
    ASSUME NEW next \in HubState, NEW reply \in Reply PROVE AccountAnswers(next, reply) \subseteq HubState
<1>1. NotDonor(next) \in HubState
  BY NotDonorClean
<1>2. [NotDonor(next) EXCEPT !.acc = FALSE] \in HubState
  BY <1>1 DEF HubState
<1>3. \A u \in {"none", "future"} : [next EXCEPT !.donor = TRUE, !.until = u] \in HubState
  BY DEF HubState
<1>4. CASE reply = "ok"
  <2>1. AccountAnswers(next, reply) =
            {NotDonor(next)} \cup {[next EXCEPT !.donor = TRUE, !.until = u] : u \in {"none", "future"}}
    BY <1>4 DEF AccountAnswers
  <2> QED BY <2>1, <1>1, <1>3
<1>5. CASE reply # "ok"
  <2>1. AccountAnswers(next, reply) \subseteq {NotDonor(next), [NotDonor(next) EXCEPT !.acc = FALSE]}
    BY <1>5 DEF AccountAnswers
  <2> QED BY <2>1, <1>1, <1>2
<1> QED BY <1>4, <1>5

LEMMA DeliveredTyped ==
    ASSUME NEW next \in HubState, NEW reply \in Reply
    PROVE  \A st \in Delivered(next, reply) : st \in HubState /\ st.donor = next.donor
  BY DEF Delivered, Hidden, Reply, HubState

\* A delivery is made to who is no donor, the hidden slot is clean for everybody.
LEMMA SlotClean ==
    ASSUME NEW next \in HubState
    PROVE  \A st \in Slot(next) : st \in HubState /\ Clean(st)
<1>1. Hidden(next) \in HubState /\ Clean(Hidden(next))
  BY DEF Hidden, HubState, Clean
<1>2. CASE ~next.ads \/ next.donor
  BY <1>1, <1>2 DEF Slot
<1>3. CASE ~(~next.ads \/ next.donor)
  <2> SUFFICES ASSUME NEW st \in Slot(next), st # Hidden(next) PROVE st \in HubState /\ Clean(st)
    BY <1>1
  <2>1. PICK reply \in Reply : st \in Delivered(next, reply)
    BY <1>3 DEF Slot
  <2>2. st \in HubState /\ st.donor = next.donor
    BY <2>1, DeliveredTyped
  <2> QED BY <1>3, <2>2 DEF Clean
<1> QED BY <1>2, <1>3

---------------------------------------------------------------------------
(* Steps.                                                                  *)

\* The loop moves with a candidate, the state stays.
LEMMA LoopGoes ==
    ASSUME HubInv, NEW pc, NEW next \in HubState, Goes(pc, next), UNCHANGED hub,
           pc \in {"settings", "account", "promotions", "commit", "emit", "notice", "top"},
           pc = "commit" => Clean(next)
    PROVE  HubInv'
  BY DEF HubInv, Goes

LEMMA TickStep == ASSUME HubInv, Tick PROVE HubInv'
<1>1. hub' = Passed(hub) /\ hub' \in HubState /\ Clean(hub')
  BY PassedClean DEF HubInv, Tick
<1>2. Passed(loop.next) \in HubState /\ (Clean(loop.next) => Clean(Passed(loop.next)))
  BY PassedClean DEF HubInv
<1>3. /\ loop' = [loop EXCEPT !.next = Passed(loop.next),
                              !.timer = IF @ = "armed" THEN "fired" ELSE @]
  BY DEF Tick
<1> QED BY <1>1, <1>2, <1>3 DEF HubInv

LEMMA SettingsStep == ASSUME HubInv, SettingsAndLinks PROVE HubInv'
<1>1. loop.next \in HubState
  BY DEF HubInv
<1>2. CASE Goes("commit", NotDonor([loop.next EXCEPT !.acc = FALSE, !.ads = FALSE, !.live = FALSE,
                                                     !.promotions = FALSE]))
  <2> DEFINE bare == [loop.next EXCEPT !.acc = FALSE, !.ads = FALSE, !.live = FALSE, !.promotions = FALSE]
  <2>1. bare \in HubState
    BY <1>1 DEF HubState
  <2>2. NotDonor(bare) \in HubState /\ Clean(NotDonor(bare))
    BY <2>1, NotDonorClean
  <2> QED BY <1>2, <2>2, LoopGoes DEF SettingsAndLinks
<1>3. ASSUME NEW acc \in BOOLEAN, NEW ads \in BOOLEAN, NEW links \in BOOLEAN,
             Goes("account", [loop.next EXCEPT !.acc = acc, !.ads = ads, !.links = links])
      PROVE  HubInv'
  <2>1. [loop.next EXCEPT !.acc = acc, !.ads = ads, !.links = links] \in HubState
    BY <1>1 DEF HubState
  <2> QED BY <1>3, <2>1, LoopGoes DEF SettingsAndLinks
<1> QED BY <1>2, <1>3 DEF SettingsAndLinks

LEMMA AccountStep == ASSUME HubInv, Account PROVE HubInv'
<1>1. loop.next \in HubState /\ NotDonor(loop.next) \in HubState
  BY NotDonorClean DEF HubInv
<1>2. PICK reply \in Reply :
          \E next \in IF loop.next.acc THEN AccountAnswers(loop.next, reply) ELSE {NotDonor(loop.next)} :
             Goes("promotions", next)
  BY DEF Account
<1>3. PICK next \in HubState : Goes("promotions", next)
  BY <1>1, <1>2, AnswersTyped
<1> QED BY <1>3, LoopGoes DEF Account

LEMMA PromoteStep == ASSUME HubInv, Promote PROVE HubInv'
<1>1. PICK next \in Slot(loop.next) : Goes("commit", next)
  BY DEF Promote
<1>2. next \in HubState /\ Clean(next)
  BY SlotClean DEF HubInv
<1> QED BY <1>1, <1>2, LoopGoes DEF Promote

LEMMA CommitStep == ASSUME HubInv, Commit PROVE HubInv'
<1>1. hub' \in HubState /\ Clean(hub')
  BY DEF HubInv, Commit
<1>2. PICK pc \in {"emit", "notice", "top"} : Goes(pc, Fresh)
  BY DEF Commit, AfterCycle
<1>3. loop' = [loop EXCEPT !.pc = pc, !.next = Fresh]
  BY <1>2 DEF Goes
<1> QED BY <1>1, <1>3, FreshClean DEF HubInv

LEMMA EmitStep == ASSUME HubInv, Emit PROVE HubInv'
<1>1. AfterCycle \in {"notice", "top"}
  BY DEF AfterCycle
<1> QED BY <1>1, FreshClean, LoopGoes DEF Emit

\* The loop between its cycles, and its end.
LEMMA RunStep ==
    ASSUME HubInv, Begin \/ CycleNotice \/ Arm \/ Hourly \/ Poll \/ Stop
    PROVE  HubInv'
<1>1. CASE Begin
  BY <1>1, LoopGoes DEF Begin, HubInv
<1>2. CASE CycleNotice
  BY <1>2 DEF CycleNotice, HubInv
<1>3. CASE Arm
  BY <1>3 DEF Arm, HubInv
<1>4. CASE Hourly
  BY <1>4 DEF Hourly, HubInv
<1>5. CASE Poll
  BY <1>5 DEF Poll, HubInv
<1>6. CASE Stop
  BY <1>6, FreshClean DEF Stop, HubInv
<1> QED BY <1>1, <1>2, <1>3, <1>4, <1>5, <1>6

LEMMA ExpireStep == ASSUME HubInv, ExpireDonor PROVE HubInv'
<1>1. NotDonor(hub) \in HubState /\ Clean(NotDonor(hub))
  BY NotDonorClean DEF HubInv
<1>2. hub' \in HubState /\ Clean(hub')
  BY <1>1 DEF HubInv, ExpireDonor
<1>3. PICK pc \in {"emit", "top"} : loop' = [loop EXCEPT !.pc = pc, !.timer = "off"]
  BY DEF ExpireDonor
<1> QED BY <1>2, <1>3 DEF HubInv

\* Handlers change the state under a running cycle, at worst to an outage.
LEMMA HandlerStep ==
    ASSUME HubInv, NEW o \in Op, CallAccount(o) \/ Observe(o) \/ EmitOutcome(o)
    PROVE  HubInv'
<1>1. Outage(hub) \in HubState /\ Clean(Outage(hub))
  BY OutageClean DEF HubInv
<1>2. hub' \in {hub, Outage(hub)} /\ UNCHANGED loop
  BY DEF CallAccount, Observe, EmitOutcome
<1> QED BY <1>1, <1>2 DEF HubInv

---------------------------------------------------------------------------
LEMMA HubInitially == PortalInit => HubInv
  BY FreshClean DEF PortalInit, HubInv

LEMMA HubKept == ASSUME HubInv, [PortalNext]_portalVars PROVE HubInv'
<1>1. CASE UNCHANGED portalVars \/ SetKey
  BY <1>1 DEF HubInv, portalVars, SetKey
<1>2. CASE Tick
  BY <1>2, TickStep
<1>3. CASE Cycle
  BY <1>3, RunStep, SettingsStep, AccountStep, PromoteStep, CommitStep, EmitStep DEF Cycle
<1>4. CASE Hourly \/ Poll \/ Stop
  BY <1>4, RunStep
<1>5. CASE ExpireDonor
  BY <1>5, ExpireStep
<1>6. ASSUME NEW o \in Op, CallAccount(o) \/ Observe(o) \/ EmitOutcome(o) PROVE HubInv'
  BY <1>6, HandlerStep
<1> QED BY <1>1, <1>2, <1>3, <1>4, <1>5, <1>6 DEF PortalNext

\* A donor hides the promotions, whatever handlers do to the account surface while
\* a cycle of Run builds its candidate aside.
THEOREM NoAdsForDonors == PortalSpec => []DonorSeesNoAds
<1>1. HubInv => DonorSeesNoAds
  BY DEF HubInv, Clean, DonorSeesNoAds
<1>2. HubInv /\ [PortalNext]_portalVars => HubInv'
  BY HubKept
<1> QED BY HubInitially, <1>1, <1>2, PTL DEF PortalSpec
---------------------------------------------------------------------------
(* Events: whoever changes the snapshot is about to read it for one.       *)

Emitting == loop.pc = "emit" \/ \E o \in Op : ops[o] = "emit"

EventInv ==
    /\ HubInv /\ ops \in [Op -> {"idle", "calling", "emit"}]
    /\ Emitting \/ heard = Snapshot(hub)

\* A step that lets everyone who is about to emit do so.
LEMMA EventsStay ==
    ASSUME EventInv, UNCHANGED <<heard, ops>>, Snapshot(hub') = Snapshot(hub) \/ loop'.pc = "emit",
           loop.pc = "emit" => loop'.pc = "emit"
    PROVE  Emitting' \/ heard' = Snapshot(hub')
  BY DEF EventInv, Emitting

\* Of the steps of the loop, the commit of a cycle and the expiry change the snapshot.
LEMMA LoopEvents ==
    ASSUME EventInv, Tick \/ SetKey \/ Cycle \/ Hourly \/ Poll \/ ExpireDonor \/ Stop
    PROVE  UNCHANGED ops /\ (Emitting' \/ heard' = Snapshot(hub'))
<1>1. CASE Tick
  <2>1. Snapshot(hub') = Snapshot(hub)
    BY <1>1 DEF Tick, Passed, Snapshot, EventInv, HubInv, HubState
  <2>2. loop'.pc = loop.pc
    BY <1>1 DEF Tick, EventInv, HubInv
  <2> QED BY <1>1, <2>1, <2>2, EventsStay DEF Tick
<1>2. CASE Emit
  BY <1>2 DEF Emit
<1>3. CASE Commit
  <2>1. ~SnapshotChanged(hub, loop.next) => Snapshot(hub') = Snapshot(hub)
    BY <1>3 DEF Commit, SnapshotChanged, Snapshot
  <2>2. loop.pc = "commit" /\ (SnapshotChanged(hub, loop.next) => loop'.pc = "emit")
    BY <1>3 DEF Commit, Goes, EventInv, HubInv
  <2> QED BY <1>3, <2>1, <2>2, EventsStay DEF Commit
<1>4. CASE ExpireDonor
  <2>1. loop.pc = "select" /\ (hub' # hub => loop'.pc = "emit")
    BY <1>4 DEF ExpireDonor, EventInv, HubInv
  <2> QED BY <1>4, <2>1, EventsStay DEF ExpireDonor
<1>5. CASE SetKey
  BY <1>5, EventsStay DEF SetKey
<1>6. CASE Begin \/ SettingsAndLinks \/ Account \/ Promote \/ CycleNotice \/ Arm \/ Hourly \/ Poll \/ Stop
  <2>1. UNCHANGED <<heard, ops, hub>> /\ loop.pc # "emit"
    BY <1>6 DEF Begin, SettingsAndLinks, Account, Promote, CycleNotice, Arm, Hourly, Poll, Stop
  <2> QED BY <2>1, EventsStay
<1>7. Emit \/ Commit \/ ExpireDonor => UNCHANGED ops
  BY DEF Emit, Commit, ExpireDonor
<1>8. Tick \/ SetKey \/ Begin \/ SettingsAndLinks \/ Account \/ Promote \/ CycleNotice \/ Arm \/ Hourly \/ Poll \/ Stop
        => UNCHANGED ops
  BY DEF Tick, SetKey, Begin, SettingsAndLinks, Account, Promote, CycleNotice, Arm, Hourly, Poll, Stop
<1> QED BY <1>1, <1>2, <1>3, <1>4, <1>5, <1>6, <1>7, <1>8 DEF Cycle

\* An outage that hides nothing is the one that changes nothing.
LEMMA OperationEvents ==
    ASSUME EventInv, NEW o \in Op, CallAccount(o) \/ Observe(o) \/ EmitOutcome(o)
    PROVE  ops' \in [Op -> {"idle", "calling", "emit"}] /\ (Emitting' \/ heard' = Snapshot(hub'))
<1>1. CASE CallAccount(o)
  BY <1>1 DEF CallAccount, EventInv, Emitting
<1>2. CASE EmitOutcome(o)
  BY <1>2 DEF EmitOutcome, EventInv
<1>3. CASE Observe(o)
  <2>1. PICK reply \in Reply :
            LET hides == reply = "unavailable" IN
            /\ hub' = IF hides THEN Outage(hub) ELSE hub
            /\ ops' = [ops EXCEPT ![o] = IF hides /\ (hub.acc \/ hub.donor) THEN "emit" ELSE "idle"]
    BY <1>3 DEF Observe
  <2>2. ops[o] = "calling" /\ UNCHANGED <<loop, heard>>
    BY <1>3 DEF Observe
  <2>3. ops' \in [Op -> {"idle", "calling", "emit"}]
    BY <2>1 DEF EventInv
  <2>4. CASE reply = "unavailable" /\ (hub.acc \/ hub.donor)
    <3>1. ops'[o] = "emit"
      BY <2>1, <2>4 DEF EventInv
    <3> QED BY <2>3, <3>1 DEF Emitting
  <2>5. CASE ~(reply = "unavailable" /\ (hub.acc \/ hub.donor))
    <3>1. ~hub.acc /\ ~hub.donor => Snapshot(Outage(hub)) = Snapshot(hub)
      BY DEF Outage, NotDonor, Snapshot, EventInv, HubInv, HubState
    <3>2. Snapshot(hub') = Snapshot(hub)
      BY <2>1, <2>5, <3>1
    <3>3. \A q \in Op : ops[q] = "emit" => ops'[q] = "emit"
      BY <2>1, <2>2 DEF EventInv
    <3> QED BY <2>2, <2>3, <3>2, <3>3 DEF EventInv, Emitting
  <2> QED BY <2>4, <2>5
<1> QED BY <1>1, <1>2, <1>3

LEMMA InitEvents == PortalInit => EventInv
  BY HubInitially DEF PortalInit, EventInv

LEMMA NextEvents == ASSUME EventInv, [PortalNext]_portalVars PROVE EventInv'
<1>1. HubInv'
  BY HubKept DEF EventInv
<1>2. CASE UNCHANGED portalVars
  BY <1>1, <1>2 DEF EventInv, Emitting, portalVars
<1>3. CASE Tick \/ SetKey \/ Cycle \/ Hourly \/ Poll \/ ExpireDonor \/ Stop
  BY <1>1, <1>3, LoopEvents DEF EventInv
<1>4. ASSUME NEW o \in Op, CallAccount(o) \/ Observe(o) \/ EmitOutcome(o) PROVE EventInv'
  BY <1>1, <1>4, OperationEvents DEF EventInv
<1> QED BY <1>2, <1>3, <1>4 DEF PortalNext

\* A change of the snapshot by a cycle, by the expiry or by an account operation
\* that met an outage is published by the portal.state event emit makes after it.
THEOREM ChangesPublished == PortalSpec => []NoSilentChange
<1>1. EventInv => NoSilentChange
  BY DEF EventInv, Emitting, NoSilentChange
<1>2. EventInv /\ [PortalNext]_portalVars => EventInv'
  BY NextEvents
<1> QED BY InitEvents, <1>1, <1>2, PTL DEF PortalSpec
---------------------------------------------------------------------------
(* The rest of the state keeps its type.                                   *)

PortalInv == EventInv /\ key \in BOOLEAN /\ ticks \in 0..MaxTicks

LEMMA PortalInitially == PortalInit => PortalInv
<1>1. PortalInit => key \in BOOLEAN /\ ticks = 0
  BY DEF PortalInit
<1>2. 0 \in 0..MaxTicks
  BY TicksAssumption
<1> QED BY <1>1, <1>2, InitEvents DEF PortalInv

\* Only the passing of time counts, up to its bound.
LEMMA Counts == ASSUME PortalInv, [PortalNext]_portalVars PROVE key' \in BOOLEAN /\ ticks' \in 0..MaxTicks
<1>1. CASE Tick
  <2>1. ticks \in Nat /\ ticks < MaxTicks /\ ticks' = ticks + 1 /\ key' = key
    BY <1>1, TicksAssumption DEF Tick, PortalInv
  <2> QED BY <2>1, TicksAssumption DEF PortalInv
<1>2. ASSUME NEW o \in Op, CallAccount(o) \/ Observe(o) \/ EmitOutcome(o) PROVE UNCHANGED <<key, ticks>>
  BY <1>2 DEF CallAccount, Observe, EmitOutcome
<1>3. ASSUME SetKey \/ Begin \/ Poll PROVE key' \in BOOLEAN /\ UNCHANGED ticks
  BY <1>3 DEF SetKey, Begin, Poll, PortalInv
<1>4. ASSUME SettingsAndLinks \/ Account \/ Promote \/ Commit \/ Emit \/ CycleNotice \/ Arm \/ Hourly \/ ExpireDonor \/ Stop
      PROVE  UNCHANGED <<key, ticks>>
  BY <1>4 DEF SettingsAndLinks, Account, Promote, Commit, Emit, CycleNotice, Arm, Hourly, ExpireDonor, Stop
<1>5. CASE UNCHANGED portalVars
  BY <1>5 DEF portalVars, PortalInv
<1> QED BY <1>1, <1>2, <1>3, <1>4, <1>5 DEF PortalNext, Cycle, PortalInv

LEMMA PortalKept == ASSUME PortalInv, [PortalNext]_portalVars PROVE PortalInv'
<1>1. EventInv'
  BY NextEvents DEF PortalInv
<1> QED BY <1>1, Counts DEF PortalInv

LEMMA PortalTypes == PortalInv => PortalTypeOK
  BY DEF PortalInv, EventInv, HubInv, PortalTypeOK
=============================================================================
