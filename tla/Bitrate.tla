------------------------------ MODULE Bitrate ------------------------------
(***************************************************************************)
(* The AIMD bitrate controller of kmc-streamhost (bitrate.rs) and the four  *)
(* actors that share it: the PLAY hook tasks call configure, the control    *)
(* task on_loss, the video sender task on_rtt and poll_target, the encode   *)
(* thread poll_target.                                                      *)
(*                                                                         *)
(* target, min and max are atomics that configure writes without the        *)
(* `timing` lock; on_loss, on_rtt and poll_target hold the lock from their  *)
(* gates to their store, but poll_target reads max, target and the clock    *)
(* before it takes it.  `held` is the lock together with what its holder    *)
(* has read under it.                                                       *)
(*                                                                         *)
(* Every comparison of an Instant with a constant is a flag that the        *)
(* operation sets and an Expire step clears.  The EWMA is reduced to        *)
(* whether it is above RECOVER_LOSS_GATE, and an RTT sample to whether it   *)
(* exceeds the running minimum by rtt_trigger_ms: the caller chooses both.  *)
(***************************************************************************)
EXTENDS Integers

CONSTANTS Mega,       \* 1_000_000 bps in units of the model
          Ceilings,   \* ceilings that a PLAY can negotiate
          MaxCeiling, \* the largest of them
          Hooks,      \* PLAY hook tasks
          Pollers,    \* the sender task and the encode thread
          Sender,     \* the poller whose task also calls on_rtt
          MaxLoss,    \* bound: loss reports
          MaxRtt      \* bound: RTT samples

ASSUME BitrateAssumption ==
    /\ Mega \in Nat \ {0}
    /\ MaxCeiling \in Nat /\ Mega <= MaxCeiling
    /\ Ceilings \subseteq 0 .. MaxCeiling
    /\ Sender \in Pollers
    /\ MaxLoss \in Nat /\ MaxRtt \in Nat

RTT_TRIGGER_SAMPLES == 3

VARIABLES
    target, min, max, learned_ceiling, probe_cap,  \* the atomics, bps
    loss,       \* since_loss: "recent" < RECOVER_DELAY <= "quiet" <
                \* REPROBE_AFTER <= "long" (None as well)
    residual,   \* the decayed EWMA is still >= RECOVER_LOSS_GATE
    decRecent,  \* last_decrease within DECREASE_THROTTLE
    recRecent,  \* last_recover within RECOVER_INTERVAL
    rtt,        \* last_rtt: "none" (or stale), "normal", "inflated"
    rtt_streak,
    rttDecRecent, \* last_rtt_decrease within RTT_DECREASE_THROTTLE
    held,       \* the timing lock and what its holder read
    poll,       \* poll_target calls: what was read before the lock
    conf,       \* configure calls
    losses, rtts, \* reports so far (bounds)
    overtaken   \* history: pollers whose `cur` another decrease by loss or
                \* another poll's increase made stale

rates == <<target, min, max>>
caps == <<learned_ceiling, probe_cap>>
lossTiming == <<loss, residual, decRecent>>
rttTiming == <<rtt, rtt_streak, rttDecRecent>>
timing == <<lossTiming, recRecent, rttTiming>>
bounds == <<losses, rtts>>
vars == <<rates, caps, timing, held, poll, conf, bounds, overtaken>>

Smaller(a, b) == IF a < b THEN a ELSE b
Larger(a, b) == IF a < b THEN b ELSE a

\* (n as f64 * percent) as u32
Percent(n, p) == (n * p) \div 100

NotHeld == [op |-> "none"]
NoPoll == [pc |-> "idle"]
NoConf == [pc |-> "idle"]

\* BitrateController::default(): nothing configured.
Init ==
    /\ target = 0 /\ min = 0 /\ max = 0
    /\ learned_ceiling = 0 /\ probe_cap = 0
    /\ loss = "long" /\ residual = FALSE /\ decRecent = TRUE
    /\ recRecent = TRUE
    /\ rtt = "none" /\ rtt_streak = 0 /\ rttDecRecent = TRUE
    /\ held = NotHeld
    /\ poll = [p \in Pollers |-> NoPoll]
    /\ conf = [h \in Hooks |-> NoConf]
    /\ losses = 0 /\ rtts = 0
    /\ overtaken = {}

-----------------------------------------------------------------------------
(* configure, each hook task once.                                          *)

Floor(ceiling) == Smaller(Mega, ceiling)

Start(ceiling) ==
    Smaller(Larger(Smaller(3 * Mega, ceiling \div 4), Floor(ceiling)), ceiling)

\* max.store and min.store (nothing polls or reports before the first
\* configure returned, and every later one stores the same min).
ConfBounds(h, bps) ==
    /\ conf[h] = NoConf
    /\ LET ceiling == Larger(bps, Mega)
       IN  /\ max' = ceiling /\ min' = Floor(ceiling)
           /\ conf' = [conf EXCEPT ![h] = [pc |-> "target", ceiling |-> ceiling]]
    /\ UNCHANGED <<target, caps, timing, held, poll, bounds, overtaken>>

ConfTarget(h) ==
    /\ conf[h].pc = "target"
    /\ target' = Start(conf[h].ceiling)
    /\ conf' = [conf EXCEPT ![h].pc = "lock"]
    /\ UNCHANGED <<min, max, caps, timing, held, poll, bounds, overtaken>>

ConfLocked(h) ==
    /\ conf[h].pc = "lock" /\ held = NotHeld
    /\ learned_ceiling' = conf[h].ceiling /\ probe_cap' = conf[h].ceiling
    /\ loss' = "long" /\ residual' = FALSE /\ decRecent' = FALSE
    /\ recRecent' = TRUE
    /\ rtt' = "none" /\ rtt_streak' = 0 /\ rttDecRecent' = FALSE
    /\ conf' = [conf EXCEPT ![h].pc = "done"]
    /\ UNCHANGED <<rates, held, poll, bounds, overtaken>>

\* Frames flow, and with them polls, loss reports and echoes that get past
\* the max == 0 test, only after a first configure returned.
Configured == \E h \in Hooks : conf[h].pc = "done"

-----------------------------------------------------------------------------
(* on_loss.                                                                 *)

\* loss_fraction: <= 0.05, < 0.10, < 0.30, >= 0.30
LossClasses == {"light", "mid", "heavy", "severe"}

Factor(class) ==
    CASE class = "severe" -> 50
      [] class = "light" -> 75
      [] OTHER -> 60

\* Under the lock: the EWMA and last_loss are updated before the throttle.
LossLock(class) ==
    /\ Configured /\ losses < MaxLoss /\ held = NotHeld
    /\ losses' = losses + 1
    /\ loss' = "recent" /\ residual' \in BOOLEAN
    /\ held' = IF decRecent THEN NotHeld
               ELSE [op |-> "loss", class |-> class, cur |-> target]
    /\ UNCHANGED <<rates, caps, decRecent, recRecent, rttTiming, poll, conf,
                   rtts, overtaken>>

\* Polls that stand between their read and the lock hold a stale target.
Overtake(who) == overtaken' = overtaken \cup {p \in who : poll[p].pc = "want"}

LossStore ==
    /\ held.op = "loss"
    /\ target' = Larger(Percent(held.cur, Factor(held.class)), min)
    /\ decRecent' = TRUE
    /\ IF held.class \in {"heavy", "severe"}
       THEN /\ learned_ceiling' =
                  Smaller(Larger(Percent(held.cur, 70), min), learned_ceiling)
            /\ probe_cap' =
                  Smaller(Larger(Percent(held.cur, 120), learned_ceiling'),
                          probe_cap)
       ELSE UNCHANGED caps
    /\ held' = NotHeld
    /\ Overtake(Pollers)
    /\ UNCHANGED <<min, max, loss, residual, recRecent, rttTiming, poll, conf,
                   bounds>>

-----------------------------------------------------------------------------
(* on_rtt, in the sender task and so never inside its poll_target.          *)

RttLock(inflated) ==
    /\ Configured /\ rtts < MaxRtt /\ held = NotHeld
    /\ poll[Sender] = NoPoll
    /\ rtts' = rtts + 1
    /\ rtt' = IF inflated THEN "inflated" ELSE "normal"
    /\ LET streak == IF inflated THEN rtt_streak + 1 ELSE 0
           slow == streak >= RTT_TRIGGER_SAMPLES /\ ~rttDecRecent
       IN  /\ rtt_streak' = IF slow THEN 0
                            ELSE Smaller(streak, RTT_TRIGGER_SAMPLES)
           /\ held' = IF slow THEN [op |-> "rtt", cur |-> target] ELSE NotHeld
    /\ UNCHANGED <<rates, caps, lossTiming, recRecent, rttDecRecent, poll, conf,
                   losses, overtaken>>

\* Mutant: the decrease by delay ignores the floor.
RttStoreNoFloor ==
    /\ held.op = "rtt"
    /\ target' = Percent(held.cur, 85)
    /\ rttDecRecent' = TRUE
    /\ held' = NotHeld
    /\ UNCHANGED <<min, max, caps, lossTiming, recRecent, rtt, rtt_streak, poll,
                   conf, bounds, overtaken>>

RttStore ==
    /\ held.op = "rtt"
    /\ target' = Larger(Percent(held.cur, 85), min)
    /\ rttDecRecent' = TRUE
    /\ held' = NotHeld
    /\ UNCHANGED <<min, max, caps, lossTiming, recRecent, rtt, rtt_streak, poll,
                   conf, bounds, overtaken>>

-----------------------------------------------------------------------------
(* poll_target.                                                             *)

PollRead(p) ==
    /\ Configured /\ poll[p] = NoPoll
    /\ ~(p = Sender /\ held.op = "rtt")
    /\ ~(held.op = "poll" /\ held.p = p)
    /\ poll' = [poll EXCEPT ![p] = [pc |-> "want", max |-> max, cur |-> target]]
    /\ overtaken' = overtaken \ {p}
    /\ UNCHANGED <<rates, caps, timing, held, conf, bounds>>

\* The early returns: recent loss, residual loss, inflated RTT, last recovery.
MayRecover == loss # "recent" /\ ~residual /\ rtt # "inflated" /\ ~recRecent

\* Mutant: re-probing ignores the cap.
ReprobedFreely ==
    IF loss = "long" THEN Percent(learned_ceiling, 102) ELSE learned_ceiling

\* learned_ceiling after the re-probe of a long quiet period.
Reprobed ==
    IF learned_ceiling < probe_cap /\ loss = "long"
    THEN Smaller(Percent(learned_ceiling, 102), probe_cap)
    ELSE learned_ceiling

Step(mx, cur) ==
    Larger(Larger(Percent(mx, 3), Percent(cur, 10)), Mega \div 4)

\* Mutant: the increase is not cut at the cap.
PollLockUncut(p) ==
    /\ poll[p].pc = "want" /\ held = NotHeld
    /\ LET cap == Smaller(Reprobed, poll[p].max)
           cur == poll[p].cur
       IN  /\ learned_ceiling' = IF MayRecover THEN Reprobed ELSE learned_ceiling
           /\ held' = IF MayRecover /\ cur < cap
                      THEN [op |-> "poll", p |-> p,
                            next |-> cur + Step(poll[p].max, cur)]
                      ELSE NotHeld
    /\ poll' = [poll EXCEPT ![p] = NoPoll]
    /\ UNCHANGED <<rates, probe_cap, timing, conf, bounds, overtaken>>

PollLock(p) ==
    /\ poll[p].pc = "want" /\ held = NotHeld
    /\ LET cap == Smaller(Reprobed, poll[p].max)
           cur == poll[p].cur
       IN  /\ learned_ceiling' = IF MayRecover THEN Reprobed ELSE learned_ceiling
           /\ held' = IF MayRecover /\ cur < cap
                      THEN [op |-> "poll", p |-> p,
                            next |-> Smaller(cur + Step(poll[p].max, cur), cap)]
                      ELSE NotHeld
    /\ poll' = [poll EXCEPT ![p] = NoPoll]
    /\ UNCHANGED <<rates, probe_cap, timing, conf, bounds, overtaken>>

\* Mutant: the increase is not stamped in last_recover.
PollStoreUnstamped ==
    /\ held.op = "poll"
    /\ target' = held.next
    /\ held' = NotHeld
    /\ Overtake(Pollers \ {held.p})
    /\ UNCHANGED <<min, max, caps, timing, poll, conf, bounds>>

PollStore ==
    /\ held.op = "poll"
    /\ target' = held.next
    /\ recRecent' = TRUE
    /\ held' = NotHeld
    /\ Overtake(Pollers \ {held.p})
    /\ UNCHANGED <<min, max, caps, lossTiming, rttTiming, poll, conf, bounds>>

-----------------------------------------------------------------------------
(* Time.  A poll judges the flags by the clock it read before the lock, and *)
(* what is recorded after that reading counts as just now: no flag expires   *)
(* between the two.                                                         *)

Still == held = NotHeld /\ \A p \in Pollers : poll[p] = NoPoll

ExpireLoss ==
    /\ Still /\ loss # "long"
    /\ loss' = IF loss = "recent" THEN "quiet" ELSE "long"
    /\ residual' = IF loss = "quiet" THEN FALSE ELSE residual
    /\ UNCHANGED <<rates, caps, decRecent, recRecent, rttTiming, held, poll, conf,
                   bounds, overtaken>>

ExpireResidual ==
    /\ Still /\ loss = "quiet" /\ residual
    /\ residual' = FALSE
    /\ UNCHANGED <<rates, caps, loss, decRecent, recRecent, rttTiming, held, poll,
                   conf, bounds, overtaken>>

ExpireThrottle ==
    /\ Still /\ decRecent
    /\ decRecent' = FALSE
    /\ UNCHANGED <<rates, caps, loss, residual, recRecent, rttTiming, held, poll,
                   conf, bounds, overtaken>>

ExpireRecover ==
    /\ Still /\ recRecent
    /\ recRecent' = FALSE
    /\ UNCHANGED <<rates, caps, lossTiming, rttTiming, held, poll, conf, bounds,
                   overtaken>>

ExpireRtt ==
    /\ Still /\ rtt # "none"
    /\ rtt' = "none"
    /\ UNCHANGED <<rates, caps, lossTiming, recRecent, rtt_streak, rttDecRecent,
                   held, poll, conf, bounds, overtaken>>

ExpireRttThrottle ==
    /\ Still /\ rttDecRecent
    /\ rttDecRecent' = FALSE
    /\ UNCHANGED <<rates, caps, lossTiming, recRecent, rtt, rtt_streak, held, poll,
                   conf, bounds, overtaken>>

Next ==
    \/ \E h \in Hooks : \/ \E bps \in Ceilings : ConfBounds(h, bps)
                        \/ ConfTarget(h) \/ ConfLocked(h)
    \/ \E class \in LossClasses : LossLock(class)
    \/ LossStore
    \/ \E inflated \in BOOLEAN : RttLock(inflated)
    \/ RttStore
    \/ \E p \in Pollers : PollRead(p) \/ PollLock(p)
    \/ PollStore
    \/ ExpireLoss \/ ExpireResidual \/ ExpireThrottle \/ ExpireRecover
    \/ ExpireRtt \/ ExpireRttThrottle

Spec == Init /\ [][Next]_vars

-----------------------------------------------------------------------------
(* Properties.                                                             *)

Rates == 0 .. MaxCeiling

RatesType ==
    /\ target \in Rates /\ min \in Rates /\ max \in Rates
    /\ learned_ceiling \in Rates /\ probe_cap \in Rates

TimingType ==
    /\ loss \in {"recent", "quiet", "long"}
    /\ residual \in BOOLEAN /\ decRecent \in BOOLEAN /\ recRecent \in BOOLEAN
    /\ rtt \in {"none", "normal", "inflated"}
    /\ rttDecRecent \in BOOLEAN

HeldType ==
    \/ held = NotHeld
    \/ held \in [op : {"loss"}, class : LossClasses, cur : Rates]
    \/ held \in [op : {"rtt"}, cur : Rates]
    \/ held \in [op : {"poll"}, p : Pollers, next : Rates]

CallsType ==
    /\ poll \in [Pollers -> {NoPoll} \cup [pc : {"want"}, max : Rates, cur : Rates]]
    /\ conf \in [Hooks -> {NoConf}
                   \cup [pc : {"target", "lock", "done"}, ceiling : Rates]]
    /\ overtaken \subseteq Pollers

CountType ==
    /\ rtt_streak \in 0 .. RTT_TRIGGER_SAMPLES
    /\ losses \in 0 .. MaxLoss /\ rtts \in 0 .. MaxRtt

\* The variables keep their shape, and no bitrate ever exceeds the largest
\* ceiling that was negotiated.
TypeOK == RatesType /\ TimingType /\ HeldType /\ CallsType /\ CountType

\* Once configured the target never falls below the floor of 1 Mbps, whatever
\* decreases by loss and by delay, stale polls and re-configurations follow one
\* another (bitrate.rs: floor_is_respected tests one order of calls only).
FloorHeld == Configured => target >= Mega

\* The learned safe ceiling stays between the floor and the re-probe cap, so
\* re-probing cannot climb beyond 1.2 times the point of the last collapse.
CeilingsOrdered ==
    Configured => Mega <= learned_ceiling /\ learned_ceiling <= probe_cap

\* A poll that read the target before a loss decrease, or before the other
\* poller's increase, never stores its own increase over it, although the read
\* is outside the lock.
NoStaleRaise == held.op = "poll" => held.p \notin overtaken

=============================================================================
