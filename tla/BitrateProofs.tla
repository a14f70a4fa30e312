--------------------------- MODULE BitrateProofs ---------------------------
(***************************************************************************)
(* The bitrate controller keeps its floor, the order of its ceilings and    *)
(* its protection against stale increases for every unit, every set of      *)
(* ceilings and any number of hook tasks and pollers.                       *)
(***************************************************************************)
EXTENDS Bitrate, TLAPS

\* What configure has written, stage by stage.
ConfInv ==
    \A h \in Hooks :
        /\ conf[h].pc # "idle" =>
              conf[h].ceiling >= Mega /\ min = Mega /\ max >= Mega
        /\ conf[h].pc \in {"lock", "done"} => target >= Mega

\* What a poll read before the lock.
PollInv ==
    \A p \in Pollers : poll[p].pc = "want" =>
        /\ Configured /\ poll[p].cur >= Mega
        /\ p \in overtaken => loss = "recent" \/ recRecent

\* What the holder of the lock relies on.
HeldInv ==
    /\ held.op # "none" => Configured
    /\ held.op = "loss" => loss = "recent"
    /\ held.op = "poll" => held.next >= Mega

\* The inductive invariant.
IInv == TypeOK /\ ConfInv /\ PollInv /\ HeldInv /\ CeilingsOrdered /\ NoStaleRaise

-----------------------------------------------------------------------------

\* Taking a percentage as the code does (multiply, truncate) stays a natural
\* number, shrinks for a factor up to 100 and does not shrink for 102 and 120.
LEMMA PercentFacts ==
    ASSUME NEW n \in Nat
    PROVE  /\ \A q \in {3, 10, 50, 60, 70, 75, 85, 102, 120} : Percent(n, q) \in Nat
           /\ \A q \in {3, 10, 50, 60, 70, 75, 85} : Percent(n, q) <= n
           /\ Percent(n, 102) >= n /\ Percent(n, 120) >= n
  BY DEF Percent

\* The start value of configure lies between the floor and the ceiling, and the
\* floor is the absolute one.
LEMMA StartFacts ==
    ASSUME NEW c \in Rates, c >= Mega
    PROVE  /\ Floor(c) = Mega
           /\ Start(c) \in Rates /\ Start(c) >= Mega
  BY BitrateAssumption DEF Start, Floor, Smaller, Larger, Rates

\* The controller before the first configure.
LEMMA InitIInv == Init => IInv
  <1> SUFFICES ASSUME Init PROVE IInv
    OBVIOUS
  <1>1. TypeOK
    <2>1. RatesType BY BitrateAssumption DEF Init, RatesType, Rates
    <2>2. TimingType BY Zenon DEF Init, TimingType
    <2>3. HeldType BY DEF Init, HeldType
    <2>4. CallsType BY DEF Init, CallsType
    <2>5. CountType
      BY BitrateAssumption DEF Init, CountType, RTT_TRIGGER_SAMPLES
    <2> QED BY <2>1, <2>2, <2>3, <2>4, <2>5 DEF TypeOK
  <1>2. ConfInv /\ PollInv /\ HeldInv
    BY DEF Init, ConfInv, PollInv, HeldInv, NotHeld, NoPoll, NoConf
  <1>3. ~Configured
    BY DEF Init, Configured, NoConf
  <1>4. CeilingsOrdered /\ NoStaleRaise
    BY <1>3 DEF Init, CeilingsOrdered, NoStaleRaise, NotHeld
  <1> QED BY <1>1, <1>2, <1>4 DEF IInv

\* A configured controller stays configured, and has its floor and target.
LEMMA ConfiguredFacts ==
    ASSUME IInv, Configured
    PROVE  min = Mega /\ max >= Mega /\ target >= Mega
  BY DEF IInv, ConfInv, Configured


-----------------------------------------------------------------------------
(* One lemma per operation.  What an operation leaves alone keeps its part of *)
(* the invariant.                                                            *)

\* configure, unlocked stores of the bounds.
LEMMA ConfBoundsIInv ==
    ASSUME IInv, NEW h \in Hooks, NEW bps \in Ceilings, ConfBounds(h, bps)
    PROVE  IInv'
  <1> DEFINE ceiling == Larger(bps, Mega)
  <1>1. ceiling \in Rates /\ ceiling >= Mega
    BY BitrateAssumption DEF Larger, Rates
  <1>2. Floor(ceiling) = Mega
    BY <1>1, StartFacts
  <1>3. /\ max' = ceiling /\ min' = Mega
        /\ conf' = [conf EXCEPT ![h] = [pc |-> "target", ceiling |-> ceiling]]
    BY <1>2 DEF ConfBounds
  <1> HIDE DEF ceiling
  <1>4. Configured' <=> Configured
    BY <1>3 DEF Configured, ConfBounds, NoConf, IInv, TypeOK, CallsType
  <1>5. TypeOK'
    <2>1. RatesType' BY <1>1, <1>3, BitrateAssumption
      DEF ConfBounds, IInv, TypeOK, RatesType, Rates, caps
    <2>2. TimingType' BY Zenon
      DEF ConfBounds, IInv, TypeOK, TimingType, timing, lossTiming, rttTiming
    <2>3. HeldType' BY DEF ConfBounds, IInv, TypeOK, HeldType
    <2>4. CallsType' BY <1>1, <1>3 DEF ConfBounds, IInv, TypeOK, CallsType
    <2>5. CountType' BY DEF ConfBounds, IInv, TypeOK, CountType, bounds, timing, rttTiming
    <2> QED BY <2>1, <2>2, <2>3, <2>4, <2>5 DEF TypeOK
  <1>6. ConfInv'
    BY <1>1, <1>3 DEF ConfBounds, IInv, TypeOK, CallsType, ConfInv, NoConf
  <1>7. PollInv' /\ HeldInv'
    BY <1>4 DEF ConfBounds, IInv, PollInv, HeldInv, timing, lossTiming
  <1>8. CeilingsOrdered' /\ NoStaleRaise'
    BY <1>4 DEF ConfBounds, IInv, CeilingsOrdered, NoStaleRaise, caps
  <1> QED BY <1>5, <1>6, <1>7, <1>8 DEF IInv

\* configure, unlocked store of the target.
LEMMA ConfTargetIInv ==
    ASSUME IInv, NEW h \in Hooks, ConfTarget(h)
    PROVE  IInv'
  <1>1. conf[h] \in [pc : {"target"}, ceiling : Rates] /\ conf[h].ceiling >= Mega
    BY DEF ConfTarget, IInv, TypeOK, CallsType, ConfInv, NoConf
  <1>2. target' \in Rates /\ target' >= Mega
    BY <1>1, StartFacts DEF ConfTarget
  <1>3. conf' = [conf EXCEPT ![h] = [conf[h] EXCEPT !.pc = "lock"]]
    BY DEF ConfTarget
  <1>4. Configured' <=> Configured
    BY <1>1, <1>3 DEF Configured, IInv, TypeOK, CallsType
  <1>5. TypeOK'
    <2>1. RatesType' BY <1>2 DEF ConfTarget, IInv, TypeOK, RatesType, caps
    <2>2. TimingType' BY Zenon
      DEF ConfTarget, IInv, TypeOK, TimingType, timing, lossTiming, rttTiming
    <2>3. HeldType' BY DEF ConfTarget, IInv, TypeOK, HeldType
    <2>4. CallsType' BY <1>1, <1>3 DEF ConfTarget, IInv, TypeOK, CallsType
    <2>5. CountType' BY DEF ConfTarget, IInv, TypeOK, CountType, bounds, timing, rttTiming
    <2> QED BY <2>1, <2>2, <2>3, <2>4, <2>5 DEF TypeOK
  <1>6. ConfInv'
    BY <1>1, <1>2, <1>3 DEF ConfTarget, IInv, TypeOK, CallsType, ConfInv, NoConf
  <1>7. PollInv' /\ HeldInv'
    BY <1>4 DEF ConfTarget, IInv, PollInv, HeldInv, timing, lossTiming
  <1>8. CeilingsOrdered' /\ NoStaleRaise'
    BY <1>4 DEF ConfTarget, IInv, CeilingsOrdered, NoStaleRaise, caps
  <1> QED BY <1>5, <1>6, <1>7, <1>8 DEF IInv

\* configure, the part under the lock.
LEMMA ConfLockedIInv ==
    ASSUME IInv, NEW h \in Hooks, ConfLocked(h)
    PROVE  IInv'
  <1>1. conf[h] \in [pc : {"lock"}, ceiling : Rates] /\ conf[h].ceiling >= Mega
    BY DEF ConfLocked, IInv, TypeOK, CallsType, ConfInv, NoConf
  <1>2. conf' = [conf EXCEPT ![h] = [conf[h] EXCEPT !.pc = "done"]]
    BY DEF ConfLocked
  <1>3. Configured' /\ target' >= Mega
    BY <1>1, <1>2 DEF Configured, IInv, TypeOK, CallsType, ConfInv, ConfLocked, rates
  <1>4. TypeOK'
    <2>1. RatesType' BY <1>1 DEF ConfLocked, IInv, TypeOK, RatesType, rates
    <2>2. TimingType' BY Zenon DEF ConfLocked, IInv, TypeOK, TimingType
    <2>3. HeldType' BY DEF ConfLocked, IInv, TypeOK, HeldType
    <2>4. CallsType' BY <1>1, <1>2 DEF ConfLocked, IInv, TypeOK, CallsType
    <2>5. CountType' BY DEF ConfLocked, IInv, TypeOK, CountType, bounds, RTT_TRIGGER_SAMPLES
    <2> QED BY <2>1, <2>2, <2>3, <2>4, <2>5 DEF TypeOK
  <1>5. ConfInv'
    BY <1>1, <1>2 DEF ConfLocked, IInv, TypeOK, CallsType, ConfInv, NoConf, rates
  <1>6. PollInv' /\ HeldInv' /\ NoStaleRaise'
    BY <1>3 DEF ConfLocked, IInv, PollInv, HeldInv, NoStaleRaise, NotHeld
  <1>7. CeilingsOrdered'
    BY <1>1, BitrateAssumption DEF ConfLocked, CeilingsOrdered, Rates
  <1> QED BY <1>4, <1>5, <1>6, <1>7 DEF IInv

\* on_loss up to its read of the target.
LEMMA LossLockIInv ==
    ASSUME IInv, NEW class \in LossClasses, LossLock(class)
    PROVE  IInv'
  <1>1. Configured' <=> Configured
    BY DEF LossLock, Configured
  <1>2. held' = NotHeld \/ held' = [op |-> "loss", class |-> class, cur |-> target]
    BY DEF LossLock
  <1>3. Configured /\ loss' = "recent"
    BY DEF LossLock
  <1>4. TypeOK'
    <2>1. RatesType' BY DEF LossLock, IInv, TypeOK, RatesType, rates, caps
    <2>2. TimingType' BY Zenon DEF LossLock, IInv, TypeOK, TimingType, rttTiming
    <2>3. HeldType' BY <1>2 DEF IInv, TypeOK, HeldType, RatesType
    <2>4. CallsType' BY DEF LossLock, IInv, TypeOK, CallsType
    <2>5. CountType' BY BitrateAssumption DEF LossLock, IInv, TypeOK, CountType, rttTiming
    <2> QED BY <2>1, <2>2, <2>3, <2>4, <2>5 DEF TypeOK
  <1>5. ConfInv'
    BY DEF LossLock, IInv, ConfInv, rates
  <1>6. PollInv' /\ HeldInv' /\ NoStaleRaise'
    BY <1>1, <1>2, <1>3 DEF LossLock, IInv, PollInv, HeldInv, NoStaleRaise, NotHeld
  <1>7. CeilingsOrdered'
    BY <1>1 DEF LossLock, IInv, CeilingsOrdered, caps
  <1> QED BY <1>4, <1>5, <1>6, <1>7 DEF IInv

\* The ceilings after a loss: the learned one only falls and stays at the floor
\* or above, the re-probe cap stays above it.
LEMMA LossCeilings ==
    ASSUME IInv, LossStore
    PROVE  /\ learned_ceiling' \in Rates /\ probe_cap' \in Rates
           /\ Mega <= learned_ceiling' /\ learned_ceiling' <= probe_cap'
  <1>1. /\ Configured /\ held.cur \in Rates
        /\ learned_ceiling \in Rates /\ probe_cap \in Rates
        /\ Mega <= learned_ceiling /\ learned_ceiling <= probe_cap
    BY DEF LossStore, IInv, TypeOK, RatesType, HeldType, HeldInv, CeilingsOrdered, NotHeld
  <1>2. min = Mega
    BY <1>1, ConfiguredFacts
  <1>3. CASE held.class \in {"heavy", "severe"}
    <2> DEFINE lc == Smaller(Larger(Percent(held.cur, 70), min), learned_ceiling)
               pc == Smaller(Larger(Percent(held.cur, 120), lc), probe_cap)
    <2>0. held.cur \in Nat
      BY <1>1, BitrateAssumption DEF Rates
    <2>1. Percent(held.cur, 70) \in Nat /\ Percent(held.cur, 120) \in Nat
      BY <2>0, PercentFacts, Zenon
    <2>2. lc \in Rates /\ Mega <= lc /\ lc <= learned_ceiling
      BY <1>1, <1>2, <2>1, BitrateAssumption DEF Smaller, Larger, Rates
    <2> HIDE DEF lc
    <2>3. pc \in Rates /\ lc <= pc
      BY <1>1, <2>1, <2>2, BitrateAssumption DEF Smaller, Larger, Rates
    <2> HIDE DEF pc
    <2>4. learned_ceiling' = lc /\ probe_cap' = pc
      BY <1>3 DEF LossStore, lc, pc
    <2> QED BY <2>2, <2>3, <2>4
  <1>4. CASE held.class \notin {"heavy", "severe"}
    BY <1>1, <1>4 DEF LossStore, caps
  <1> QED BY <1>3, <1>4

\* on_loss from its store of the target to the unlock.
LEMMA LossStoreIInv ==
    ASSUME IInv, LossStore
    PROVE  IInv'
  <1>1. /\ Configured /\ held.cur \in Rates /\ held.class \in LossClasses
        /\ loss = "recent" /\ min = Mega
    BY ConfiguredFacts DEF LossStore, IInv, TypeOK, HeldType, HeldInv, NotHeld
  <1>2. Configured'
    BY <1>1 DEF LossStore, Configured
  <1>3. target' \in Rates /\ target' >= Mega
    <2>1. Factor(held.class) \in {50, 60, 75}
      BY <1>1 DEF Factor, LossClasses
    <2>2. held.cur \in Nat
      BY <1>1, BitrateAssumption DEF Rates
    <2>3. /\ Percent(held.cur, Factor(held.class)) \in Nat
          /\ Percent(held.cur, Factor(held.class)) <= held.cur
      BY <2>1, <2>2, PercentFacts, Zenon
    <2> QED BY <1>1, <2>3, BitrateAssumption DEF LossStore, Larger, Rates
  <1>4. TypeOK'
    <2>1. RatesType' BY <1>3, LossCeilings DEF LossStore, IInv, TypeOK, RatesType
    <2>2. TimingType' BY Zenon DEF LossStore, IInv, TypeOK, TimingType, rttTiming
    <2>3. HeldType' BY DEF LossStore, HeldType
    <2>4. CallsType' BY DEF LossStore, IInv, TypeOK, CallsType, Overtake
    <2>5. CountType' BY DEF LossStore, IInv, TypeOK, CountType, rttTiming, bounds
    <2> QED BY <2>1, <2>2, <2>3, <2>4, <2>5 DEF TypeOK
  <1>5. ConfInv'
    BY <1>3 DEF LossStore, IInv, ConfInv
  <1>6. PollInv' /\ HeldInv' /\ NoStaleRaise'
    BY <1>1, <1>2 DEF LossStore, IInv, PollInv, HeldInv, NoStaleRaise, NotHeld, Overtake
  <1>7. CeilingsOrdered'
    BY LossCeilings DEF CeilingsOrdered
  <1> QED BY <1>4, <1>5, <1>6, <1>7 DEF IInv

\* on_rtt up to its read of the target.
LEMMA RttLockIInv ==
    ASSUME IInv, NEW inflated \in BOOLEAN, RttLock(inflated)
    PROVE  IInv'
  <1>1. Configured' <=> Configured
    BY DEF RttLock, Configured
  <1>2. held' = NotHeld \/ held' = [op |-> "rtt", cur |-> target]
    BY DEF RttLock
  <1>3. Configured /\ UNCHANGED <<loss, recRecent>>
    BY DEF RttLock, lossTiming
  <1>4. TypeOK'
    <2>1. RatesType' BY DEF RttLock, IInv, TypeOK, RatesType, rates, caps
    <2>2. TimingType'
      <3>1. rtt' \in {"none", "normal", "inflated"} BY DEF RttLock
      <3> QED BY <3>1, Zenon DEF RttLock, IInv, TypeOK, TimingType, lossTiming
    <2>3. HeldType' BY <1>2 DEF IInv, TypeOK, HeldType, RatesType
    <2>4. CallsType' BY DEF RttLock, IInv, TypeOK, CallsType
    <2>5. CountType' BY BitrateAssumption
      DEF RttLock, IInv, TypeOK, CountType, RTT_TRIGGER_SAMPLES, Smaller
    <2> QED BY <2>1, <2>2, <2>3, <2>4, <2>5 DEF TypeOK
  <1>5. ConfInv'
    BY DEF RttLock, IInv, ConfInv, rates
  <1>6. PollInv' /\ HeldInv' /\ NoStaleRaise'
    BY <1>1, <1>2, <1>3 DEF RttLock, IInv, PollInv, HeldInv, NoStaleRaise, NotHeld
  <1>7. CeilingsOrdered'
    BY <1>1 DEF RttLock, IInv, CeilingsOrdered, caps
  <1> QED BY <1>4, <1>5, <1>6, <1>7 DEF IInv

\* on_rtt from its store of the target to the unlock.
LEMMA RttStoreIInv ==
    ASSUME IInv, RttStore
    PROVE  IInv'
  <1>1. Configured /\ held.cur \in Rates /\ min = Mega
    BY ConfiguredFacts DEF RttStore, IInv, TypeOK, HeldType, HeldInv, NotHeld
  <1>2. Configured'
    BY <1>1 DEF RttStore, Configured
  <1>3. target' \in Rates /\ target' >= Mega
    <2>1. held.cur \in Nat
      BY <1>1, BitrateAssumption DEF Rates
    <2>2. Percent(held.cur, 85) \in Nat /\ Percent(held.cur, 85) <= held.cur
      BY <2>1, PercentFacts, Zenon
    <2> QED BY <1>1, <2>2, BitrateAssumption DEF RttStore, Larger, Rates
  <1>4. TypeOK'
    <2>1. RatesType' BY <1>3 DEF RttStore, IInv, TypeOK, RatesType, caps
    <2>2. TimingType' BY Zenon DEF RttStore, IInv, TypeOK, TimingType, lossTiming
    <2>3. HeldType' BY DEF RttStore, HeldType
    <2>4. CallsType' BY DEF RttStore, IInv, TypeOK, CallsType
    <2>5. CountType' BY DEF RttStore, IInv, TypeOK, CountType, bounds
    <2> QED BY <2>1, <2>2, <2>3, <2>4, <2>5 DEF TypeOK
  <1>5. ConfInv'
    BY <1>3 DEF RttStore, IInv, ConfInv
  <1>6. PollInv' /\ HeldInv' /\ NoStaleRaise'
    BY <1>1, <1>2 DEF RttStore, IInv, PollInv, HeldInv, NoStaleRaise, NotHeld, lossTiming
  <1>7. CeilingsOrdered'
    BY <1>1 DEF RttStore, IInv, CeilingsOrdered, caps
  <1> QED BY <1>4, <1>5, <1>6, <1>7 DEF IInv

\* poll_target, the reads before the lock.
LEMMA PollReadIInv ==
    ASSUME IInv, NEW p \in Pollers, PollRead(p)
    PROVE  IInv'
  <1>1. Configured /\ target >= Mega
    BY ConfiguredFacts DEF PollRead
  <1>2. Configured'
    BY <1>1 DEF PollRead, Configured
  <1>3. /\ poll' = [poll EXCEPT ![p] = [pc |-> "want", max |-> max, cur |-> target]]
        /\ overtaken' = overtaken \ {p}
        /\ UNCHANGED <<rates, caps, timing, held, conf, bounds>>
    BY DEF PollRead
  <1>4. TypeOK'
    <2>1. RatesType' BY <1>3 DEF IInv, TypeOK, RatesType, rates, caps
    <2>2. TimingType' BY <1>3, Zenon
      DEF IInv, TypeOK, TimingType, timing, lossTiming, rttTiming
    <2>3. HeldType' BY <1>3 DEF IInv, TypeOK, HeldType
    <2>4. CallsType' BY <1>3 DEF IInv, TypeOK, CallsType, RatesType
    <2>5. CountType' BY <1>3 DEF IInv, TypeOK, CountType, bounds, timing, rttTiming
    <2> QED BY <2>1, <2>2, <2>3, <2>4, <2>5 DEF TypeOK
  <1>5. ConfInv'
    BY <1>3 DEF IInv, ConfInv, rates
  <1>6. PollInv'
    BY <1>1, <1>2, <1>3 DEF IInv, PollInv, TypeOK, CallsType, timing, lossTiming
  <1>7. HeldInv' /\ NoStaleRaise' /\ CeilingsOrdered'
    BY <1>1, <1>2, <1>3
    DEF IInv, HeldInv, NoStaleRaise, CeilingsOrdered, timing, lossTiming, caps
  <1> QED BY <1>4, <1>5, <1>6, <1>7 DEF IInv

\* The re-probe raises the learned ceiling at most to the cap.
LEMMA ReprobedFacts ==
    ASSUME IInv, Configured
    PROVE  Reprobed \in Rates /\ Mega <= Reprobed /\ Reprobed <= probe_cap
  <1>1. /\ learned_ceiling \in Rates /\ probe_cap \in Rates
        /\ Mega <= learned_ceiling /\ learned_ceiling <= probe_cap
        /\ learned_ceiling \in Nat
    BY BitrateAssumption DEF IInv, TypeOK, RatesType, CeilingsOrdered, Rates
  <1>2. Percent(learned_ceiling, 102) \in Nat /\ Percent(learned_ceiling, 102) >= learned_ceiling
    BY <1>1, PercentFacts, Zenon
  <1> QED BY <1>1, <1>2, BitrateAssumption DEF Reprobed, Smaller, Rates

\* poll_target from the lock to its decision: whoever is overtaken returns.
LEMMA PollLockIInv ==
    ASSUME IInv, NEW p \in Pollers, PollLock(p)
    PROVE  IInv'
  <1> DEFINE cur == poll[p].cur
             cap == Smaller(Reprobed, poll[p].max)
             next == Smaller(cur + Step(poll[p].max, cur), cap)
  <1>1. /\ Configured /\ poll[p].max \in Rates /\ cur \in Rates /\ cur >= Mega
        /\ p \in overtaken => loss = "recent" \/ recRecent
    BY DEF PollLock, IInv, PollInv, TypeOK, CallsType, NoPoll
  <1>2. Configured'
    BY <1>1 DEF PollLock, Configured
  <1>3. Reprobed \in Rates /\ Mega <= Reprobed /\ Reprobed <= probe_cap
    BY <1>1, ReprobedFacts
  <1>4. cap \in Rates
    BY <1>1, <1>3, BitrateAssumption DEF Smaller, Rates
  <1>5. Step(poll[p].max, cur) \in Nat
    <2>1. cur \in Nat /\ poll[p].max \in Nat
      BY <1>1, BitrateAssumption DEF Rates
    <2>2. Percent(poll[p].max, 3) \in Nat /\ Percent(cur, 10) \in Nat
      BY <2>1, PercentFacts, Zenon
    <2>3. Mega \div 4 \in Nat
      BY BitrateAssumption
    <2> HIDE DEF cur
    <2> QED BY <2>2, <2>3 DEF Step, Larger
  <1>6. cur < cap => next \in Rates /\ next >= Mega
    <2> HIDE DEF cap
    <2> QED BY <1>1, <1>4, <1>5, BitrateAssumption DEF Smaller, Rates
  <1>7. /\ poll' = [poll EXCEPT ![p] = NoPoll]
        /\ held' = NotHeld \/ (/\ MayRecover /\ cur < cap
                               /\ held' = [op |-> "poll", p |-> p, next |-> next])
        /\ learned_ceiling' \in {learned_ceiling, Reprobed}
        /\ UNCHANGED <<rates, probe_cap, timing, conf, bounds, overtaken>>
    BY DEF PollLock
  <1>8. held' # NotHeld => p \notin overtaken
    BY <1>1, <1>7 DEF MayRecover
  <1> HIDE DEF next, cap, cur
  <1>9. TypeOK'
    <2>1. RatesType' BY <1>3, <1>7 DEF IInv, TypeOK, RatesType, rates
    <2>2. TimingType' BY <1>7, Zenon
      DEF IInv, TypeOK, TimingType, timing, lossTiming, rttTiming
    <2>3. HeldType' BY <1>6, <1>7 DEF HeldType
    <2>4. CallsType' BY <1>7 DEF IInv, TypeOK, CallsType
    <2>5. CountType' BY <1>7 DEF IInv, TypeOK, CountType, bounds, timing, rttTiming
    <2> QED BY <2>1, <2>2, <2>3, <2>4, <2>5 DEF TypeOK
  <1>10. ConfInv'
    BY <1>7 DEF IInv, ConfInv, rates
  <1>11. PollInv'
    BY <1>2, <1>7 DEF IInv, PollInv, TypeOK, CallsType, NoPoll, timing, lossTiming
  <1>12. HeldInv' /\ NoStaleRaise'
    BY <1>2, <1>6, <1>7, <1>8 DEF HeldInv, NoStaleRaise, NotHeld
  <1>13. CeilingsOrdered'
    BY <1>1, <1>3, <1>7 DEF IInv, CeilingsOrdered
  <1> QED BY <1>9, <1>10, <1>11, <1>12, <1>13 DEF IInv

\* poll_target from its store of the target to the unlock.
LEMMA PollStoreIInv ==
    ASSUME IInv, PollStore
    PROVE  IInv'
  <1>1. Configured /\ held.next \in Rates /\ held.next >= Mega
    BY DEF PollStore, IInv, TypeOK, HeldType, HeldInv, NotHeld
  <1>2. Configured'
    BY <1>1 DEF PollStore, Configured
  <1>3. TypeOK'
    <2>1. RatesType' BY <1>1 DEF PollStore, IInv, TypeOK, RatesType, caps
    <2>2. TimingType' BY Zenon
      DEF PollStore, IInv, TypeOK, TimingType, lossTiming, rttTiming
    <2>3. HeldType' BY DEF PollStore, HeldType
    <2>4. CallsType' BY DEF PollStore, IInv, TypeOK, CallsType, Overtake
    <2>5. CountType' BY DEF PollStore, IInv, TypeOK, CountType, bounds, rttTiming
    <2> QED BY <2>1, <2>2, <2>3, <2>4, <2>5 DEF TypeOK
  <1>4. ConfInv'
    BY <1>1 DEF PollStore, IInv, ConfInv
  <1>5. PollInv' /\ HeldInv' /\ NoStaleRaise'
    BY <1>2 DEF PollStore, IInv, PollInv, HeldInv, NoStaleRaise, NotHeld
  <1>6. CeilingsOrdered'
    BY <1>1 DEF PollStore, IInv, CeilingsOrdered, caps
  <1> QED BY <1>3, <1>4, <1>5, <1>6 DEF IInv

Expire == \/ ExpireLoss \/ ExpireResidual \/ ExpireThrottle \/ ExpireRecover
          \/ ExpireRtt \/ ExpireRttThrottle

\* A timer that runs out while nobody is between clock and lock.
LEMMA ExpireIInv ==
    ASSUME IInv, Expire
    PROVE  IInv'
  <1>1. Still /\ UNCHANGED <<rates, caps, held, poll, conf, bounds, overtaken, rtt_streak>>
    BY DEF Expire, ExpireLoss, ExpireResidual, ExpireThrottle, ExpireRecover,
       ExpireRtt, ExpireRttThrottle, rttTiming
  <1>2. Configured' <=> Configured
    BY <1>1 DEF Configured
  <1>3. TypeOK'
    <2>1. RatesType' BY <1>1 DEF IInv, TypeOK, RatesType, rates, caps
    <2>2. TimingType'
      <3>1. ASSUME ExpireLoss PROVE TimingType'
        <4>1. loss' \in {"recent", "quiet", "long"} /\ residual' \in BOOLEAN
          BY <3>1 DEF ExpireLoss, IInv, TypeOK, TimingType
        <4> QED BY <3>1, <4>1, Zenon DEF ExpireLoss, IInv, TypeOK, TimingType, rttTiming
      <3>2. ASSUME ExpireResidual PROVE TimingType'
        BY <3>2, Zenon DEF ExpireResidual, IInv, TypeOK, TimingType, rttTiming
      <3>3. ASSUME ExpireThrottle PROVE TimingType'
        BY <3>3, Zenon DEF ExpireThrottle, IInv, TypeOK, TimingType, rttTiming
      <3>4. ASSUME ExpireRecover PROVE TimingType'
        BY <3>4, Zenon DEF ExpireRecover, IInv, TypeOK, TimingType, lossTiming, rttTiming
      <3>5. ASSUME ExpireRtt PROVE TimingType'
        BY <3>5, Zenon DEF ExpireRtt, IInv, TypeOK, TimingType, lossTiming
      <3>6. ASSUME ExpireRttThrottle PROVE TimingType'
        BY <3>6, Zenon DEF ExpireRttThrottle, IInv, TypeOK, TimingType, lossTiming
      <3> QED BY <3>1, <3>2, <3>3, <3>4, <3>5, <3>6 DEF Expire
    <2>3. HeldType' BY <1>1 DEF IInv, TypeOK, HeldType
    <2>4. CallsType' BY <1>1 DEF IInv, TypeOK, CallsType
    <2>5. CountType' BY <1>1 DEF IInv, TypeOK, CountType, bounds
    <2> QED BY <2>1, <2>2, <2>3, <2>4, <2>5 DEF TypeOK
  <1>4. ConfInv'
    BY <1>1 DEF IInv, ConfInv, rates
  <1>5. PollInv' /\ HeldInv' /\ NoStaleRaise'
    BY <1>1 DEF Still, NoPoll, NotHeld, PollInv, HeldInv, NoStaleRaise
  <1>6. CeilingsOrdered'
    BY <1>1, <1>2 DEF IInv, CeilingsOrdered, caps
  <1> QED BY <1>3, <1>4, <1>5, <1>6 DEF IInv

\* The invariant is inductive.
LEMMA NextIInv == IInv /\ [Next]_vars => IInv'
  <1> SUFFICES ASSUME IInv, [Next]_vars PROVE IInv'
    OBVIOUS
  <1>1. CASE Next
    <2>1. CASE \E h \in Hooks : \E bps \in Ceilings : ConfBounds(h, bps)
      BY <2>1, ConfBoundsIInv
    <2>2. CASE \E h \in Hooks : ConfTarget(h)
      BY <2>2, ConfTargetIInv
    <2>3. CASE \E h \in Hooks : ConfLocked(h)
      BY <2>3, ConfLockedIInv
    <2>4. CASE \E class \in LossClasses : LossLock(class)
      BY <2>4, LossLockIInv
    <2>5. CASE LossStore
      BY <2>5, LossStoreIInv
    <2>6. CASE \E inflated \in BOOLEAN : RttLock(inflated)
      BY <2>6, RttLockIInv
    <2>7. CASE RttStore
      BY <2>7, RttStoreIInv
    <2>8. CASE \E p \in Pollers : PollRead(p)
      BY <2>8, PollReadIInv
    <2>9. CASE \E p \in Pollers : PollLock(p)
      BY <2>9, PollLockIInv
    <2>10. CASE PollStore
      BY <2>10, PollStoreIInv
    <2>11. CASE Expire
      BY <2>11, ExpireIInv
    <2> QED BY <1>1, <2>1, <2>2, <2>3, <2>4, <2>5, <2>6, <2>7, <2>8, <2>9, <2>10,
               <2>11, Zenon DEF Next, Expire
  <1>2. CASE UNCHANGED vars
    <2>1. /\ UNCHANGED <<target, min, max, learned_ceiling, probe_cap, held, poll,
                         conf, overtaken>>
          /\ UNCHANGED <<loss, residual, decRecent, recRecent, rtt, rttDecRecent>>
          /\ UNCHANGED <<rtt_streak, losses, rtts>>
      BY <1>2 DEF vars, rates, caps, timing, lossTiming, rttTiming, bounds
    <2>2. TypeOK'
      BY <2>1, Zenon DEF IInv, TypeOK, RatesType, TimingType, HeldType, CallsType, CountType
    <2>3. Configured' <=> Configured
      BY <2>1 DEF Configured
    <2>4. ConfInv' /\ PollInv' /\ HeldInv' /\ CeilingsOrdered' /\ NoStaleRaise'
      BY <2>1, <2>3 DEF IInv, ConfInv, PollInv, HeldInv, CeilingsOrdered, NoStaleRaise
    <2> QED BY <2>2, <2>4 DEF IInv
  <1> QED BY <1>1, <1>2

-----------------------------------------------------------------------------

\* Whatever the calls of configure, on_loss, on_rtt and poll_target interleave
\* to, no rate exceeds the largest negotiated ceiling.
THEOREM TypeCorrect == Spec => []TypeOK
  <1>1. IInv => TypeOK
    BY DEF IInv
  <1> QED BY InitIInv, NextIInv, <1>1, PTL DEF Spec

\* The floor: a configured controller never asks for less than 1 Mbps.
THEOREM FloorAlwaysHeld == Spec => []FloorHeld
  <1>1. IInv => FloorHeld
    BY ConfiguredFacts DEF FloorHeld
  <1> QED BY InitIInv, NextIInv, <1>1, PTL DEF Spec

\* The learned ceiling stays between the floor and the re-probe cap.
THEOREM CeilingsStayOrdered == Spec => []CeilingsOrdered
  <1>1. IInv => CeilingsOrdered
    BY DEF IInv
  <1> QED BY InitIInv, NextIInv, <1>1, PTL DEF Spec

\* poll_target reads the target outside the lock, yet never stores an increase
\* over a loss decrease or over the other poller's increase.
THEOREM NeverStaleRaise == Spec => []NoStaleRaise
  <1>1. IInv => NoStaleRaise
    BY DEF IInv
  <1> QED BY InitIInv, NextIInv, <1>1, PTL DEF Spec

=============================================================================
