----------------------------- MODULE PmicProofs -----------------------------
(***************************************************************************)
(* What holds of the PMIC driver for every configuration, every voltage,   *)
(* any number of calls and any number of transfers that fail.              *)
(***************************************************************************)
EXTENDS Pmic, SequenceTheorems, TLAPS

-----------------------------------------------------------------------------
\* What the programs consist of: reads; writes of a voltage and of a power state, each
\* with what the driver records of it; writes of which it records nothing, to the other
\* registers; the write that ends sleep; and steps without a transfer.
Read1 == {Get(r) : r \in Regs \cup ({"PG_STATUS"} \X Rails)}
           \cup {GetNote(Reg("DEVICE_ID"), <<"identity">>)}
           \cup {GetNote(Reg("PWR_STATUS"), <<"probed">>), GetNote(Reg("PWR_STATUS"), <<"status">>)}

VoltageWrite(id, mv) == PutNote(Volt(id), VoltCode(id, mv), <<"voltage", id, mv>>)
VoltageWrites == UNION {{VoltageWrite(id, mv) : mv \in MinMv(id)..MaxMv(id)} : id \in Rails}

StateWrite(state) == PutNote(Reg("PWR_CTRL"), state, <<"state", state>>)
StateWrites == {StateWrite(state) : state \in ACTIVE..SHUTDOWN}

PlainRegs == {Conf(id) : id \in Rails}
               \cup {Reg(n) : n \in BitRegs \cup {"WDOG_RESPONSE"}}
WriteOps == {"put", "set", "clear", "toggle"}
AnyBits == Nat \cup SUBSET Nat
PlainWrites == {Step(op, reg, bits, Plain) : op \in WriteOps, reg \in PlainRegs, bits \in AnyBits}

WakeWrite == Step("clear", Reg("SLEEP_CONF"), {0}, <<"awake">>)

LocalSteps == {Inval, Record(<<"deinit">>)} \cup {Check(id) : id \in Rails}

Steps == Read1 \cup VoltageWrites \cup StateWrites \cup PlainWrites \cup {WakeWrite} \cup LocalSteps

Calls == [must : BOOLEAN, steps : Seq(Steps) \ {<<>>}]

-----------------------------------------------------------------------------
\* A program of steps makes a call, whether its failure is returned or ignored.
LEMMA MustTry ==
  ASSUME NEW steps \in Seq(Steps), steps # <<>>
  PROVE  Must(steps) \in Calls /\ Try(steps) \in Calls
BY DEF Must, Try, Calls

\* Programs of one, two and three steps.
LEMMA OneStep ==
  ASSUME NEW s \in Steps
  PROVE  <<s>> \in Seq(Steps) /\ <<s>> # <<>>
OBVIOUS

LEMMA TwoSteps ==
  ASSUME NEW s \in Steps, NEW t \in Steps
  PROVE  <<s, t>> \in Seq(Steps) /\ <<s, t>> # <<>>
OBVIOUS

LEMMA ThreeSteps ==
  ASSUME NEW s \in Steps, NEW t \in Steps, NEW u \in Steps
  PROVE  <<s, t>> \o <<u>> = <<s, t, u>> /\ <<s, t, u>> \in Seq(Steps) /\ <<s, t, u>> # <<>>
<1>1. <<s, t>> \in Seq(Steps) /\ <<u>> \in Seq(Steps) /\ <<s, t, u>> \in Seq(Steps)
  OBVIOUS
<1>2. Len(<<s, t>>) = 2 /\ Len(<<u>>) = 1 /\ Len(<<s, t, u>>) = 3
  OBVIOUS
<1>3. <<s, t>> \o <<u>> \in Seq(Steps) /\ Len(<<s, t>> \o <<u>>) = 3
  BY <1>1, <1>2, ConcatProperties
<1>4. \A i \in 1..3 : (<<s, t>> \o <<u>>)[i] = <<s, t, u>>[i]
  BY <1>1, <1>2, ConcatProperties
<1>5. <<s, t>> \o <<u>> = <<s, t, u>>
  BY <1>1, <1>2, <1>3, <1>4, SeqEqual
<1> QED BY <1>1, <1>2, <1>5

\* The registers of which the driver records nothing when it writes them.
LEMMA ConfPlain == \A id \in Rails : Conf(id) \in PlainRegs /\ Conf(id) \in Regs
BY DEF PlainRegs, Conf, Regs

LEMMA NamePlain ==
  \A n \in BitRegs \cup {"WDOG_RESPONSE"} : Reg(n) \in PlainRegs /\ Reg(n) \in Regs
BY DEF PlainRegs, Reg, Regs, Numbers

\* The four writes of such a register are steps of a program, and so is every read.
LEMMA WritesAreSteps ==
  ASSUME NEW reg \in PlainRegs, NEW bits \in AnyBits
  PROVE  Put(reg, bits) \in Steps /\ Set(reg, bits) \in Steps
         /\ Clear(reg, bits) \in Steps /\ Toggle(reg, bits) \in Steps
BY DEF Put, Set, Clear, Toggle, Steps, PlainWrites, WriteOps

LEMMA ReadsAreSteps == \A r \in Regs : Get(r) \in Steps
BY DEF Steps, Read1

\* Operation by operation: what the driver does is a program of such steps.
LEMMA SetVoltageIs ==
  ASSUME NEW id \in Rails, NEW mv \in Nat
  PROVE  SetVoltage(id, mv) \in Seq(Steps) \ {<<>>}
<1>1. Inval \in Steps
  BY DEF Steps, LocalSteps
<1>2. CASE mv \in MinMv(id)..MaxMv(id)
  <2>1. VoltageWrite(id, mv) \in Steps
    BY <1>2 DEF Steps, VoltageWrites
  <2> QED BY <1>2, <2>1, OneStep DEF SetVoltage, VoltageWrite
<1>3. CASE mv \notin MinMv(id)..MaxMv(id)
  BY <1>1, <1>3, OneStep DEF SetVoltage
<1> QED BY <1>2, <1>3

LEMMA RegulatorIs ==
  ASSUME NEW id \in Rails
  PROVE  RegulatorEnable(id) \in Seq(Steps) \ {<<>>} /\ RegulatorDisable(id) \in Seq(Steps) \ {<<>>}
<1>1. {7} \in AnyBits
  BY DEF AnyBits
<1>2. Get(Conf(id)) \in Steps /\ Set(Conf(id), {7}) \in Steps /\ Clear(Conf(id), {7}) \in Steps
  BY <1>1, ConfPlain, WritesAreSteps, ReadsAreSteps
<1> QED BY <1>2, TwoSteps DEF RegulatorEnable, RegulatorDisable

LEMMA SetPowerStateIs ==
  ASSUME NEW state \in Nat
  PROVE  SetPowerState(state) \in Seq(Steps) \ {<<>>}
<1>1. Inval \in Steps
  BY DEF Steps, LocalSteps
<1>2. CASE state \in ACTIVE..SHUTDOWN
  <2>1. StateWrite(state) \in Steps
    BY <1>2 DEF Steps, StateWrites
  <2> QED BY <1>2, <2>1, OneStep DEF SetPowerState, StateWrite
<1>3. CASE state \notin ACTIVE..SHUTDOWN
  BY <1>1, <1>3, OneStep DEF SetPowerState
<1> QED BY <1>2, <1>3

\* The calls that go to sleep and come back, step by step.
LEMMA SleepIs ==
  /\ EnterSleep = <<Get(Reg("SLEEP_CONF")), Set(Reg("SLEEP_CONF"), {0}), StateWrite(STANDBY)>>
  /\ EnterSleep \in Seq(Steps) \ {<<>>}
  /\ ExitSleep = <<Get(Reg("SLEEP_CONF")), WakeWrite>>
  /\ ExitSleep \in Seq(Steps) \ {<<>>}
<1>1. StateWrite(STANDBY) \in Steps /\ SetPowerState(STANDBY) = <<StateWrite(STANDBY)>>
  BY DEF Steps, StateWrites, SetPowerState, StateWrite, STANDBY, ACTIVE, SHUTDOWN
<1>2. "SLEEP_CONF" \in BitRegs /\ {0} \in AnyBits
  BY DEF BitRegs, AnyBits
<1>3. Get(Reg("SLEEP_CONF")) \in Steps /\ Set(Reg("SLEEP_CONF"), {0}) \in Steps
  BY <1>2, NamePlain, WritesAreSteps, ReadsAreSteps
<1>4. WakeWrite \in Steps
  BY DEF Steps
<1>5. EnterSleep = <<Get(Reg("SLEEP_CONF")), Set(Reg("SLEEP_CONF"), {0})>> \o <<StateWrite(STANDBY)>>
  BY <1>1 DEF EnterSleep
<1>6. EnterSleep = <<Get(Reg("SLEEP_CONF")), Set(Reg("SLEEP_CONF"), {0}), StateWrite(STANDBY)>>
  BY <1>1, <1>3, <1>5, ThreeSteps
<1>7. EnterSleep \in Seq(Steps) \ {<<>>}
  BY <1>1, <1>3, <1>6, ThreeSteps
<1>8. ExitSleep = <<Get(Reg("SLEEP_CONF")), WakeWrite>>
  BY DEF ExitSleep, WakeWrite
<1> QED BY <1>3, <1>4, <1>6, <1>7, <1>8, TwoSteps

LEMMA ConfigureSleepIs ==
  ASSUME NEW c \in Configs
  PROVE  ConfigureSleep(c) \in Seq(Steps) \ {<<>>}
<1>1. SleepBits(c) \in AnyBits /\ {0} \in AnyBits
  <2>1. c.ldos \subseteq Nat
    BY PmicAssumption
  <2>2. \A n \in c.ldos \cap {0, 1} : 6 + n \in Nat
    OBVIOUS
  <2>3. {6 + n : n \in c.ldos \cap {0, 1}} \subseteq Nat
    BY <2>2
  <2>4. c.bucks \cap Bucks \subseteq Nat
    BY DEF Bucks
  <2>5. (IF c.sleep THEN {0} ELSE {}) \subseteq Nat /\ (IF c.retention THEN {6} ELSE {}) \subseteq Nat
    OBVIOUS
  <2>6. SleepBits(c) \subseteq Nat
    BY <2>3, <2>4, <2>5 DEF SleepBits
  <2> QED BY <2>6 DEF AnyBits
<1>2. "SLEEP_CONF" \in BitRegs /\ "WAKE_CONF" \in BitRegs
  BY DEF BitRegs
<1>3. Put(Reg("SLEEP_CONF"), SleepBits(c)) \in Steps /\ Put(Reg("WAKE_CONF"), {0}) \in Steps
  BY <1>1, <1>2, NamePlain, WritesAreSteps
<1> QED BY <1>3, TwoSteps DEF ConfigureSleep

LEMMA EnableWakeIs ==
  ASSUME NEW pin \in Nat
  PROVE  EnableWake(pin) \in Seq(Steps) \ {<<>>}
<1>1. Inval \in Steps
  BY DEF Steps, LocalSteps
<1>2. "WAKE_CONF" \in BitRegs /\ {0, 7} \in AnyBits
  BY DEF BitRegs, AnyBits
<1>3. Put(Reg("WAKE_CONF"), {0, 7}) \in Steps
  BY <1>2, NamePlain, WritesAreSteps
<1> QED BY <1>1, <1>3, OneStep DEF EnableWake

LEMMA WatchdogIs ==
  /\ \A ms \in Nat : WatchdogEnable(ms) \in Seq(Steps) \ {<<>>}
  /\ WatchdogDisable \in Seq(Steps) \ {<<>>}
  /\ WatchdogPet \in Seq(Steps) \ {<<>>}
<1>1. \A ms \in Nat : WatchdogTime(ms) \in AnyBits
  BY DEF WatchdogTime, AnyBits
<1>2. \A ms \in Nat : Put(Reg("WDOG_RESPONSE"), WatchdogTime(ms)) \in Steps
  BY <1>1, NamePlain, WritesAreSteps
<1>3. Put(Reg("WDOG_RESPONSE"), 0) \in Steps
  BY NamePlain, WritesAreSteps DEF AnyBits
<1>4. "WDOG_CONF" \in BitRegs /\ {1} \in AnyBits
  BY DEF BitRegs, AnyBits
<1>5. Get(Reg("WDOG_CONF")) \in Steps /\ Toggle(Reg("WDOG_CONF"), {1}) \in Steps
  BY <1>4, NamePlain, WritesAreSteps, ReadsAreSteps
<1> QED BY <1>2, <1>3, <1>5, OneStep, TwoSteps DEF WatchdogEnable, WatchdogDisable, WatchdogPet

LEMMA EsmIs ==
  /\ \A mode \in Nat : EsmEnable(mode) \in Seq(Steps) \ {<<>>}
  /\ EsmDisable \in Seq(Steps) \ {<<>>}
  /\ EsmReset \in Seq(Steps) \ {<<>>}
<1>1. Inval \in Steps
  BY DEF Steps, LocalSteps
<1>2. "ESM_CONF" \in BitRegs /\ "ESM_STATUS" \in BitRegs /\ {} \in AnyBits
  BY DEF BitRegs, AnyBits
<1>3. Put(Reg("ESM_CONF"), {}) \in Steps
  BY <1>2, NamePlain, WritesAreSteps
<1>4. Get(Reg("ESM_STATUS")) \in Steps /\ Set(Reg("ESM_STATUS"), {}) \in Steps
  BY <1>2, NamePlain, WritesAreSteps, ReadsAreSteps
<1>5. ASSUME NEW mode \in Nat PROVE EsmEnable(mode) \in Seq(Steps) \ {<<>>}
  <2> DEFINE bits == (IF mode = 0 THEN {} ELSE {mode - 1}) \cup {7}
  <2>1. bits \in AnyBits
    BY DEF AnyBits
  <2>2. Put(Reg("ESM_CONF"), bits) \in Steps
    BY <1>2, <2>1, NamePlain, WritesAreSteps
  <2> QED BY <1>1, <2>2, OneStep DEF EsmEnable
<1> QED BY <1>3, <1>4, <1>5, OneStep, TwoSteps DEF EsmDisable, EsmReset

LEMMA InterruptsAre ==
  ASSUME NEW mask \in SUBSET Nat
  PROVE  /\ EnableInterrupts(mask) \in Seq(Steps) \ {<<>>}
         /\ DisableInterrupts(mask) \in Seq(Steps) \ {<<>>}
         /\ ClearInterrupts(mask) \in Seq(Steps) \ {<<>>}
         /\ GetPendingInterrupts \in Seq(Steps) \ {<<>>}
<1>1. "INT_MSK" \in BitRegs /\ "INT_STS" \in BitRegs /\ mask \in AnyBits
  BY DEF BitRegs, AnyBits
<1>2. /\ Get(Reg("INT_MSK")) \in Steps /\ Get(Reg("INT_STS")) \in Steps
      /\ Set(Reg("INT_MSK"), mask) \in Steps /\ Clear(Reg("INT_MSK"), mask) \in Steps
      /\ Put(Reg("INT_STS"), mask) \in Steps
  BY <1>1, NamePlain, WritesAreSteps, ReadsAreSteps
<1> QED BY <1>2, OneStep, TwoSteps
        DEF EnableInterrupts, DisableInterrupts, ClearInterrupts, GetPendingInterrupts

LEMMA NvmIs ==
  NvmLock(TRUE) \in Seq(Steps) \ {<<>>} /\ NvmCrcCheck \in Seq(Steps) \ {<<>>}
<1>1. "NVM_LOCK" \in BitRegs /\ "FAULT_STS" \in BitRegs /\ {7} \in AnyBits
  BY DEF BitRegs, AnyBits
<1>2. Put(Reg("NVM_LOCK"), {7}) \in Steps /\ Get(Reg("FAULT_STS")) \in Steps
  BY <1>1, NamePlain, WritesAreSteps, ReadsAreSteps
<1> QED BY <1>2, OneStep DEF NvmLock, NvmCrcCheck

LEMMA ReadingIs ==
  /\ \A id \in Rails : GetVoltage(id) \in Seq(Steps) \ {<<>>}
  /\ \A id \in Rails : GetStatus(id) \in Seq(Steps) \ {<<>>}
  /\ GetPowerState \in Seq(Steps) \ {<<>>}
  /\ Probe \in Seq(Calls)
<1>1. \A id \in Rails : Get(Volt(id)) \in Steps
  BY DEF Steps, Read1, Volt, Regs
<1>2. \A id \in Rails : Get(<<"PG_STATUS", id>>) \in Steps
  BY DEF Steps, Read1
<1>3. /\ GetNote(Reg("PWR_STATUS"), <<"status">>) \in Steps
      /\ GetNote(Reg("PWR_STATUS"), <<"probed">>) \in Steps
      /\ GetNote(Reg("DEVICE_ID"), <<"identity">>) \in Steps
  BY DEF Steps, Read1
<1>4. "INT_STS" \in BitRegs
  BY DEF BitRegs
<1>5. Get(Reg("INT_STS")) \in Steps
  BY <1>4, NamePlain, ReadsAreSteps
<1>6. /\ Must(<<GetNote(Reg("DEVICE_ID"), <<"identity">>)>>) \in Calls
      /\ Must(<<Get(Reg("INT_STS"))>>) \in Calls
      /\ Must(<<GetNote(Reg("PWR_STATUS"), <<"probed">>)>>) \in Calls
  BY <1>3, <1>5, OneStep, MustTry
<1>7. Probe \in Seq(Calls)
  BY <1>6 DEF Probe
<1> QED BY <1>1, <1>2, <1>3, <1>7, OneStep DEF GetVoltage, GetStatus, GetPowerState

\* The rails of a configuration.
LEMMA RailIs ==
  ASSUME NEW c \in Configs, NEW i \in 1..18
  PROVE  /\ (i - 1) \div 2 \in Rails /\ (i + 1) \div 2 \in 1..9
         /\ c.rails[(i + 1) \div 2] \in Rail
         /\ SetRail((i - 1) \div 2, c.rails[(i + 1) \div 2], i % 2 = 1) \in Calls
<1> DEFINE id == (i - 1) \div 2  r == c.rails[(i + 1) \div 2]
<1>1. id \in Rails /\ (i + 1) \div 2 \in 1..9
  BY DEF Rails
<1>2. r \in Rail
  BY <1>1, PmicAssumption
<1>3. ConfBits(id, r) \in AnyBits
  BY <1>1 DEF ConfBits, AnyBits
<1>4. Put(Conf(id), ConfBits(id, r)) \in Steps
  BY <1>1, <1>3, ConfPlain, WritesAreSteps
<1>5. r.mv \in Nat
  BY <1>2 DEF Rail
<1> HIDE DEF id, r
<1>6. SetRail(id, r, i % 2 = 1) \in Calls
  BY <1>1, <1>4, <1>5, SetVoltageIs, OneStep, MustTry DEF SetRail
<1> QED BY <1>1, <1>2, <1>6 DEF id, r

SetRails(c) == [i \in 1..18 |-> SetRail((i - 1) \div 2, c.rails[(i + 1) \div 2], i % 2 = 1)]
SetRest(c) ==
  <<Must(ConfigureSleep(c)), Try(IF c.watchdog THEN WatchdogEnable(c.timeout) ELSE WatchdogDisable)>>
SetEsm(c) == IF c.esm > 0 THEN <<Try(EsmEnable(c.esm))>> ELSE <<>>

\* set_config is those calls, then the rest, then the monitor when it is configured.
LEMMA SetConfigIs ==
  ASSUME NEW c \in Configs
  PROVE  /\ SetConfig(c) = (SetRails(c) \o SetRest(c)) \o SetEsm(c)
         /\ SetRails(c) \in Seq(Calls) /\ SetRest(c) \in Seq(Calls) /\ SetEsm(c) \in Seq(Calls)
         /\ SetConfig(c) \in Seq(Calls)
<1>1. SetConfig(c) = (SetRails(c) \o SetRest(c)) \o SetEsm(c)
  BY DEF SetConfig, SetRails, SetRest, SetEsm
<1>2. SetRails(c) \in Seq(Calls)
  BY RailIs DEF SetRails
<1>3. c.timeout \in Nat /\ c.esm \in Nat
  BY PmicAssumption
<1>4. SetRest(c) \in Seq(Calls)
  <2>1. Must(ConfigureSleep(c)) \in Calls
    BY ConfigureSleepIs, MustTry
  <2>2. Try(IF c.watchdog THEN WatchdogEnable(c.timeout) ELSE WatchdogDisable) \in Calls
    BY <1>3, WatchdogIs, MustTry
  <2> QED BY <2>1, <2>2 DEF SetRest
<1>5. SetEsm(c) \in Seq(Calls)
  <2>1. Try(EsmEnable(c.esm)) \in Calls
    BY <1>3, EsmIs, MustTry
  <2> QED BY <2>1 DEF SetEsm
<1> QED BY <1>1, <1>2, <1>4, <1>5

-----------------------------------------------------------------------------
\* The boot as a table: what call i of the sequence is, where "rest" is the number of
\* the last call that set_config makes.
SetLast(c) == IF c.esm > 0 THEN 21 ELSE 20
BootLen(c) == SetLast(c) + (IF c.esm > 0 THEN 20 ELSE 19)
BootCall(c, i) ==
  LET e == SetLast(c) IN
  IF i <= 18 THEN SetRail((i - 1) \div 2, c.rails[(i + 1) \div 2], i % 2 = 1)
  ELSE IF i = 19 THEN Must(ConfigureSleep(c))
  ELSE IF i = 20 THEN Try(IF c.watchdog THEN WatchdogEnable(c.timeout) ELSE WatchdogDisable)
  ELSE IF i = e + 20 \/ (i = 21 /\ e = 21) THEN Try(EsmEnable(c.esm))
  ELSE IF i <= e + 5 THEN Try(RegulatorEnable(BootOrder[i - e]))
  ELSE IF i <= e + 9 THEN Try(RegulatorEnable(4 + (i - e - 5)))
  ELSE IF i <= e + 18 THEN Try(<<Check((i - e - 9) - 1)>>)
  ELSE Try(WatchdogEnable(c.timeout))

Joins(s, t, st, m, n) ==
  /\ st \in Seq(Calls) /\ Len(st) = m + n
  /\ \A i \in 1..m : st[i] = s[i]
  /\ \A i \in (m + 1)..(m + n) : st[i] = t[i - m]
\* Where the calls of a joined table come from.
LEMMA Joined ==
  ASSUME NEW s \in Seq(Calls), NEW t \in Seq(Calls)
  PROVE  Joins(s, t, s \o t, Len(s), Len(t))
<1>1. s \o t \in Seq(Calls) /\ Len(s \o t) = Len(s) + Len(t)
  BY ConcatProperties
<1>2. \A i \in 1..(Len(s) + Len(t)) : (s \o t)[i] = IF i <= Len(s) THEN s[i] ELSE t[i - Len(s)]
  BY ConcatProperties
<1>3. Len(s) \in Nat /\ Len(t) \in Nat
  BY LenProperties
<1> QED BY <1>1, <1>2, <1>3 DEF Joins

\* The boot sequence, call by call, as one table.
LEMMA BootIs ==
  ASSUME NEW c \in Configs
  PROVE  /\ BootSequence(c) \in Seq(Calls) /\ Len(BootSequence(c)) = BootLen(c)
         /\ \A i \in 1..BootLen(c) : BootSequence(c)[i] = BootCall(c, i)
<1> DEFINE e == SetLast(c)
           bucks == [i \in 1..5 |-> Try(RegulatorEnable(BootOrder[i]))]
           ldos == [i \in 1..4 |-> Try(RegulatorEnable(4 + i))]
           dog == <<Try(WatchdogEnable(c.timeout))>>
           s1 == SetRails(c) \o SetRest(c)
           s2 == s1 \o SetEsm(c)
           s3 == s2 \o bucks
           s4 == s3 \o ldos
           s5 == s4 \o BootChecks
           s6 == s5 \o dog
           s7 == s6 \o SetEsm(c)
<1>1. c.timeout \in Nat /\ c.esm \in Nat
  BY PmicAssumption
<1>2. bucks \in Seq(Calls) /\ Len(bucks) = 5
  <2>1. \A i \in 1..5 : BootOrder[i] \in Rails
    BY DEF BootOrder, Rails
  <2>2. \A i \in 1..5 : Try(RegulatorEnable(BootOrder[i])) \in Calls
    BY <2>1, RegulatorIs, MustTry
  <2> QED BY <2>2
<1>3. ldos \in Seq(Calls) /\ Len(ldos) = 4
  <2>1. \A i \in 1..4 : 4 + i \in Rails
    BY DEF Rails
  <2>2. \A i \in 1..4 : Try(RegulatorEnable(4 + i)) \in Calls
    BY <2>1, RegulatorIs, MustTry
  <2> QED BY <2>2
<1>4. BootChecks \in Seq(Calls) /\ Len(BootChecks) = 9
  <2>1. \A i \in 1..9 : Check(i - 1) \in Steps
    BY DEF Steps, LocalSteps, Rails
  <2>2. \A i \in 1..9 : Try(<<Check(i - 1)>>) \in Calls
    BY <2>1, OneStep, MustTry
  <2> QED BY <2>2 DEF BootChecks
<1>5. dog \in Seq(Calls) /\ Len(dog) = 1
  <2>1. Try(WatchdogEnable(c.timeout)) \in Calls
    BY <1>1, WatchdogIs, MustTry
  <2> QED BY <2>1
<1>6. /\ Len(SetRails(c)) = 18 /\ Len(SetRest(c)) = 2
      /\ Len(SetEsm(c)) = IF c.esm > 0 THEN 1 ELSE 0
  BY DEF SetRails, SetRest, SetEsm
<1>7. BootSequence(c) = s7
  BY SetConfigIs DEF BootSequence, SetEsm
<1> HIDE DEF bucks, ldos, dog, s1, s2, s3, s4, s5, s6, s7
<1>8. /\ SetRails(c) \in Seq(Calls) /\ SetRest(c) \in Seq(Calls) /\ SetEsm(c) \in Seq(Calls)
      /\ Len(SetEsm(c)) = e - 20
  BY <1>1, <1>6, SetConfigIs DEF SetLast, e
<1>9. e \in {20, 21} /\ (e = 21 <=> c.esm > 0) /\ BootLen(c) = 2 * e - 1
  BY <1>1 DEF SetLast, BootLen, e
<1> HIDE DEF e
<1>11. Joins(SetRails(c), SetRest(c), s1, 18, 2)
  BY <1>6, <1>8, Joined DEF s1
<1>12. Joins(s1, SetEsm(c), s2, 20, e - 20)
  <2>1. s1 \in Seq(Calls) /\ Len(s1) = 20
    BY <1>11 DEF Joins
  <2> QED BY <1>8, <2>1, Joined DEF s2
<1>13. Joins(s2, bucks, s3, e, 5)
  <2>1. s2 \in Seq(Calls) /\ Len(s2) = e
    BY <1>9, <1>12 DEF Joins
  <2> QED BY <1>2, <2>1, Joined DEF s3
<1>14. Joins(s3, ldos, s4, e + 5, 4)
  <2>1. s3 \in Seq(Calls) /\ Len(s3) = e + 5
    BY <1>9, <1>13 DEF Joins
  <2> QED BY <1>3, <2>1, Joined DEF s4
<1>15. Joins(s4, BootChecks, s5, e + 9, 9)
  <2>1. s4 \in Seq(Calls) /\ Len(s4) = e + 9
    BY <1>9, <1>14 DEF Joins
  <2> QED BY <1>4, <2>1, Joined DEF s5
<1>16. Joins(s5, dog, s6, e + 18, 1)
  <2>1. s5 \in Seq(Calls) /\ Len(s5) = e + 18
    BY <1>9, <1>15 DEF Joins
  <2> QED BY <1>5, <2>1, Joined DEF s6
<1>17. Joins(s6, SetEsm(c), s7, e + 19, e - 20)
  <2>1. s6 \in Seq(Calls) /\ Len(s6) = e + 19
    BY <1>9, <1>16 DEF Joins
  <2> QED BY <1>8, <2>1, Joined DEF s7
<1>18. s7 \in Seq(Calls) /\ Len(s7) = BootLen(c)
  BY <1>9, <1>17 DEF Joins
<1>21. \A i \in 1..(e + 19) : s7[i] = s6[i]
  BY <1>17 DEF Joins
<1>22. \A i \in 1..(e + 18) : s7[i] = s5[i]
  BY <1>9, <1>16, <1>21 DEF Joins
<1>23. \A i \in 1..(e + 9) : s7[i] = s4[i]
  BY <1>9, <1>15, <1>22 DEF Joins
<1>24. \A i \in 1..(e + 5) : s7[i] = s3[i]
  BY <1>9, <1>14, <1>23 DEF Joins
<1>25. \A i \in 1..e : s7[i] = s2[i]
  BY <1>9, <1>13, <1>24 DEF Joins
<1>26. \A i \in 1..20 : s7[i] = s1[i]
  <2>1. \A i \in 1..20 : s2[i] = s1[i]
    BY <1>12 DEF Joins
  <2> QED BY <1>9, <1>25, <2>1
<1>31. ASSUME NEW i \in 1..20 PROVE s7[i] = BootCall(c, i)
  <2>1. CASE i \in 1..18
    <3>1. s1[i] = SetRails(c)[i]
      BY <1>11, <2>1 DEF Joins
    <3> QED BY <1>26, <2>1, <3>1 DEF BootCall, SetRails
  <2>2. CASE i \in 19..20
    <3>1. s1[i] = SetRest(c)[i - 18]
      BY <1>11, <2>2, SMTT(30) DEF Joins
    <3>2. i - 18 = 1 \/ i - 18 = 2
      BY <2>2
    <3> QED BY <1>9, <1>26, <2>2, <3>1, <3>2 DEF BootCall, SetRest, e
  <2> QED BY <2>1, <2>2
<1>32. e = 21 => s7[21] = BootCall(c, 21)
  <2>1. e = 21 => s2[21] = SetEsm(c)[1]
    BY <1>12 DEF Joins
  <2>2. e = 21 => SetEsm(c)[1] = Try(EsmEnable(c.esm))
    BY <1>9 DEF SetEsm
  <2> QED BY <1>9, <1>25, <2>1, <2>2 DEF BootCall, e
<1>33. ASSUME NEW i \in (e + 1)..(e + 5) PROVE s7[i] = BootCall(c, i)
  <2>1. s3[i] = bucks[i - e]
    BY <1>9, <1>13 DEF Joins
  <2>2. s3[i] = Try(RegulatorEnable(BootOrder[i - e]))
    BY <1>9, <2>1 DEF bucks
  <2> QED BY <1>9, <1>24, <2>2 DEF BootCall, e
<1>34. ASSUME NEW i \in (e + 6)..(e + 9) PROVE s7[i] = BootCall(c, i)
  <2>1. s4[i] = ldos[i - (e + 5)]
    BY <1>9, <1>14 DEF Joins
  <2>2. s4[i] = Try(RegulatorEnable(4 + (i - e - 5)))
    BY <1>9, <2>1 DEF ldos
  <2> QED BY <1>9, <1>23, <2>2 DEF BootCall, e
<1>35. ASSUME NEW i \in (e + 10)..(e + 18) PROVE s7[i] = BootCall(c, i)
  <2>1. s5[i] = BootChecks[i - (e + 9)]
    BY <1>9, <1>15 DEF Joins
  <2>2. s5[i] = Try(<<Check((i - e - 9) - 1)>>)
    BY <1>9, <2>1 DEF BootChecks
  <2> QED BY <1>9, <1>22, <2>2 DEF BootCall, e
<1>36. s7[e + 19] = BootCall(c, e + 19)
  <2>1. s6[e + 19] = dog[1]
    BY <1>9, <1>16 DEF Joins
  <2>2. dog[1] = Try(WatchdogEnable(c.timeout))
    BY DEF dog
  <2> QED BY <1>9, <1>21, <2>1, <2>2 DEF BootCall, e
<1>37. e = 21 => s7[e + 20] = BootCall(c, e + 20)
  <2>1. e = 21 => s7[e + 20] = SetEsm(c)[1]
    BY <1>17 DEF Joins
  <2>2. e = 21 => SetEsm(c)[1] = Try(EsmEnable(c.esm))
    BY <1>9 DEF SetEsm
  <2> QED BY <1>9, <2>1, <2>2 DEF BootCall, e
<1>40. ASSUME NEW i \in 1..BootLen(c) PROVE s7[i] = BootCall(c, i)
  <2>1. \/ i \in 1..20
        \/ e = 21 /\ i = 21
        \/ i \in (e + 1)..(e + 5)
        \/ i \in (e + 6)..(e + 9)
        \/ i \in (e + 10)..(e + 18)
        \/ i = e + 19
        \/ e = 21 /\ i = e + 20
    BY <1>9 DEF BootLen, e
  <2> QED BY <1>31, <1>32, <1>33, <1>34, <1>35, <1>36, <1>37, <2>1
<1> QED BY <1>7, <1>18, <1>40

-----------------------------------------------------------------------------
DevType == [initialized : BOOLEAN, state : 0..6, mv : [Rails -> Nat]]
Results == {"OK", "NOMATCH", "NOCOMM", "INVAL", "FAULT"}

\* A call in progress is made of calls that are made of steps; the state the chip reports
\* is one of four, the states on record one of seven.
TypeInv ==
  /\ chip = [r \in Regs |-> chip[r]] /\ chip[Reg("PWR_STATUS")] \in 0..3
  /\ dev \in DevType
  /\ call = [name |-> call.name, arg |-> call.arg, todo |-> call.todo, ret |-> call.ret]
  /\ call.todo \in Seq(Calls) /\ call.ret \in Results
  /\ call.name = "boot" => call.arg \in Configs
  /\ faults \in Nat

\* What every call of the driver starts with.
Started ==
  /\ Idle
  /\ call' = [name |-> call'.name, arg |-> call'.arg, todo |-> call'.todo, ret |-> "OK"]
  /\ call'.todo \in Seq(Calls)
  /\ call'.name = "enter_sleep" => call'.todo = <<Must(EnterSleep)>>
  /\ call'.name = "exit_sleep" => call'.todo = <<Must(ExitSleep)>>
  /\ call'.name = "esm_reset" => call'.todo = <<Must(EsmReset)>>
  /\ call'.name = "boot" => call'.arg \in Configs /\ call'.todo = BootSequence(call'.arg)
  /\ unseen' = {}
  /\ UNCHANGED <<chip, dev, val, faults, taken, source, moved>>

\* An operation of one call.
LEMMA OneCall ==
  ASSUME NEW steps \in Seq(Steps) \ {<<>>}
  PROVE  <<Must(steps)>> \in Seq(Calls) /\ <<Try(steps)>> \in Seq(Calls)
<1>1. Must(steps) \in Calls /\ Try(steps) \in Calls
  BY MustTry
<1> QED BY <1>1

\* An operation that begins is a sequence of calls, and those that matter by name are theirs.
LEMMA BeginIs ==
  ASSUME NEW name, NEW arg, NEW todo \in Seq(Calls),
         Begin(name, arg, todo),
         name = "enter_sleep" => todo = <<Must(EnterSleep)>>,
         name = "exit_sleep" => todo = <<Must(ExitSleep)>>,
         name = "esm_reset" => todo = <<Must(EsmReset)>>,
         name = "boot" => arg \in Configs /\ todo = BootSequence(arg)
  PROVE  Started
BY DEF Begin, Started

LEMMA CallIs ==
  ASSUME NEW name, NEW steps \in Seq(Steps) \ {<<>>}, Call(name, <<>>, <<Must(steps)>>),
         name = "enter_sleep" => steps = EnterSleep,
         name = "exit_sleep" => steps = ExitSleep,
         name = "esm_reset" => steps = EsmReset,
         name # "boot"
  PROVE  Started
<1>1. <<Must(steps)>> \in Seq(Calls)
  BY OneCall
<1> QED BY <1>1, BeginIs DEF Call

LEMMA DeinitIs == Deinit \in Seq(Calls)
<1> DEFINE rails == [i \in 1..9 |-> Try(RegulatorDisable(i - 1))]
           dog == <<Try(WatchdogDisable)>>
           done == <<Try(<<Record(<<"deinit">>)>>)>>
<1>1. rails \in Seq(Calls)
  <2>1. \A i \in 1..9 : i - 1 \in Rails
    BY DEF Rails
  <2>2. \A i \in 1..9 : Try(RegulatorDisable(i - 1)) \in Calls
    BY <2>1, RegulatorIs, MustTry
  <2> QED BY <2>2
<1>2. dog \in Seq(Calls)
  BY WatchdogIs, OneCall
<1>3. done \in Seq(Calls)
  <2>1. Record(<<"deinit">>) \in Steps
    BY DEF Steps, LocalSteps
  <2> QED BY <2>1, OneStep, OneCall
<1>4. Deinit = (dog \o rails) \o done
  BY DEF Deinit
<1> HIDE DEF rails, dog, done
<1>5. dog \o rails \in Seq(Calls)
  BY <1>1, <1>2, ConcatProperties
<1> QED BY <1>3, <1>4, <1>5, ConcatProperties

\* So is everything the user may begin.
LEMMA CallsStart ==
  ASSUME CallProbe \/ CallNvmLock \/ CallRail \/ CallPower \/ CallMonitor \/ CallWhole
  PROVE  Started
<1>1. CASE CallProbe
  <2>1. Begin("probe", <<>>, Probe)
    BY <1>1 DEF CallProbe
  <2> QED BY <2>1, ReadingIs, BeginIs
<1>2. CASE CallNvmLock
  <2>1. Begin("nvm_lock", <<>>, <<Must(NvmLock(TRUE))>>)
    BY <1>2 DEF CallNvmLock
  <2>2. <<Must(NvmLock(TRUE))>> \in Seq(Calls)
    BY NvmIs, OneCall
  <2> QED BY <2>1, <2>2, BeginIs
<1>3. CASE CallRail
  <2>1. 1 \in Rails /\ 7 \in Rails /\ 8 \in Rails
    BY DEF Rails
  <2>2. ASSUME NEW id \in {1, 7}, NEW mv \in Voltages,
               Call("set_voltage", <<>>, <<Must(SetVoltage(id, mv))>>)
        PROVE  Started
    <3>1. id \in Rails /\ mv \in Nat
      BY <2>1, PmicAssumption
    <3> QED BY <2>2, <3>1, SetVoltageIs, CallIs
  <2>3. CASE \/ Call("get_voltage", <<>>, <<Must(GetVoltage(1))>>)
             \/ Call("get_status", <<>>, <<Must(GetStatus(8))>>)
    BY <2>1, <2>3, ReadingIs, CallIs
  <2>4. CASE \/ Call("enable", <<>>, <<Must(RegulatorEnable(1))>>)
             \/ Call("disable", <<>>, <<Must(RegulatorDisable(1))>>)
    BY <2>1, <2>4, RegulatorIs, CallIs
  <2> QED BY <1>3, <2>2, <2>3, <2>4 DEF CallRail
<1>4. CASE CallPower
  <2>1. CASE Call("probe", <<>>, Probe)
    <3>1. Begin("probe", <<>>, Probe)
      BY <2>1 DEF Call
    <3> QED BY <3>1, ReadingIs, BeginIs
  <2>2. ASSUME NEW s \in {ACTIVE, STANDBY, SHUTDOWN, UNKNOWN},
               Call("set_power_state", <<>>, <<Must(SetPowerState(s))>>)
        PROVE  Started
    <3>1. s \in Nat
      BY DEF ACTIVE, STANDBY, SHUTDOWN, UNKNOWN
    <3> QED BY <2>2, <3>1, SetPowerStateIs, CallIs
  <2>3. CASE Call("get_power_state", <<>>, <<Must(GetPowerState)>>)
    BY <2>3, ReadingIs, CallIs
  <2>4. CASE Call("enter_sleep", <<>>, <<Must(EnterSleep)>>)
    BY <2>4, SleepIs, CallIs
  <2>5. CASE Call("exit_sleep", <<>>, <<Must(ExitSleep)>>)
    BY <2>5, SleepIs, CallIs
  <2>6. ASSUME NEW c \in Configs, Call("configure_sleep", <<>>, <<Must(ConfigureSleep(c))>>)
        PROVE  Started
    BY <2>6, ConfigureSleepIs, CallIs
  <2>7. ASSUME NEW pin \in {1, 7}, Call("enable_wake", <<>>, <<Must(EnableWake(pin))>>)
        PROVE  Started
    BY <2>7, EnableWakeIs, CallIs
  <2> QED BY <1>4, <2>1, <2>2, <2>3, <2>4, <2>5, <2>6, <2>7 DEF CallPower
<1>5. CASE CallMonitor
  <2>1. ASSUME NEW ms \in Timeouts, Call("watchdog_enable", <<>>, <<Must(WatchdogEnable(ms))>>)
        PROVE  Started
    <3>1. ms \in Nat
      BY PmicAssumption
    <3> QED BY <2>1, <3>1, WatchdogIs, CallIs
  <2>2. CASE \/ Call("watchdog_disable", <<>>, <<Must(WatchdogDisable)>>)
             \/ Call("watchdog_pet", <<>>, <<Must(WatchdogPet)>>)
    BY <2>2, WatchdogIs, CallIs
  <2>3. ASSUME NEW mode \in {0, 3}, Call("esm_enable", <<>>, <<Must(EsmEnable(mode))>>)
        PROVE  Started
    BY <2>3, EsmIs, CallIs
  <2>4. CASE \/ Call("esm_disable", <<>>, <<Must(EsmDisable)>>)
             \/ Call("esm_reset", <<>>, <<Must(EsmReset)>>)
    BY <2>4, EsmIs, CallIs
  <2>5. CASE \/ Call("enable_interrupts", <<>>, <<Must(EnableInterrupts({1}))>>)
             \/ Call("disable_interrupts", <<>>, <<Must(DisableInterrupts({1}))>>)
             \/ Call("clear_interrupts", <<>>, <<Must(ClearInterrupts({1}))>>)
             \/ Call("get_pending_interrupts", <<>>, <<Must(GetPendingInterrupts)>>)
    <3>1. {1} \in SUBSET Nat
      OBVIOUS
    <3> QED BY <2>5, <3>1, InterruptsAre, CallIs
  <2>6. CASE Call("nvm_crc_check", <<>>, <<Must(NvmCrcCheck)>>)
    BY <2>6, NvmIs, CallIs
  <2> QED BY <1>5, <2>1, <2>2, <2>3, <2>4, <2>5, <2>6 DEF CallMonitor
<1>6. CASE CallWhole
  <2>1. ASSUME NEW c \in Configs, Whole("set_config", c, SetConfig(c)) PROVE Started
    <3>1. Begin("set_config", c, SetConfig(c)) /\ SetConfig(c) \in Seq(Calls)
      BY <2>1, SetConfigIs DEF Whole
    <3> QED BY <3>1, BeginIs
  <2>2. ASSUME NEW c \in Configs, Whole("boot", c, BootSequence(c)) PROVE Started
    <3>1. Begin("boot", c, BootSequence(c)) /\ BootSequence(c) \in Seq(Calls)
      BY <2>2, BootIs DEF Whole
    <3> QED BY <3>1, BeginIs
  <2>3. CASE Whole("deinit", <<>>, Deinit)
    <3>1. Begin("deinit", <<>>, Deinit)
      BY <2>3 DEF Whole
    <3> QED BY <3>1, DeinitIs, BeginIs
  <2> QED BY <1>6, <2>1, <2>2, <2>3 DEF CallWhole
<1> QED BY <1>1, <1>2, <1>3, <1>4, <1>5, <1>6

-----------------------------------------------------------------------------
\* What is known of the step that comes now.
LEMMA NowIs ==
  ASSUME TypeInv, ~Idle
  PROVE  /\ Head(call.todo) \in Calls /\ Head(call.todo).steps \in Seq(Steps) \ {<<>>}
         /\ Head(call.todo) = call.todo[1] /\ Now = Head(call.todo).steps[1]
         /\ Tail(call.todo) \in Seq(Calls) /\ Now \in Steps
<1>1. call.todo \in Seq(Calls) /\ call.todo # <<>>
  BY DEF TypeInv, Idle
<1>2. Head(call.todo) \in Calls /\ Tail(call.todo) \in Seq(Calls) /\ Head(call.todo) = call.todo[1]
  BY <1>1, HeadTailProperties
<1>3. Head(call.todo).steps \in Seq(Steps) \ {<<>>}
  BY <1>2 DEF Calls
<1> QED BY <1>2, <1>3 DEF Now

\* What is left of the calls after a step.
LEMMA RestIs ==
  ASSUME TypeInv, ~Idle
  PROVE  Rest \in Seq(Calls)
<1> DEFINE c == Head(call.todo)
           left == IF Len(c.steps) = 1 THEN <<>> ELSE <<[must |-> c.must, steps |-> Tail(c.steps)]>>
<1>1. c \in Calls /\ c.steps \in Seq(Steps) \ {<<>>} /\ Tail(call.todo) \in Seq(Calls)
  BY NowIs
<1>2. Rest = left \o Tail(call.todo)
  BY DEF Rest
<1> HIDE DEF c
<1>3. ASSUME Len(c.steps) # 1
      PROVE  [must |-> c.must, steps |-> Tail(c.steps)] \in Calls
  <2>1. Tail(c.steps) \in Seq(Steps) /\ Len(Tail(c.steps)) = Len(c.steps) - 1
    BY <1>1, HeadTailProperties
  <2>2. Len(c.steps) \in Nat /\ Len(c.steps) # 0
    BY <1>1
  <2>3. Len(Tail(c.steps)) # 0
    BY <1>3, <2>1, <2>2
  <2>4. Tail(c.steps) # <<>>
    BY <2>3, EmptySeq
  <2> QED BY <1>1, <2>1, <2>4 DEF Calls
<1>4. left \in Seq(Calls)
  BY <1>3
<1> HIDE DEF left
<1> QED BY <1>1, <1>2, <1>4, ConcatProperties

\* After the step the same call is in progress, or it has failed.
LEMMA CallGoesOn ==
  ASSUME TypeInv, ~Idle, NEW error \in Results, Proceed \/ GiveUp(error)
  PROVE  /\ call' = [name |-> call.name, arg |-> call.arg, todo |-> call'.todo, ret |-> call'.ret]
         /\ call'.todo \in Seq(Calls) /\ call'.ret \in Results
<1>1. Rest \in Seq(Calls) /\ Tail(call.todo) \in Seq(Calls) /\ <<>> \in Seq(Calls)
  BY NowIs, RestIs
<1>2. call = [name |-> call.name, arg |-> call.arg, todo |-> call.todo, ret |-> call.ret]
      /\ call.ret \in Results
  BY DEF TypeInv
<1>3. CASE Proceed
  BY <1>1, <1>2, <1>3 DEF Proceed
<1>4. CASE GiveUp(error)
  <2>1. CASE Head(call.todo).must
    <3>1. call' = [call EXCEPT !.todo = <<>>, !.ret = error]
      BY <1>4, <2>1 DEF GiveUp
    <3>2. call' = [name |-> call.name, arg |-> call.arg, todo |-> <<>>, ret |-> error]
      BY <1>2, <3>1
    <3> QED BY <1>1, <3>2
  <2>2. CASE ~Head(call.todo).must
    BY <1>1, <1>2, <1>4, <2>2 DEF GiveUp
  <2> QED BY <2>1, <2>2
<1> QED BY <1>3, <1>4

\* The kinds of steps, and what each writes and records.
VoltageStep(id, mv) == Now = VoltageWrite(id, mv)
StateStep(s) == Now = StateWrite(s)
PlainWrite == Now \in PlainWrites

\* What a write records, and what a read does, by the shape of the step.
LEMMA Kinds ==
  ASSUME TypeInv, ~Idle
  PROVE  /\ Now.op \in WriteOps =>
              \/ \E id \in Rails : \E mv \in MinMv(id)..MaxMv(id) : VoltageStep(id, mv)
              \/ \E s \in 0..3 : StateStep(s)
              \/ PlainWrite
              \/ Now = WakeWrite
         /\ Now.op = "get" =>
              \/ Now.note \in {Plain, <<"identity">>}
              \/ Now = GetNote(Reg("PWR_STATUS"), <<"probed">>)
              \/ Now = GetNote(Reg("PWR_STATUS"), <<"status">>)
         /\ Now.op = "record" => Now = Record(<<"deinit">>)
         /\ Now.op = "check" => Now.reg[2] \in Rails
<1>1. Now \in Steps
  BY NowIs
<1>2. CASE Now \in Read1
  BY <1>2 DEF Read1, Get, GetNote, Step, WriteOps
<1>3. CASE Now \in VoltageWrites
  BY <1>3 DEF VoltageWrites, VoltageStep, VoltageWrite, PutNote, Step
<1>4. CASE Now \in StateWrites
  BY <1>4 DEF StateWrites, StateStep, StateWrite, PutNote, Step, ACTIVE, SHUTDOWN
<1>5. CASE Now \in PlainWrites
  BY <1>5 DEF PlainWrites, PlainWrite, Step, WriteOps
<1>6. CASE Now = WakeWrite
  BY <1>6 DEF WakeWrite, Step
<1>7. CASE Now \in LocalSteps
  BY <1>7 DEF LocalSteps, Inval, Record, Check, Step, WriteOps, Reg
<1> QED BY <1>1, <1>2, <1>3, <1>4, <1>5, <1>6, <1>7 DEF Steps

\* The registers of voltages, states and settings are different ones.
LEMMA Names ==
  /\ \A id \in Rails : Volt(id) \in Regs /\ Volt(id)[1] = "VOLT"
  /\ Reg("PWR_CTRL") \in Regs /\ Reg("PWR_STATUS") \in Regs /\ Reg("PWR_CTRL") # Reg("PWR_STATUS")
  /\ Reg("SLEEP_CONF") \in PlainRegs /\ Reg("ESM_STATUS") \in PlainRegs
  /\ Reg("PWR_CTRL") \notin PlainRegs /\ Reg("PWR_STATUS") \notin PlainRegs
  /\ \A id \in Rails : Volt(id) \notin PlainRegs /\ Volt(id) # Reg("PWR_CTRL")
                        /\ Volt(id) # Reg("PWR_STATUS")
  /\ \A r \in PlainRegs : r \in Regs /\ r[1] # "PWR_CTRL" /\ r[1] # "VOLT"
BY DEF Volt, Conf, Reg, Regs, PlainRegs, BitRegs, Numbers

\* A write leaves the registers alone that it does not name.
LEMMA WrittenIs ==
  ASSUME TypeInv, ~Idle, Now.op \in WriteOps
  PROVE  /\ Written = [r \in Regs |-> Written[r]] /\ Now.reg \in Regs
         /\ \A r \in Regs : r # Now.reg /\ (Now.reg[1] = "PWR_CTRL" => r # Reg("PWR_STATUS"))
              => Written[r] = chip[r]
<1>1. chip = [r \in Regs |-> chip[r]]
  BY DEF TypeInv
<1>2. Now.reg \in Regs
  <2>1. ASSUME NEW id \in Rails, NEW mv, VoltageStep(id, mv) PROVE Now.reg \in Regs
    BY <2>1, Names DEF VoltageStep, VoltageWrite, PutNote, Step
  <2>2. ASSUME NEW s, StateStep(s) PROVE Now.reg \in Regs
    BY <2>2, Names DEF StateStep, StateWrite, PutNote, Step
  <2>3. CASE PlainWrite
    BY <2>3, Names DEF PlainWrite, PlainWrites, Step
  <2>4. CASE Now = WakeWrite
    BY <2>4, Names DEF WakeWrite, Step
  <2> QED BY <2>1, <2>2, <2>3, <2>4, Kinds
<1> DEFINE new == CASE Now.op = "put" -> Now.bits
                    [] Now.op = "set" -> val \cup Now.bits
                    [] Now.op = "clear" -> val \ Now.bits
                    [] Now.op = "toggle" -> (val \ Now.bits) \cup (Now.bits \ val)
<1>3. Written = IF Now.reg[1] \in {"INT_STS", "ESM_STATUS"} THEN [chip EXCEPT ![Now.reg] = @ \ new]
                ELSE IF Now.reg[1] = "PWR_CTRL"
                     THEN [chip EXCEPT ![Now.reg] = new, ![Reg("PWR_STATUS")] = StatusOf(new)]
                     ELSE [chip EXCEPT ![Now.reg] = new]
  BY DEF Written
<1> HIDE DEF new
<1>4. CASE Now.reg[1] \in {"INT_STS", "ESM_STATUS"}
  BY <1>1, <1>2, <1>3, <1>4
<1>5. CASE Now.reg[1] = "PWR_CTRL"
  BY <1>1, <1>2, <1>3, <1>5
<1>6. CASE Now.reg[1] \notin {"INT_STS", "ESM_STATUS", "PWR_CTRL"}
  BY <1>1, <1>2, <1>3, <1>6
<1> QED BY <1>4, <1>5, <1>6

\* What the driver records, by the kind of the step.
LEMMA VoltageNote ==
  ASSUME TypeInv, Note, NEW id \in Rails, NEW mv \in MinMv(id)..MaxMv(id), VoltageStep(id, mv)
  PROVE  /\ dev' \in DevType /\ dev'.mv = [dev.mv EXCEPT ![id] = mv]
         /\ dev'.state = dev.state /\ dev'.initialized = dev.initialized
         /\ UNCHANGED <<source, moved>>
<1>1. dev \in DevType
  BY DEF TypeInv
<1>2. Now.note = <<"voltage", id, mv>>
  BY DEF VoltageStep, VoltageWrite, PutNote, Step
<1>3. dev' = [dev EXCEPT !.mv[id] = mv] /\ UNCHANGED <<source, moved>>
  BY <1>2 DEF Note
<1>4. mv \in Nat
  BY DEF MinMv, MaxMv
<1> QED BY <1>1, <1>3, <1>4 DEF DevType

\* Recording a power state that was written, assumed or read.
LEMMA StateNote ==
  ASSUME TypeInv, Note, NEW s \in 0..3, StateStep(s)
  PROVE  /\ dev' \in DevType /\ dev'.mv = dev.mv
         /\ dev'.state = s /\ dev'.initialized = dev.initialized
         /\ source' = "told" /\ moved' = FALSE
<1>1. dev \in DevType
  BY DEF TypeInv
<1>2. Now.note = <<"state", s>>
  BY DEF StateStep, StateWrite, PutNote, Step
<1>3. dev' = [dev EXCEPT !.state = s] /\ source' = "told" /\ moved' = FALSE
  BY <1>2 DEF Note
<1> QED BY <1>1, <1>3 DEF DevType

LEMMA WakeNote ==
  ASSUME TypeInv, Note, Now = WakeWrite
  PROVE  /\ dev' \in DevType /\ dev'.mv = dev.mv
         /\ dev'.state = ACTIVE /\ dev'.initialized = dev.initialized
         /\ source' = "assumed" /\ moved' = FALSE
<1>1. dev \in DevType
  BY DEF TypeInv
<1>2. Now.note = <<"awake">>
  BY DEF WakeWrite, Step
<1>3. dev' = [dev EXCEPT !.state = ACTIVE] /\ source' = "assumed" /\ moved' = FALSE
  BY <1>2 DEF Note
<1> QED BY <1>1, <1>3 DEF DevType, ACTIVE

LEMMA StatusNote ==
  ASSUME TypeInv, Note, \/ Now = GetNote(Reg("PWR_STATUS"), <<"probed">>)
                        \/ Now = GetNote(Reg("PWR_STATUS"), <<"status">>)
  PROVE  /\ dev' \in DevType /\ dev'.mv = dev.mv /\ dev'.state = chip[Reg("PWR_STATUS")]
         /\ source' = "asked" /\ moved' = FALSE
<1>1. dev \in DevType /\ chip[Reg("PWR_STATUS")] \in 0..6
  BY DEF TypeInv
<1>2. CASE Now = GetNote(Reg("PWR_STATUS"), <<"probed">>)
  <2>1. Now.note = <<"probed">>
    BY <1>2 DEF GetNote, Step
  <2>2. dev' = [dev EXCEPT !.state = chip[Reg("PWR_STATUS")], !.initialized = TRUE]
        /\ source' = "asked" /\ moved' = FALSE
    BY <2>1 DEF Note
  <2>3. dev' = [initialized |-> TRUE, state |-> chip[Reg("PWR_STATUS")], mv |-> dev.mv]
    BY <1>1, <2>2 DEF DevType
  <2> QED BY <1>1, <2>2, <2>3 DEF DevType
<1>3. CASE Now = GetNote(Reg("PWR_STATUS"), <<"status">>)
  <2>1. Now.note = <<"status">>
    BY <1>3 DEF GetNote, Step
  <2>2. dev' = [dev EXCEPT !.state = chip[Reg("PWR_STATUS")]]
        /\ source' = "asked" /\ moved' = FALSE
    BY <2>1 DEF Note
  <2> QED BY <1>1, <2>2 DEF DevType
<1> QED BY <1>2, <1>3

\* Nothing else changes the record.
LEMMA OtherNote ==
  ASSUME TypeInv, Note, Now.note \in {Plain, <<"identity">>} \/ Now = Record(<<"deinit">>)
  PROVE  /\ dev' \in DevType /\ dev'.mv = dev.mv /\ dev'.state = dev.state
         /\ dev'.initialized => dev.initialized
         /\ UNCHANGED <<source, moved>>
<1>1. dev \in DevType
  BY DEF TypeInv
<1>2. CASE Now.note \in {Plain, <<"identity">>}
  <2>1. Now.note[1] \in {"none", "identity"}
    BY <1>2 DEF Plain
  <2> QED BY <1>1, <2>1 DEF Note
<1>3. CASE Now = Record(<<"deinit">>)
  <2>1. Now.note = <<"deinit">>
    BY <1>3 DEF Record, Step
  <2>2. dev' = [dev EXCEPT !.initialized = FALSE] /\ UNCHANGED <<source, moved>>
    BY <2>1 DEF Note
  <2> QED BY <1>1, <2>2 DEF DevType
<1> QED BY <1>2, <1>3

\* Whatever is recorded, the record keeps its types.
LEMMA NoteTyped ==
  ASSUME TypeInv, ~Idle, Note, Now.op \in WriteOps \cup {"get", "record"}
  PROVE  dev' \in DevType
<1>1. PlainWrite => Now.note = Plain
  BY DEF PlainWrite, PlainWrites, Step
<1> QED BY <1>1, Kinds, VoltageNote, StateNote, WakeNote, StatusNote, OtherNote

\* A write leaves a chip of the same registers that reports a state.
LEMMA ChipTyped ==
  ASSUME TypeInv, ~Idle, Now.op \in WriteOps
  PROVE  Written = [r \in Regs |-> Written[r]] /\ Written[Reg("PWR_STATUS")] \in 0..3
<1>1. ASSUME NEW id \in Rails, NEW mv, VoltageStep(id, mv)
      PROVE  Now.reg # Reg("PWR_STATUS") /\ Now.reg[1] # "PWR_CTRL"
  BY <1>1, Names DEF VoltageStep, VoltageWrite, PutNote, Step
<1>2. PlainWrite => Now.reg # Reg("PWR_STATUS") /\ Now.reg[1] # "PWR_CTRL"
  BY Names DEF PlainWrite, PlainWrites, Step
<1>3. Now = WakeWrite => Now.reg # Reg("PWR_STATUS") /\ Now.reg[1] # "PWR_CTRL"
  BY Names DEF WakeWrite, Step
<1>4. ASSUME NEW s \in 0..3, StateStep(s)
      PROVE  Written[Reg("PWR_STATUS")] = StatusOf(s) /\ StatusOf(s) \in 0..3
  <2>1. Now.op = "put" /\ Now.reg = Reg("PWR_CTRL") /\ Now.bits = s
    BY <1>4 DEF StateStep, StateWrite, PutNote, Step
  <2>2. Written = [chip EXCEPT ![Reg("PWR_CTRL")] = s, ![Reg("PWR_STATUS")] = StatusOf(s)]
    BY <2>1 DEF Written, Reg
  <2>3. chip = [r \in Regs |-> chip[r]]
    BY DEF TypeInv
  <2> QED BY <2>2, <2>3, Names DEF StatusOf
<1>5. chip[Reg("PWR_STATUS")] \in 0..3
  BY DEF TypeInv
<1> QED BY <1>1, <1>2, <1>3, <1>4, <1>5, WrittenIs, Kinds, Names

LEMMA TypeInit == Init => TypeInv
<1> SUFFICES ASSUME Init PROVE TypeInv
  OBVIOUS
<1>1. chip = [r \in Regs |-> chip[r]] /\ chip[Reg("PWR_STATUS")] \in 0..3
  <2>1. PICK identity \in {0, 36}, status \in {StatusOf(ACTIVE), StatusOf(STANDBY)} :
          chip = [r \in Regs |-> CASE r[1] = "DEVICE_ID" -> identity
                                   [] r[1] = "PWR_STATUS" -> status
                                   [] r[1] \in {"VOLT", "PWR_CTRL", "WDOG_RESPONSE"} -> 0
                                   [] OTHER -> {}]
    BY DEF Init
  <2>2. chip[Reg("PWR_STATUS")] = status
    BY <2>1, Names DEF Reg
  <2> QED BY <2>1, <2>2 DEF StatusOf, ACTIVE, STANDBY
<1>2. dev \in DevType
  BY DEF Init, NewRecord, DevType, UNKNOWN
<1>3. call = [name |-> "init", arg |-> <<>>, todo |-> <<>>, ret |-> "OK"] /\ faults = 0
  BY DEF Init
<1> QED BY <1>1, <1>2, <1>3 DEF TypeInv, Results

LEMMA TypeNext == TypeInv /\ [Next]_vars => TypeInv'
<1> SUFFICES ASSUME TypeInv, [Next]_vars PROVE TypeInv'
  OBVIOUS
<1>0. /\ chip = [r \in Regs |-> chip[r]] /\ chip[Reg("PWR_STATUS")] \in 0..3
      /\ dev \in DevType
      /\ call = [name |-> call.name, arg |-> call.arg, todo |-> call.todo, ret |-> call.ret]
      /\ call.todo \in Seq(Calls) /\ call.ret \in Results
      /\ call.name = "boot" => call.arg \in Configs
      /\ faults \in Nat
  BY DEF TypeInv
<1> DEFINE callok ==
             /\ call' = [name |-> call'.name, arg |-> call'.arg, todo |-> call'.todo, ret |-> call'.ret]
             /\ call'.todo \in Seq(Calls) /\ call'.ret \in Results
             /\ call'.name = "boot" => call'.arg \in Configs
           chipok == chip' = [r \in Regs |-> chip'[r]] /\ chip'[Reg("PWR_STATUS")] \in 0..3
<1>1. callok /\ chipok /\ dev' \in DevType /\ faults' \in Nat => TypeInv'
  BY DEF TypeInv
<1>2. ASSUME ~Idle, NEW error \in Results, Proceed \/ GiveUp(error)
      PROVE  callok
  <2>1. call'.name = call.name /\ call'.arg = call.arg
    BY <1>2, CallGoesOn
  <2> QED BY <1>0, <1>2, <2>1, CallGoesOn
<1>3. "OK" \in Results /\ "NOMATCH" \in Results /\ "NOCOMM" \in Results /\ "INVAL" \in Results
      /\ "FAULT" \in Results
  BY DEF Results
<1>11. CASE Started
  <2>1. callok
    BY <1>3, <1>11 DEF Started
  <2>2. chip' = chip /\ dev' = dev /\ faults' = faults
    BY <1>11 DEF Started
  <2> QED BY <1>0, <1>1, <2>1, <2>2
<1>12. CASE Read
  <2>1. callok
    BY <1>2, <1>3, <1>12 DEF Read
  <2>2. dev' \in DevType
    BY <1>12, NoteTyped DEF Read
  <2> QED BY <1>0, <1>1, <1>12, <2>1, <2>2 DEF Read
<1>13. CASE Write
  <2>1. callok
    BY <1>2, <1>3, <1>13 DEF Write
  <2>2. ~Idle /\ Note /\ Now.op \in WriteOps /\ chip' = Written /\ faults' = faults
    BY <1>13 DEF Write, WriteOps
  <2>3. dev' \in DevType
    BY <2>2, NoteTyped
  <2> QED BY <1>0, <1>1, <2>1, <2>2, <2>3, ChipTyped
<1>14. CASE Fail
  <2>1. callok
    BY <1>2, <1>3, <1>14 DEF Fail
  <2>2. ~Idle /\ faults' = faults + 1 /\ dev' = dev
    BY <1>14 DEF Fail
  <2>3. chip' = chip \/ (Now.op \in WriteOps /\ chip' = Written)
    BY <1>14 DEF Fail, WriteOps
  <2> QED BY <1>0, <1>1, <2>1, <2>2, <2>3, ChipTyped, SMTT(30)
<1>15. CASE CheckRail
  <2>1. ~Idle /\ (Proceed \/ call' = [call EXCEPT !.todo = <<>>, !.ret = "FAULT"])
        /\ faults' \in {faults, faults + 1} /\ chip' = chip /\ dev' = dev
    BY <1>15 DEF CheckRail
  <2>2. CASE Proceed
    BY <1>0, <1>1, <1>2, <1>3, <2>1, <2>2
  <2>3. CASE call' = [call EXCEPT !.todo = <<>>, !.ret = "FAULT"]
    <3>1. call' = [name |-> call.name, arg |-> call.arg, todo |-> <<>>, ret |-> "FAULT"]
      BY <1>0, <2>3
    <3>2. callok
      BY <1>0, <1>3, <3>1
    <3> QED BY <1>0, <1>1, <2>1, <3>2
  <2> QED BY <2>1, <2>2, <2>3
<1>16. CASE Local
  <2>1. callok
    BY <1>2, <1>3, <1>16 DEF Local
  <2>2. dev' \in DevType
    BY <1>0, <1>16, NoteTyped DEF Local
  <2> QED BY <1>0, <1>1, <1>16, <2>1, <2>2 DEF Local
<1>17. CASE Reinit
  BY <1>0, <1>1, <1>17 DEF Reinit, NewRecord, DevType, UNKNOWN
<1>18. CASE Wake
  <2>1. chip' = [chip EXCEPT ![Reg("PWR_STATUS")] = StatusOf(ACTIVE)]
    BY <1>18 DEF Wake
  <2>2. chipok
    BY <1>0, <2>1, Names, SMTT(30) DEF StatusOf, ACTIVE
  <2> QED BY <1>0, <1>1, <1>18, <2>2 DEF Wake
<1>19. CASE Flag
  <2>1. chip' = [chip EXCEPT ![Reg("ESM_STATUS")] = {1}]
    BY <1>19 DEF Flag
  <2>2. chipok
    BY <1>0, <2>1, Names
  <2> QED BY <1>0, <1>1, <1>19, <2>2 DEF Flag
<1>20. CASE UNCHANGED vars
  BY <1>20 DEF vars, TypeInv, Idle
<1> QED
  BY <1>11, <1>12, <1>13, <1>14, <1>15, <1>16, <1>17, <1>18, <1>19, <1>20, CallsStart DEF Next

\* The steps of a call are what the calls of the driver are made of, and the record keeps
\* the chip's four states apart from what it cannot know.
THEOREM TypeCorrect == Spec => []TypeInv
BY TypeInit, TypeNext, PTL DEF Spec

-----------------------------------------------------------------------------
\* A voltage is written to its rail's register alone.
LEMMA VoltageWritten ==
  ASSUME TypeInv, ~Idle, Now.op \in WriteOps
  PROVE  \/ \E id \in Rails : \E mv \in MinMv(id)..MaxMv(id) :
              /\ VoltageStep(id, mv) /\ Now.reg = Volt(id)
              /\ Written[Volt(id)] = VoltCode(id, mv)
              /\ \A other \in Rails \ {id} : Written[Volt(other)] = chip[Volt(other)]
         \/ /\ \A id \in Rails : Now.reg # Volt(id) /\ Written[Volt(id)] = chip[Volt(id)]
            /\ \/ \E s \in 0..3 : StateStep(s)
               \/ Now.note = Plain
               \/ Now = WakeWrite
<1>1. ASSUME NEW id \in Rails, NEW mv \in MinMv(id)..MaxMv(id), VoltageStep(id, mv)
      PROVE  /\ Now.reg = Volt(id) /\ Written[Volt(id)] = VoltCode(id, mv)
             /\ \A other \in Rails \ {id} : Written[Volt(other)] = chip[Volt(other)]
  <2>1. Now.op = "put" /\ Now.reg = Volt(id) /\ Now.bits = VoltCode(id, mv)
    BY <1>1 DEF VoltageStep, VoltageWrite, PutNote, Step
  <2>2. Written = [chip EXCEPT ![Volt(id)] = VoltCode(id, mv)]
    BY <2>1, Names DEF Written
  <2>3. chip = [r \in Regs |-> chip[r]]
    BY DEF TypeInv
  <2>4. \A other \in Rails \ {id} : Volt(other) # Volt(id)
    BY DEF Volt
  <2> QED BY <2>1, <2>2, <2>3, <2>4, Names
<1>2. ASSUME Now.reg = Reg("PWR_CTRL") \/ Now.reg \in PlainRegs
      PROVE  \A id \in Rails : Now.reg # Volt(id) /\ Written[Volt(id)] = chip[Volt(id)]
  BY <1>2, WrittenIs, Names
<1>3. ASSUME NEW s \in 0..3, StateStep(s) PROVE Now.reg = Reg("PWR_CTRL")
  BY <1>3 DEF StateStep, StateWrite, PutNote, Step
<1>4. PlainWrite => Now.reg \in PlainRegs /\ Now.note = Plain
  BY DEF PlainWrite, PlainWrites, Step
<1>5. Now = WakeWrite => Now.reg \in PlainRegs
  BY Names DEF WakeWrite, Step
<1> QED BY <1>1, <1>2, <1>3, <1>4, <1>5, Kinds

\* What the code of a voltage is worth, up to where it fits the register and beyond.
LEMMA CodeIs ==
  ASSUME NEW id \in Rails, NEW mv \in MinMv(id)..MaxMv(id)
  PROVE  LET short == mv - MvOf(id, VoltCode(id, mv)) IN
         IF mv < MvOf(id, 256) THEN short \in 0..(StepMv(id) - 1)
         ELSE short >= 256 * StepMv(id)
<1>1. ASSUME NEW n \in Nat, NEW d \in {5, 50}
      PROVE  LET short == n - ((n \div d) % 256) * d IN
             IF n < 256 * d THEN short \in 0..(d - 1) ELSE short >= 256 * d
  <2>1. CASE d = 5
    BY <2>1
  <2>2. CASE d = 50
    BY <2>2
  <2> QED BY <2>1, <2>2
<1>2. mv - MinMv(id) \in Nat /\ StepMv(id) \in {5, 50} /\ MinMv(id) \in Nat
  BY DEF MinMv, MaxMv, StepMv
<1> DEFINE n == mv - MinMv(id)  d == StepMv(id)  q == (n \div d) % 256
<1>3. IF n < 256 * d THEN n - q * d \in 0..(d - 1) ELSE n - q * d >= 256 * d
  BY <1>1, <1>2
<1>4. mv - MvOf(id, VoltCode(id, mv)) = n - q * d /\ (mv < MvOf(id, 256) <=> n < 256 * d)
  <2>1. VoltCode(id, mv) = q
    BY DEF VoltCode
  <2>2. q \in Nat
    BY <1>2
  <2> HIDE DEF q
  <2>3. MvOf(id, q) = MinMv(id) + q * d /\ MvOf(id, 256) = MinMv(id) + 256 * d
    BY DEF MvOf
  <2> QED BY <1>2, <2>1, <2>2, <2>3 DEF n, d
<1> QED BY <1>3, <1>4

RailOnRecord(id) ==
  dev.mv[id] # 0 /\ Volt(id) \notin taken =>
    LET short == dev.mv[id] - MvOf(id, chip[Volt(id)]) IN
    IF dev.mv[id] < MvOf(id, 256) THEN short \in 0..(StepMv(id) - 1)
    ELSE short >= 256 * StepMv(id)

\* Each rail stays on record, whoever moves.
LEMMA VoltageNext ==
  ASSUME TypeInv, [Next]_vars, NEW id \in Rails, RailOnRecord(id)
  PROVE  RailOnRecord(id)'
<1>1. ASSUME UNCHANGED <<dev.mv[id], chip[Volt(id)]>>, taken \subseteq taken'
      PROVE  RailOnRecord(id)'
  BY <1>1 DEF RailOnRecord
<1>2. CASE Started
  BY <1>1, <1>2 DEF Started
<1>3. CASE Read
  <2>1. ~Idle /\ Note /\ chip' = chip /\ taken' = taken /\ Now.op = "get"
    BY <1>3 DEF Read
  <2>2. dev'.mv = dev.mv
    BY <2>1, Kinds, StatusNote, OtherNote
  <2> QED BY <1>1, <2>1, <2>2
<1>4. CASE Write
  <2>1. ~Idle /\ Note /\ Now.op \in WriteOps /\ chip' = Written /\ taken' = taken \ {Now.reg}
    BY <1>4 DEF Write, WriteOps
  <2>2. ASSUME NEW other \in Rails, NEW mv \in MinMv(other)..MaxMv(other),
               VoltageStep(other, mv), Now.reg = Volt(other),
               Written[Volt(other)] = VoltCode(other, mv),
               \A x \in Rails \ {other} : Written[Volt(x)] = chip[Volt(x)]
        PROVE  RailOnRecord(id)'
    <3>1. dev'.mv = [dev.mv EXCEPT ![other] = mv] /\ dev.mv \in [Rails -> Nat]
      BY <2>1, <2>2, VoltageNote DEF TypeInv, DevType
    <3>2. CASE id = other
      <4>1. dev'.mv[id] = mv /\ chip'[Volt(id)] = VoltCode(id, mv)
        BY <2>1, <2>2, <3>1, <3>2
      <4> QED BY <2>2, <3>2, <4>1, CodeIs DEF RailOnRecord
    <3>3. CASE id # other
      <4>1. dev'.mv[id] = dev.mv[id] /\ chip'[Volt(id)] = chip[Volt(id)]
        BY <2>1, <2>2, <3>1, <3>3
      <4>2. Volt(id) # Volt(other)
        BY <3>3 DEF Volt
      <4>3. Volt(id) \notin taken' => Volt(id) \notin taken
        BY <2>1, <2>2, <4>2
      <4> QED BY <4>1, <4>3 DEF RailOnRecord
    <3> QED BY <3>2, <3>3
  <2>3. ASSUME \A x \in Rails : Now.reg # Volt(x) /\ Written[Volt(x)] = chip[Volt(x)],
               (\E s \in 0..3 : StateStep(s)) \/ Now.note = Plain \/ Now = WakeWrite
        PROVE  RailOnRecord(id)'
    <3>1. dev'.mv = dev.mv
      BY <2>1, <2>3, StateNote, OtherNote, WakeNote
    <3>2. Volt(id) \notin taken' => Volt(id) \notin taken
      BY <2>1, <2>3
    <3> QED BY <2>1, <2>3, <3>1, <3>2 DEF RailOnRecord
  <2> QED BY <2>1, <2>2, <2>3, VoltageWritten
<1>5. CASE Fail
  <2>1. ~Idle /\ dev' = dev
    BY <1>5 DEF Fail
  <2>2. CASE UNCHANGED <<chip, taken, moved>>
    BY <1>1, <2>1, <2>2
  <2>3. CASE Now.op \in WriteOps /\ chip' = Written /\ taken' = taken \cup {Now.reg}
    <3>1. Volt(id) \in taken' \/ chip'[Volt(id)] = chip[Volt(id)]
      BY <2>1, <2>3, VoltageWritten
    <3> QED BY <2>1, <2>3, <3>1 DEF RailOnRecord
  <2> QED BY <1>5, <2>2, <2>3 DEF Fail, WriteOps
<1>6. CASE CheckRail
  BY <1>1, <1>6 DEF CheckRail
<1>7. CASE Local
  <2>1. ~Idle /\ chip' = chip /\ taken' = taken
    BY <1>7 DEF Local
  <2>2. dev'.mv = dev.mv
    BY <1>7, <2>1, Kinds, OtherNote DEF Local
  <2> QED BY <1>1, <2>1, <2>2
<1>8. CASE Reinit
  BY <1>8 DEF Reinit, NewRecord, RailOnRecord
<1>9. CASE Wake \/ Flag
  <2>1. dev' = dev /\ taken' = taken /\ chip'[Volt(id)] = chip[Volt(id)]
    BY <1>9, Names DEF Wake, Flag, TypeInv
  <2> QED BY <1>1, <2>1
<1>10. CASE UNCHANGED vars
  BY <1>1, <1>10 DEF vars
<1> QED BY <1>2, <1>3, <1>4, <1>5, <1>6, <1>7, <1>8, <1>9, <1>10, CallsStart DEF Next

\* The voltage on record is the chip's, to the step, as long as the code fits the register,
\* and at least 256 steps above it otherwise, for any sequence of calls and failures: only a
\* write reported failed can make it another.
THEOREM VoltageCorrect == Spec => []VoltageOnRecord
<1>1. VoltageOnRecord <=> \A id \in Rails : RailOnRecord(id)
  BY DEF VoltageOnRecord, RailOnRecord
<1>2. Init => VoltageOnRecord
  BY DEF Init, NewRecord, VoltageOnRecord
<1>3. TypeInv /\ VoltageOnRecord /\ [Next]_vars => VoltageOnRecord'
  <2>1. VoltageOnRecord' <=> \A id \in Rails : RailOnRecord(id)'
    BY DEF VoltageOnRecord, RailOnRecord
  <2> QED BY <1>1, <2>1, VoltageNext
<1> QED BY <1>2, <1>3, TypeCorrect, PTL DEF Spec

-----------------------------------------------------------------------------
\* So does the power state.
LEMMA StateNext ==
  ASSUME TypeInv, [Next]_vars, StateOnRecord
  PROVE  StateOnRecord'
<1>1. ASSUME dev'.state = dev.state, dev'.initialized => dev.initialized,
             chip'[Reg("PWR_STATUS")] = chip[Reg("PWR_STATUS")] \/ moved' = TRUE,
             source' = source, moved' = moved \/ moved' = TRUE
      PROVE  StateOnRecord'
  BY <1>1 DEF StateOnRecord, StatusOf
<1>2. CASE Started
  BY <1>1, <1>2 DEF Started
<1>3. CASE Read
  <2>1. ~Idle /\ Note /\ chip' = chip /\ Now.op = "get"
    BY <1>3 DEF Read
  <2>2. CASE Now.note \in {Plain, <<"identity">>}
    BY <1>1, <2>1, <2>2, OtherNote
  <2>3. CASE \/ Now = GetNote(Reg("PWR_STATUS"), <<"probed">>)
             \/ Now = GetNote(Reg("PWR_STATUS"), <<"status">>)
    <3>1. dev'.state = chip[Reg("PWR_STATUS")] /\ source' = "asked"
      BY <2>1, <2>3, StatusNote
    <3> QED BY <2>1, <3>1 DEF StateOnRecord
  <2> QED BY <2>1, <2>2, <2>3, Kinds
<1>4. ASSUME ~Idle, Now.op \in WriteOps
      PROVE  \/ \E s \in 0..3 : StateStep(s) /\ Now.reg[1] = "PWR_CTRL"
                                /\ Written[Reg("PWR_STATUS")] = StatusOf(s)
             \/ /\ Written[Reg("PWR_STATUS")] = chip[Reg("PWR_STATUS")] /\ Now.reg[1] # "PWR_CTRL"
                /\ \/ \E id \in Rails : \E mv \in MinMv(id)..MaxMv(id) : VoltageStep(id, mv)
                   \/ Now.note = Plain
                   \/ Now = WakeWrite
  <2>1. ASSUME NEW s \in 0..3, StateStep(s)
        PROVE  Now.reg[1] = "PWR_CTRL" /\ Written[Reg("PWR_STATUS")] = StatusOf(s)
    <3>1. Now.op = "put" /\ Now.reg = Reg("PWR_CTRL") /\ Now.bits = s
      BY <2>1 DEF StateStep, StateWrite, PutNote, Step
    <3>2. Written = [chip EXCEPT ![Reg("PWR_CTRL")] = s, ![Reg("PWR_STATUS")] = StatusOf(s)]
      BY <3>1 DEF Written, Reg
    <3>3. chip = [r \in Regs |-> chip[r]]
      BY DEF TypeInv
    <3> QED BY <3>1, <3>2, <3>3, Names DEF Reg
  <2>2. ASSUME NEW id \in Rails, NEW mv, VoltageStep(id, mv)
        PROVE  Now.reg # Reg("PWR_STATUS") /\ Now.reg[1] # "PWR_CTRL"
    BY <2>2, Names DEF VoltageStep, VoltageWrite, PutNote, Step
  <2>3. PlainWrite => Now.reg # Reg("PWR_STATUS") /\ Now.reg[1] # "PWR_CTRL" /\ Now.note = Plain
    BY Names DEF PlainWrite, PlainWrites, Step
  <2>4. Now = WakeWrite => Now.reg # Reg("PWR_STATUS") /\ Now.reg[1] # "PWR_CTRL"
    BY Names DEF WakeWrite, Step
  <2> QED BY <1>4, <2>1, <2>2, <2>3, <2>4, WrittenIs, Kinds, Names
<1>5. CASE Write
  <2>1. ~Idle /\ Note /\ Now.op \in WriteOps /\ chip' = Written
    BY <1>5 DEF Write, WriteOps
  <2>2. ASSUME NEW s \in 0..3, StateStep(s), Written[Reg("PWR_STATUS")] = StatusOf(s)
        PROVE  StateOnRecord'
    <3>1. dev'.state = s /\ source' = "told" /\ moved' = FALSE
      BY <2>1, <2>2, StateNote
    <3> QED BY <2>1, <2>2, <3>1 DEF StateOnRecord, StatusOf
  <2>3. CASE Now = WakeWrite
    <3>1. dev'.state = ACTIVE /\ source' = "assumed"
      BY <2>1, <2>3, WakeNote
    <3> QED BY <3>1 DEF StateOnRecord
  <2>4. ASSUME NEW id \in Rails, NEW mv \in MinMv(id)..MaxMv(id), VoltageStep(id, mv),
               Written[Reg("PWR_STATUS")] = chip[Reg("PWR_STATUS")]
        PROVE  StateOnRecord'
    BY <1>1, <2>1, <2>4, VoltageNote
  <2>5. CASE Now.note = Plain /\ Written[Reg("PWR_STATUS")] = chip[Reg("PWR_STATUS")]
    BY <1>1, <2>1, <2>5, OtherNote
  <2> QED BY <1>4, <2>1, <2>2, <2>3, <2>4, <2>5
<1>6. CASE Fail
  <2>1. ~Idle /\ dev' = dev /\ source' = source
    BY <1>6 DEF Fail
  <2>2. CASE UNCHANGED <<chip, taken, moved>>
    BY <1>1, <2>1, <2>2
  <2>3. CASE Now.op \in WriteOps /\ chip' = Written /\ moved' = (moved \/ Now.reg[1] = "PWR_CTRL")
    <3>1. CASE Now.reg[1] = "PWR_CTRL"
      <4>1. moved' = TRUE
        BY <2>3, <3>1
      <4> QED BY <1>1, <2>1, <4>1
    <3>2. CASE Now.reg[1] # "PWR_CTRL"
      <4>1. chip'[Reg("PWR_STATUS")] = chip[Reg("PWR_STATUS")]
        BY <1>4, <2>1, <2>3, <3>2
      <4>2. moved' => moved
        BY <2>3, <3>2
      <4>3. moved => moved'
        BY <2>3
      <4> QED BY <2>1, <4>1, <4>2, <4>3 DEF StateOnRecord, StatusOf
    <3> QED BY <3>1, <3>2
  <2> QED BY <1>6, <2>2, <2>3 DEF Fail, WriteOps
<1>7. CASE CheckRail
  BY <1>1, <1>7 DEF CheckRail
<1>8. CASE Local
  <2>1. ~Idle /\ chip' = chip
    BY <1>8 DEF Local
  <2>2. CASE UNCHANGED <<dev, source, moved>>
    BY <1>1, <2>1, <2>2
  <2>3. CASE Now.op = "record" /\ Note
    BY <1>1, <2>1, <2>3, Kinds, OtherNote
  <2> QED BY <1>8, <2>2, <2>3 DEF Local
<1>9. CASE Reinit
  BY <1>9 DEF Reinit, NewRecord, StateOnRecord
<1>10. CASE Wake
  BY <1>1, <1>10 DEF Wake
<1>11. CASE Flag
  <2>1. chip'[Reg("PWR_STATUS")] = chip[Reg("PWR_STATUS")]
    BY <1>11, Names DEF Flag, TypeInv
  <2> QED BY <1>1, <1>11, <2>1 DEF Flag
<1>12. CASE UNCHANGED vars
  BY <1>1, <1>12 DEF vars
<1> QED BY <1>2, <1>3, <1>5, <1>6, <1>7, <1>8, <1>9, <1>10, <1>11, <1>12, CallsStart DEF Next

\* Whatever is called, fails, wakes or is initialized again, the state on record is the
\* chip's, by the command or by the report it came from, until the chip moves by itself.
THEOREM StateCorrect == Spec => []StateOnRecord
<1>1. Init => StateOnRecord
  BY DEF Init, NewRecord, StateOnRecord
<1> QED BY <1>1, StateNext, TypeCorrect, PTL DEF Spec

-----------------------------------------------------------------------------
\* Where enter_sleep, exit_sleep and esm_reset can be, and what the chip then holds.
SleepInv ==
  /\ call.name = "enter_sleep" =>
       \/ Idle
       \/ call.todo = <<Must(EnterSleep)>>
       \/ call.todo = <<Must(<<Set(Reg("SLEEP_CONF"), {0}), StateWrite(STANDBY)>>)>>
          /\ val = chip[Reg("SLEEP_CONF")]
       \/ call.todo = <<Must(<<StateWrite(STANDBY)>>)>> /\ 0 \in chip[Reg("SLEEP_CONF")]
  /\ call.name = "exit_sleep" =>
       \/ Idle
       \/ call.todo = <<Must(ExitSleep)>>
       \/ call.todo = <<Must(<<WakeWrite>>)>> /\ val = chip[Reg("SLEEP_CONF")]
  /\ call.name = "esm_reset" =>
       \/ Idle
       \/ call.todo = <<Must(EsmReset)>>
       \/ call.todo = <<Must(<<Set(Reg("ESM_STATUS"), {})>>)>>

\* A program of one call that must succeed.
LEMMA Single ==
  ASSUME TypeInv, NEW steps \in Seq(Steps) \ {<<>>}, call.todo = <<Must(steps)>>
  PROVE  /\ ~Idle /\ Now = steps[1]
         /\ Rest = IF Len(steps) = 1 THEN <<>> ELSE <<Must(Tail(steps))>>
         /\ \A error : GiveUp(error) => call'.todo = <<>>
<1>1. ~Idle /\ Head(call.todo) = Must(steps) /\ Tail(call.todo) = <<>>
  BY DEF Idle
<1>2. Now = steps[1]
  BY <1>1 DEF Now, Must
<1>4. Rest = IF Len(steps) = 1 THEN <<>> ELSE <<Must(Tail(steps))>>
  <2>1. Head(call.todo).must = TRUE /\ Head(call.todo).steps = steps
    BY <1>1 DEF Must
  <2>2. CASE Len(steps) = 1
    <3>1. Rest = <<>> \o <<>>
      BY <1>1, <2>1, <2>2 DEF Rest
    <3> QED BY <2>2, <3>1
  <2>3. CASE Len(steps) # 1
    <3>1. Rest = <<Must(Tail(steps))>> \o <<>>
      BY <1>1, <2>1, <2>3 DEF Rest, Must
    <3> QED BY <2>3, <3>1
  <2> QED BY <2>2, <2>3
<1>5. ASSUME NEW error, GiveUp(error) PROVE call'.todo = <<>>
  <2>1. call' = [call EXCEPT !.todo = <<>>, !.ret = error]
    BY <1>1, <1>5 DEF GiveUp, Must
  <2>2. call = [name |-> call.name, arg |-> call.arg, todo |-> call.todo, ret |-> call.ret]
    BY DEF TypeInv
  <2> QED BY <2>1, <2>2
<1> QED BY <1>1, <1>2, <1>4, <1>5

\* What a step that reads, or writes, or is refused does to such a program.
LEMMA SingleStep ==
  ASSUME TypeInv, [Next]_vars, NEW steps \in Seq(Steps) \ {<<>>}, call.todo = <<Must(steps)>>,
         steps[1].op \in WriteOps \cup {"get"}, steps[1].note[1] # "identity"
  PROVE  \/ call' = call /\ val' = val /\ (Wake \/ Flag \/ UNCHANGED vars)
         \/ call'.name = call.name /\ call'.todo = <<>> /\ chip' = chip /\ val' = val
         \/ call'.name = call.name /\ call'.todo = <<>> /\ val' = val /\ steps[1].op \in WriteOps
            /\ chip' = Written
         \/ /\ call'.name = call.name
            /\ call'.todo = IF Len(steps) = 1 THEN <<>> ELSE <<Must(Tail(steps))>>
            /\ IF steps[1].op = "get"
               THEN chip' = chip /\ val' = IF steps[1].reg[1] \in BitRegs \cup {"CONF"}
                                           THEN chip[steps[1].reg] ELSE val
               ELSE chip' = Written /\ val' = val
<1>1. /\ ~Idle /\ Now = steps[1]
      /\ Rest = IF Len(steps) = 1 THEN <<>> ELSE <<Must(Tail(steps))>>
      /\ \A error : GiveUp(error) => call'.todo = <<>>
  BY Single
<1>2. /\ ~Started /\ ~CheckRail /\ ~Local /\ ~Reinit
  BY <1>1 DEF Started, CheckRail, Local, Reinit, WriteOps
<1>3. Proceed => call'.name = call.name /\ call'.todo = Rest
  BY DEF Proceed, TypeInv
<1>4. "NOCOMM" \in Results
  BY DEF Results
<1>5. CASE Read
  <2>1. /\ Now.op = "get" /\ Proceed /\ chip' = chip
        /\ val' = IF Now.reg[1] \in BitRegs \cup {"CONF"} THEN chip[Now.reg] ELSE val
    BY <1>1, <1>5 DEF Read
  <2> QED BY <1>1, <1>3, <2>1
<1>6. CASE Write
  <2>1. Now.op # "get" /\ Proceed /\ chip' = Written /\ val' = val
    BY <1>6 DEF Write
  <2> QED BY <1>1, <1>3, <2>1
<1>7. CASE Fail
  <2>1. GiveUp("NOCOMM") /\ val' = val /\ (chip' = chip \/ (Now.op # "get" /\ chip' = Written))
    BY <1>7 DEF Fail
  <2>2. call'.todo = <<>>
    BY <1>1, <2>1
  <2>3. call'.name = call.name
    BY <1>1, <1>4, <2>1, CallGoesOn
  <2>4. Now.op # "get" => steps[1].op \in WriteOps
    BY <1>1
  <2> QED BY <2>1, <2>2, <2>3, <2>4
<1>8. CASE Wake \/ Flag \/ UNCHANGED vars
  BY <1>8 DEF Wake, Flag, vars
<1> QED BY <1>2, <1>5, <1>6, <1>7, <1>8, CallsStart DEF Next

\* The programs of the two sleep calls and of the reset, from each of their steps on.
LEMMA SleepPrograms ==
  /\ EnterSleep \in Seq(Steps) \ {<<>>} /\ EnterSleep[1] = Get(Reg("SLEEP_CONF"))
  /\ Len(EnterSleep) # 1
  /\ Tail(EnterSleep) = <<Set(Reg("SLEEP_CONF"), {0}), StateWrite(STANDBY)>>
  /\ <<Set(Reg("SLEEP_CONF"), {0}), StateWrite(STANDBY)>> \in Seq(Steps) \ {<<>>}
  /\ Tail(<<Set(Reg("SLEEP_CONF"), {0}), StateWrite(STANDBY)>>) = <<StateWrite(STANDBY)>>
  /\ <<StateWrite(STANDBY)>> \in Seq(Steps) \ {<<>>}
  /\ ExitSleep \in Seq(Steps) \ {<<>>} /\ ExitSleep[1] = Get(Reg("SLEEP_CONF"))
  /\ Len(ExitSleep) # 1 /\ Tail(ExitSleep) = <<WakeWrite>>
  /\ <<WakeWrite>> \in Seq(Steps) \ {<<>>}
  /\ EsmReset \in Seq(Steps) \ {<<>>} /\ EsmReset[1] = Get(Reg("ESM_STATUS"))
  /\ Len(EsmReset) # 1 /\ Tail(EsmReset) = <<Set(Reg("ESM_STATUS"), {})>>
  /\ <<Set(Reg("ESM_STATUS"), {})>> \in Seq(Steps) \ {<<>>}
<1>1. /\ "SLEEP_CONF" \in BitRegs /\ "ESM_STATUS" \in BitRegs /\ {} \in AnyBits /\ {0} \in AnyBits
  BY DEF BitRegs, AnyBits
<1>2. /\ Get(Reg("SLEEP_CONF")) \in Steps /\ Set(Reg("SLEEP_CONF"), {0}) \in Steps
      /\ Get(Reg("ESM_STATUS")) \in Steps /\ Set(Reg("ESM_STATUS"), {}) \in Steps
  BY <1>1, NamePlain, WritesAreSteps, ReadsAreSteps
<1>3. StateWrite(STANDBY) \in Steps /\ WakeWrite \in Steps
  BY DEF Steps, StateWrites, STANDBY, ACTIVE, SHUTDOWN
<1>4. ASSUME NEW s \in Steps, NEW t \in Steps
      PROVE  Tail(<<s, t>>) = <<t>> /\ Len(<<s, t>>) = 2 /\ <<s, t>>[1] = s
  OBVIOUS
<1>5. ASSUME NEW s \in Steps, NEW t \in Steps, NEW u \in Steps
      PROVE  Tail(<<s, t, u>>) = <<t, u>> /\ Len(<<s, t, u>>) = 3 /\ <<s, t, u>>[1] = s
  OBVIOUS
<1>6. EsmReset = <<Get(Reg("ESM_STATUS")), Set(Reg("ESM_STATUS"), {})>>
  BY DEF EsmReset
<1> QED BY <1>2, <1>3, <1>4, <1>5, <1>6, SleepIs, EsmIs, OneStep, TwoSteps

\* What the writes among them leave in the chip.
LEMMA SleepWrites ==
  ASSUME TypeInv
  PROVE  /\ Now = Set(Reg("SLEEP_CONF"), {0}) =>
              Written[Reg("SLEEP_CONF")] = val \cup {0}
              /\ Written[Reg("PWR_CTRL")] = chip[Reg("PWR_CTRL")]
         /\ Now = StateWrite(STANDBY) => Written[Reg("SLEEP_CONF")] = chip[Reg("SLEEP_CONF")]
         /\ Now = WakeWrite =>
              Written[Reg("SLEEP_CONF")] = val \ {0}
              /\ Written[Reg("PWR_CTRL")] = chip[Reg("PWR_CTRL")]
         /\ Now = Set(Reg("ESM_STATUS"), {}) =>
              Written[Reg("ESM_STATUS")] = chip[Reg("ESM_STATUS")] \ val
<1>1. chip = [r \in Regs |-> chip[r]]
  BY DEF TypeInv
<1>2. /\ Reg("SLEEP_CONF") \in Regs /\ Reg("ESM_STATUS") \in Regs /\ Reg("PWR_CTRL") \in Regs
      /\ Reg("SLEEP_CONF") # Reg("PWR_CTRL") /\ Reg("SLEEP_CONF") # Reg("PWR_STATUS")
  BY DEF Reg, Regs, BitRegs, Numbers
<1>3. CASE Now = Set(Reg("SLEEP_CONF"), {0})
  <2>1. Now.op = "set" /\ Now.reg = Reg("SLEEP_CONF") /\ Now.bits = {0}
    BY <1>3 DEF Set, Step
  <2>2. Written = [chip EXCEPT ![Reg("SLEEP_CONF")] = val \cup {0}]
    BY <2>1 DEF Written, Reg
  <2> QED BY <1>1, <1>2, <1>3, <2>2 DEF Set, StateWrite, PutNote, WakeWrite, Step, Reg
<1>4. CASE Now = StateWrite(STANDBY)
  <2>1. Now.op = "put" /\ Now.reg = Reg("PWR_CTRL") /\ Now.bits = STANDBY
    BY <1>4 DEF StateWrite, PutNote, Step
  <2>2. Written = [chip EXCEPT ![Reg("PWR_CTRL")] = STANDBY, ![Reg("PWR_STATUS")] = StatusOf(STANDBY)]
    BY <2>1 DEF Written, Reg
  <2> QED BY <1>1, <1>2, <1>4, <2>2 DEF Set, StateWrite, PutNote, WakeWrite, Step, Reg
<1>5. CASE Now = WakeWrite
  <2>1. Now.op = "clear" /\ Now.reg = Reg("SLEEP_CONF") /\ Now.bits = {0}
    BY <1>5 DEF WakeWrite, Step
  <2>2. Written = [chip EXCEPT ![Reg("SLEEP_CONF")] = val \ {0}]
    BY <2>1 DEF Written, Reg
  <2> QED BY <1>1, <1>2, <1>5, <2>2 DEF Set, StateWrite, PutNote, WakeWrite, Step, Reg
<1>6. CASE Now = Set(Reg("ESM_STATUS"), {})
  <2>1. Now.op = "set" /\ Now.reg = Reg("ESM_STATUS") /\ Now.bits = {}
    BY <1>6 DEF Set, Step
  <2>2. Written = [chip EXCEPT ![Reg("ESM_STATUS")] = @ \ (val \cup {})]
    BY <2>1 DEF Written, Reg
  <2> QED BY <1>1, <1>2, <1>6, <2>2 DEF Set, StateWrite, PutNote, WakeWrite, Step, Reg
<1> QED BY <1>3, <1>4, <1>5, <1>6

\* What each of the three calls does in one step, wherever it is.
SleepStep ==
  /\ chip'[Reg("SLEEP_CONF")] \ {0} = chip[Reg("SLEEP_CONF")] \ {0}
  /\ chip'[Reg("PWR_CTRL")] # chip[Reg("PWR_CTRL")] => 0 \in chip[Reg("SLEEP_CONF")]
EsmStep == chip[Reg("ESM_STATUS")] \ val \subseteq chip'[Reg("ESM_STATUS")]

\* What the chip does by itself leaves the sleep and power registers alone.
LEMMA ByItself ==
  ASSUME TypeInv, Wake \/ Flag \/ UNCHANGED vars
  PROVE  /\ chip'[Reg("SLEEP_CONF")] = chip[Reg("SLEEP_CONF")]
         /\ chip'[Reg("PWR_CTRL")] = chip[Reg("PWR_CTRL")]
         /\ EsmStep
<1>1. chip = [r \in Regs |-> chip[r]]
  BY DEF TypeInv
<1>2. /\ Reg("SLEEP_CONF") \in Regs /\ Reg("ESM_STATUS") \in Regs /\ Reg("PWR_CTRL") \in Regs
      /\ Reg("SLEEP_CONF") # Reg("ESM_STATUS") /\ Reg("SLEEP_CONF") # Reg("PWR_STATUS")
      /\ Reg("PWR_CTRL") # Reg("ESM_STATUS") /\ Reg("PWR_CTRL") # Reg("PWR_STATUS")
      /\ Reg("ESM_STATUS") # Reg("PWR_STATUS")
  BY DEF Reg, Regs, BitRegs, Numbers
<1>3. CASE Wake
  BY <1>1, <1>2, <1>3 DEF Wake, EsmStep
<1>4. CASE Flag
  BY <1>1, <1>2, <1>4 DEF Flag, EsmStep
<1>5. CASE UNCHANGED vars
  BY <1>5 DEF vars, EsmStep
<1> QED BY <1>3, <1>4, <1>5

\* Each step of the three calls is the one the order of sleep allows.
LEMMA SleepSteps ==
  ASSUME TypeInv, SleepInv, [Next]_vars, ~Idle
  PROVE  /\ call.name = "enter_sleep" => SleepStep /\ SleepInv'
         /\ call.name = "exit_sleep" => SleepStep /\ SleepInv'
         /\ call.name = "esm_reset" => EsmStep /\ SleepInv'
<1> DEFINE set == Set(Reg("SLEEP_CONF"), {0})  stby == StateWrite(STANDBY)
           reset == Set(Reg("ESM_STATUS"), {})
<1>1. /\ set.op = "set" /\ set.note[1] # "identity" /\ stby.op = "put" /\ stby.note[1] # "identity"
      /\ reset.op = "set" /\ reset.note[1] # "identity"
      /\ WakeWrite.op = "clear" /\ WakeWrite.note[1] # "identity"
  BY DEF Set, StateWrite, PutNote, WakeWrite, Plain, Step
<1>2. /\ Get(Reg("SLEEP_CONF")).op = "get" /\ Get(Reg("SLEEP_CONF")).note[1] # "identity"
      /\ Get(Reg("SLEEP_CONF")).reg = Reg("SLEEP_CONF") /\ Reg("SLEEP_CONF")[1] \in BitRegs
      /\ Get(Reg("ESM_STATUS")).op = "get" /\ Get(Reg("ESM_STATUS")).note[1] # "identity"
  BY DEF Get, Plain, Step, Reg, BitRegs
<1>3. \A n \in {"enter_sleep", "exit_sleep", "esm_reset"} :
        call'.name = n /\ call'.todo = <<>> => SleepInv'
  BY DEF SleepInv, Idle
<1>4. ASSUME call' = call, val' = val, Wake \/ Flag \/ UNCHANGED vars
      PROVE  SleepStep /\ EsmStep /\ SleepInv'
  <2>1. SleepStep /\ EsmStep
    BY <1>4, ByItself DEF SleepStep
  <2>2. chip'[Reg("SLEEP_CONF")] = chip[Reg("SLEEP_CONF")]
    BY <1>4, ByItself
  <2> QED BY <1>4, <2>1, <2>2 DEF SleepInv, Idle
<1>5. ASSUME chip' = chip PROVE SleepStep /\ EsmStep
  BY <1>5 DEF SleepStep, EsmStep
<1>6. ~(Must(EnterSleep) = <<>>) /\ WriteOps = {"put", "set", "clear", "toggle"}
  BY DEF Must, WriteOps
<1> HIDE DEF set, stby, reset
<1>11. ASSUME call.name = "enter_sleep", call.todo = <<Must(EnterSleep)>>
       PROVE  SleepStep /\ SleepInv'
  <2>1. \/ call' = call /\ val' = val /\ (Wake \/ Flag \/ UNCHANGED vars)
        \/ call'.name = call.name /\ call'.todo = <<>> /\ chip' = chip
        \/ /\ call'.name = call.name /\ call'.todo = <<Must(Tail(EnterSleep))>>
           /\ chip' = chip /\ val' = chip[Reg("SLEEP_CONF")]
    BY <1>2, <1>11, SleepPrograms, SingleStep DEF WriteOps
  <2>2. ASSUME call'.name = call.name, call'.todo = <<Must(Tail(EnterSleep))>>,
               chip' = chip, val' = chip[Reg("SLEEP_CONF")]
        PROVE  SleepInv'
    BY <1>11, <2>2, SleepPrograms DEF SleepInv
  <2> QED BY <1>3, <1>4, <1>5, <1>11, <2>1, <2>2
<1>12. ASSUME call.name = "enter_sleep", call.todo = <<Must(<<set, stby>>)>>,
              val = chip[Reg("SLEEP_CONF")]
       PROVE  SleepStep /\ SleepInv'
  <2>1. <<set, stby>> \in Seq(Steps) \ {<<>>} /\ Tail(<<set, stby>>) = <<stby>>
        /\ <<set, stby>>[1] = set /\ Len(<<set, stby>>) = 2
    BY SleepPrograms DEF set, stby
  <2>2. \/ call' = call /\ val' = val /\ (Wake \/ Flag \/ UNCHANGED vars)
        \/ call'.name = call.name /\ call'.todo = <<>> /\ (chip' = chip \/ chip' = Written)
        \/ call'.name = call.name /\ call'.todo = <<Must(<<stby>>)>> /\ chip' = Written
    BY <1>1, <1>6, <1>12, <2>1, SingleStep
  <2>3. Now = set
    BY <1>12, <2>1, Single
  <2>4. Written[Reg("SLEEP_CONF")] = chip[Reg("SLEEP_CONF")] \cup {0}
        /\ Written[Reg("PWR_CTRL")] = chip[Reg("PWR_CTRL")]
    BY <1>12, <2>3, SleepWrites DEF set
  <2>5. chip' = Written => SleepStep
    BY <2>4 DEF SleepStep
  <2>6. ASSUME call'.name = call.name, call'.todo = <<Must(<<stby>>)>>, chip' = Written
        PROVE  SleepInv'
    BY <1>12, <2>4, <2>6 DEF SleepInv, stby
  <2> QED BY <1>3, <1>4, <1>5, <1>12, <2>2, <2>5, <2>6
<1>13. ASSUME call.name = "enter_sleep", call.todo = <<Must(<<stby>>)>>,
              0 \in chip[Reg("SLEEP_CONF")]
       PROVE  SleepStep /\ SleepInv'
  <2>1. <<stby>> \in Seq(Steps) \ {<<>>} /\ <<stby>>[1] = stby /\ Len(<<stby>>) = 1
    BY SleepPrograms DEF stby
  <2>2. \/ call' = call /\ val' = val /\ (Wake \/ Flag \/ UNCHANGED vars)
        \/ call'.name = call.name /\ call'.todo = <<>> /\ (chip' = chip \/ chip' = Written)
    BY <1>1, <1>6, <1>13, <2>1, SingleStep
  <2>3. Now = stby
    BY <1>13, <2>1, Single
  <2>4. Written[Reg("SLEEP_CONF")] = chip[Reg("SLEEP_CONF")]
    BY <2>3, SleepWrites DEF stby
  <2>5. chip' = Written => SleepStep
    BY <1>13, <2>4 DEF SleepStep
  <2> QED BY <1>3, <1>4, <1>5, <1>13, <2>2, <2>5
<1>14. ASSUME call.name = "exit_sleep", call.todo = <<Must(ExitSleep)>>
       PROVE  SleepStep /\ SleepInv'
  <2>1. \/ call' = call /\ val' = val /\ (Wake \/ Flag \/ UNCHANGED vars)
        \/ call'.name = call.name /\ call'.todo = <<>> /\ chip' = chip
        \/ /\ call'.name = call.name /\ call'.todo = <<Must(Tail(ExitSleep))>>
           /\ chip' = chip /\ val' = chip[Reg("SLEEP_CONF")]
    BY <1>2, <1>14, SleepPrograms, SingleStep DEF WriteOps
  <2>2. ASSUME call'.name = call.name, call'.todo = <<Must(Tail(ExitSleep))>>,
               chip' = chip, val' = chip[Reg("SLEEP_CONF")]
        PROVE  SleepInv'
    BY <1>14, <2>2, SleepPrograms DEF SleepInv
  <2> QED BY <1>3, <1>4, <1>5, <1>14, <2>1, <2>2
<1>15. ASSUME call.name = "exit_sleep", call.todo = <<Must(<<WakeWrite>>)>>,
              val = chip[Reg("SLEEP_CONF")]
       PROVE  SleepStep /\ SleepInv'
  <2>1. <<WakeWrite>> \in Seq(Steps) \ {<<>>} /\ <<WakeWrite>>[1] = WakeWrite
        /\ Len(<<WakeWrite>>) = 1
    BY SleepPrograms
  <2>2. \/ call' = call /\ val' = val /\ (Wake \/ Flag \/ UNCHANGED vars)
        \/ call'.name = call.name /\ call'.todo = <<>> /\ (chip' = chip \/ chip' = Written)
    BY <1>1, <1>6, <1>15, <2>1, SingleStep
  <2>3. Now = WakeWrite
    BY <1>15, <2>1, Single
  <2>4. Written[Reg("SLEEP_CONF")] = chip[Reg("SLEEP_CONF")] \ {0}
        /\ Written[Reg("PWR_CTRL")] = chip[Reg("PWR_CTRL")]
    BY <1>15, <2>3, SleepWrites
  <2>5. chip' = Written => SleepStep
    BY <2>4 DEF SleepStep
  <2> QED BY <1>3, <1>4, <1>5, <1>15, <2>2, <2>5
<1>16. ASSUME call.name = "esm_reset", call.todo = <<Must(EsmReset)>>
       PROVE  EsmStep /\ SleepInv'
  <2>1. \/ call' = call /\ val' = val /\ (Wake \/ Flag \/ UNCHANGED vars)
        \/ call'.name = call.name /\ call'.todo = <<>> /\ chip' = chip
        \/ call'.name = call.name /\ call'.todo = <<Must(Tail(EsmReset))>> /\ chip' = chip
    BY <1>2, <1>16, SleepPrograms, SingleStep DEF WriteOps
  <2>2. ASSUME call'.name = call.name, call'.todo = <<Must(Tail(EsmReset))>>
        PROVE  SleepInv'
    BY <1>16, <2>2, SleepPrograms DEF SleepInv
  <2> QED BY <1>3, <1>4, <1>5, <1>16, <2>1, <2>2
<1>17. ASSUME call.name = "esm_reset", call.todo = <<Must(<<reset>>)>>
       PROVE  EsmStep /\ SleepInv'
  <2>1. <<reset>> \in Seq(Steps) \ {<<>>} /\ <<reset>>[1] = reset /\ Len(<<reset>>) = 1
    BY SleepPrograms DEF reset
  <2>2. \/ call' = call /\ val' = val /\ (Wake \/ Flag \/ UNCHANGED vars)
        \/ call'.name = call.name /\ call'.todo = <<>> /\ (chip' = chip \/ chip' = Written)
    BY <1>1, <1>6, <1>17, <2>1, SingleStep
  <2>3. Now = reset
    BY <1>17, <2>1, Single
  <2>4. Written[Reg("ESM_STATUS")] = chip[Reg("ESM_STATUS")] \ val
    BY <2>3, SleepWrites DEF reset
  <2>5. chip' = Written => EsmStep
    BY <2>4 DEF EsmStep
  <2> QED BY <1>3, <1>4, <1>5, <1>17, <2>2, <2>5
<1> QED
  BY <1>11, <1>12, <1>13, <1>14, <1>15, <1>16, <1>17 DEF SleepInv, set, stby, reset

LEMMA SleepNext == TypeInv /\ SleepInv /\ [Next]_vars => SleepInv'
<1> SUFFICES ASSUME TypeInv, SleepInv, [Next]_vars PROVE SleepInv'
  OBVIOUS
<1>1. CASE Started
  BY <1>1 DEF Started, SleepInv
<1>2. CASE Idle /\ ~Started
  <2>1. call' = call
    BY <1>2, CallsStart
       DEF Next, vars, Read, Write, Fail, CheckRail, Local, Reinit, Wake, Flag
  <2> QED BY <1>2, <2>1 DEF SleepInv, Idle
<1>3. CASE ~Idle
  <2>1. CASE call.name \in {"enter_sleep", "exit_sleep", "esm_reset"}
    BY <1>3, <2>1, SleepSteps
  <2>2. CASE call.name \notin {"enter_sleep", "exit_sleep", "esm_reset"}
    <3>1. call'.name = call.name
      <4>1. "NOMATCH" \in Results /\ "NOCOMM" \in Results /\ "INVAL" \in Results
        BY DEF Results
      <4>2. ASSUME NEW error \in Results, Proceed \/ GiveUp(error) PROVE call'.name = call.name
        BY <1>3, <4>2, CallGoesOn
      <4>3. ASSUME call' = [call EXCEPT !.todo = <<>>, !.ret = "FAULT"]
            PROVE  call'.name = call.name
        BY <4>3 DEF TypeInv
      <4>4. Read \/ Write \/ Fail \/ Local => call'.name = call.name
        BY <4>1, <4>2 DEF Read, Write, Fail, Local
      <4>5. CheckRail => call'.name = call.name
        BY <4>1, <4>2, <4>3 DEF CheckRail
      <4>6. Wake \/ Flag \/ UNCHANGED vars => call'.name = call.name
        BY DEF Wake, Flag, vars
      <4>7. ~Started /\ ~Reinit
        BY <1>3 DEF Started, Reinit
      <4> QED BY <4>4, <4>5, <4>6, <4>7, CallsStart DEF Next
    <3> QED BY <2>2, <3>1 DEF SleepInv
  <2> QED BY <2>1, <2>2
<1> QED BY <1>1, <1>2, <1>3

LEMMA SleepCorrect == Spec => [](TypeInv /\ SleepInv)
<1>1. Init => SleepInv
  BY DEF Init, SleepInv, Idle
<1> QED BY <1>1, TypeInit, TypeNext, SleepNext, PTL DEF Spec

\* Whatever fails, the chip is sent to standby with sleep enabled, and the rails kept in
\* sleep stay as configured.
THEOREM SleepOrdered == Spec => SleepInOrder
<1>1. TypeInv /\ SleepInv /\ [Next]_vars =>
        [call.name \in {"enter_sleep", "exit_sleep"} /\ ~Idle =>
           /\ chip'[Reg("SLEEP_CONF")] \ {0} = chip[Reg("SLEEP_CONF")] \ {0}
           /\ chip'[Reg("PWR_CTRL")] # chip[Reg("PWR_CTRL")] => 0 \in chip[Reg("SLEEP_CONF")]]_vars
  BY SleepSteps DEF SleepStep
<1> QED BY <1>1, SleepCorrect, PTL DEF Spec, SleepInOrder

\* An error flagged while the reset runs is not cleared by it, wherever it is and whatever
\* it has read.
THEOREM FreshErrors == Spec => FreshErrorKept
<1>1. TypeInv /\ SleepInv /\ [Next]_vars =>
        [call.name = "esm_reset" /\ ~Idle =>
           chip[Reg("ESM_STATUS")] \ val \subseteq chip'[Reg("ESM_STATUS")]]_vars
  BY SleepSteps DEF EsmStep
<1> QED BY <1>1, SleepCorrect, PTL DEF Spec, FreshErrorKept

-----------------------------------------------------------------------------
\* Where a boot is: the calls it has made, and the table's row it is at, of which the
\* first of two transfers may be over.
Made == BootLen(call.arg) - Len(call.todo)
AtRow(c, row) ==
  \/ c = row
  \/ c.must = row.must /\ Len(row.steps) = 2 /\ c.steps = Tail(row.steps)

BootPlace ==
  /\ Made >= 0
  /\ \A i \in 2..Len(call.todo) : call.todo[i] = BootCall(call.arg, Made + i)
  /\ ~Idle => AtRow(call.todo[1], BootCall(call.arg, Made + 1))

\* What a boot that has not failed has done: a BUCK that was looked at is on, or could not
\* be looked at; the BUCKs that its configuration enables are on, and of those that it
\* has enabled itself all that it could; without failures its watchdog is set.
EnabledBy(c, b) == c.rails[b + 1].enable

BootDone ==
  LET e == SetLast(call.arg) IN
  /\ \A b \in Bucks : Made >= e + 10 + b => On(b) \/ b \in unseen
  /\ \A b \in Bucks : Made >= 2 * b + 2 /\ EnabledBy(call.arg, b) => On(b)
  /\ \A j \in 1..5 : Made >= e + j => On(BootOrder[j]) \/ BootOrder[j] \in missed
  /\ faults = 0 /\ Made >= e + 19 =>
       chip[Reg("WDOG_RESPONSE")] = WatchdogTime(call.arg.timeout)

BootInv ==
  call.name = "boot" =>
    /\ call.ret # "OK" => Idle
    /\ call.ret = "OK" => BootPlace /\ BootDone

\* The table, row by row: what its calls read and write.
LEMMA Rows ==
  ASSUME NEW c \in Configs, NEW i \in 1..BootLen(c)
  PROVE  LET e == SetLast(c)  s == BootCall(c, i).steps IN
         /\ e \in {20, 21} /\ BootLen(c) = 2 * e - 1 /\ BootCall(c, i) \in Calls
         /\ i <= 18 =>
              \/ \E id \in Rails : \E mv \in MinMv(id)..MaxMv(id) : s = <<VoltageWrite(id, mv)>>
              \/ s = <<Inval>>
              \/ \E id \in Rails : i = 2 * id + 2 /\ s = <<Put(Conf(id), ConfBits(id, c.rails[id + 1]))>>
         /\ i <= 18 => BootCall(c, i).must
         /\ \A id \in Rails : i = 2 * id + 2 => s = <<Put(Conf(id), ConfBits(id, c.rails[id + 1]))>>
         /\ i = 19 => s = <<Put(Reg("SLEEP_CONF"), SleepBits(c)), Put(Reg("WAKE_CONF"), {0})>>
         /\ i = 20 => \E t : s = <<Put(Reg("WDOG_RESPONSE"), t)>>
         /\ i \in {21, 41} /\ e = 21 => s = <<Inval>> \/ \E b : s = <<Put(Reg("ESM_CONF"), b)>>
         /\ i \in (e + 1)..(e + 5) =>
              s = <<Get(Conf(BootOrder[i - e])), Set(Conf(BootOrder[i - e]), {7})>>
         /\ i \in (e + 6)..(e + 9) => s = <<Get(Conf(i - e - 1)), Set(Conf(i - e - 1), {7})>>
         /\ i \in (e + 10)..(e + 18) => s = <<Check(i - e - 10)>>
         /\ i = e + 19 => s = <<Put(Reg("WDOG_RESPONSE"), WatchdogTime(c.timeout))>>
<1> DEFINE e == SetLast(c)  s == BootCall(c, i).steps
<1>1. c.esm \in Nat
  BY PmicAssumption
<1>2. e \in {20, 21} /\ BootLen(c) = 2 * e - 1
  BY <1>1 DEF SetLast, BootLen
<1>3. BootCall(c, i) \in Calls
  <2>1. BootSequence(c)[i] = BootCall(c, i) /\ BootSequence(c) \in Seq(Calls)
        /\ Len(BootSequence(c)) = BootLen(c)
    BY BootIs
  <2> QED BY <2>1, ElementOfSeq
<1>4. ASSUME i <= 18
      PROVE  \/ \E id \in Rails : \E mv \in MinMv(id)..MaxMv(id) : s = <<VoltageWrite(id, mv)>>
             \/ s = <<Inval>>
             \/ \E id \in Rails : i = 2 * id + 2 /\ s = <<Put(Conf(id), ConfBits(id, c.rails[id + 1]))>>
  <2> DEFINE id == (i - 1) \div 2
  <2>1. id \in Rails /\ (i + 1) \div 2 = id + 1 /\ (i % 2 = 1 \/ i = 2 * id + 2)
    BY <1>4 DEF Rails
  <2>2. BootCall(c, i) = SetRail(id, c.rails[id + 1], i % 2 = 1)
    BY <1>4, <2>1 DEF BootCall
  <2> HIDE DEF id
  <2>3. s = IF i % 2 = 1 THEN SetVoltage(id, c.rails[id + 1].mv)
            ELSE <<Put(Conf(id), ConfBits(id, c.rails[id + 1]))>>
    BY <2>2 DEF SetRail, Must
  <2>4. CASE i % 2 = 1 /\ c.rails[id + 1].mv \in MinMv(id)..MaxMv(id)
    BY <2>1, <2>3, <2>4 DEF SetVoltage, VoltageWrite
  <2>5. CASE i % 2 = 1 /\ c.rails[id + 1].mv \notin MinMv(id)..MaxMv(id)
    BY <2>3, <2>5 DEF SetVoltage
  <2> QED BY <2>1, <2>3, <2>4, <2>5
<1>12. i <= 18 => BootCall(c, i).must
  BY DEF BootCall, SetRail, Must
<1>13. ASSUME NEW id \in Rails, i = 2 * id + 2
       PROVE s = <<Put(Conf(id), ConfBits(id, c.rails[id + 1]))>>
  <2>1. i <= 18 /\ (i - 1) \div 2 = id /\ (i + 1) \div 2 = id + 1 /\ i % 2 = 0
    BY <1>13 DEF Rails
  <2>2. BootCall(c, i) = SetRail((i - 1) \div 2, c.rails[(i + 1) \div 2], i % 2 = 1)
    BY <2>1 DEF BootCall
  <2>3. BootCall(c, i) = SetRail(id, c.rails[id + 1], i % 2 = 1) /\ ~(i % 2 = 1)
    BY <2>1, <2>2
  <2> QED BY <2>3 DEF SetRail, Must
<1>5. i = 19 => s = <<Put(Reg("SLEEP_CONF"), SleepBits(c)), Put(Reg("WAKE_CONF"), {0})>>
  BY DEF BootCall, Must, ConfigureSleep
<1>6. i = 20 => \E t : s = <<Put(Reg("WDOG_RESPONSE"), t)>>
  <2>1. i = 20 => s = IF c.watchdog THEN WatchdogEnable(c.timeout) ELSE WatchdogDisable
    BY <1>2 DEF BootCall, Try
  <2> QED BY <2>1 DEF WatchdogEnable, WatchdogDisable
<1>7. i \in {21, 41} /\ e = 21 => s = <<Inval>> \/ \E b : s = <<Put(Reg("ESM_CONF"), b)>>
  <2>1. i \in {21, 41} /\ e = 21 => s = EsmEnable(c.esm)
    BY DEF BootCall, Try
  <2> QED BY <2>1 DEF EsmEnable
<1>8. i \in (e + 1)..(e + 5) =>
        s = <<Get(Conf(BootOrder[i - e])), Set(Conf(BootOrder[i - e]), {7})>>
  BY <1>2 DEF BootCall, Try, RegulatorEnable
<1>9. i \in (e + 6)..(e + 9) => s = <<Get(Conf(i - e - 1)), Set(Conf(i - e - 1), {7})>>
  <2>1. i \in (e + 6)..(e + 9) => s = RegulatorEnable(4 + (i - e - 5))
    BY <1>2 DEF BootCall, Try
  <2>2. 4 + (i - e - 5) = i - e - 1
    BY <1>2
  <2> QED BY <2>1, <2>2 DEF RegulatorEnable
<1>10. i \in (e + 10)..(e + 18) => s = <<Check(i - e - 10)>>
  <2>1. i \in (e + 10)..(e + 18) => s = <<Check((i - e - 9) - 1)>>
    BY <1>2 DEF BootCall, Try
  <2>2. (i - e - 9) - 1 = i - e - 10
    BY <1>2
  <2> QED BY <2>1, <2>2
<1>11. i = e + 19 => s = <<Put(Reg("WDOG_RESPONSE"), WatchdogTime(c.timeout))>>
  BY <1>2 DEF BootCall, Try, WatchdogEnable
<1> QED BY <1>2, <1>3, <1>4, <1>5, <1>6, <1>7, <1>8, <1>9, <1>10, <1>11, <1>12, <1>13

\* A call of the boot is one transfer, or a read and a write.
LEMMA RowLength ==
  ASSUME NEW c \in Configs, NEW i \in 1..BootLen(c)
  PROVE  Len(BootCall(c, i).steps) \in {1, 2}
<1> DEFINE e == SetLast(c)  s == BootCall(c, i).steps
<1>1. /\ \A x : Len(<<x>>) = 1
      /\ \A x, y : Len(<<x, y>>) = 2
  OBVIOUS
<1>2. e \in {20, 21} /\ BootLen(c) = 2 * e - 1
  BY Rows
<1>3. \/ i <= 18 \/ i = 19 \/ i = 20
      \/ (i \in {21, 41} /\ e = 21)
      \/ i \in (e + 1)..(e + 5)
      \/ i \in (e + 6)..(e + 9)
      \/ i \in (e + 10)..(e + 18)
      \/ i = e + 19
  BY <1>2
<1>4. i <= 18 => Len(s) = 1
  <2>1. i <= 18 => \E x : s = <<x>>
    BY Rows
  <2> QED BY <1>1, <2>1
<1>5. i = 19 => Len(s) = 2
  <2>1. i = 19 => \E x, y : s = <<x, y>>
    BY Rows
  <2> HIDE DEF e, s
  <2> QED BY <1>1, <2>1
<1>6. i = 20 \/ i = e + 19 => Len(s) = 1
  <2>1. i = 20 \/ i = e + 19 => \E x : s = <<x>>
    BY Rows
  <2> QED BY <1>1, <2>1
<1>7. i \in {21, 41} /\ e = 21 => Len(s) = 1
  <2>1. i \in {21, 41} /\ e = 21 => \E x : s = <<x>>
    BY Rows
  <2> QED BY <1>1, <2>1
<1>8. i \in (e + 1)..(e + 9) => Len(s) = 2
  <2>1. i \in (e + 1)..(e + 5) => \E x, y : s = <<x, y>>
    BY Rows
  <2>2. i \in (e + 6)..(e + 9) => \E x, y : s = <<x, y>>
    BY Rows
  <2>3. i \in (e + 1)..(e + 9) => i \in (e + 1)..(e + 5) \/ i \in (e + 6)..(e + 9)
    BY <1>2
  <2> HIDE DEF e, s
  <2> QED BY <1>1, <2>1, <2>2, <2>3
<1>10. i \in (e + 10)..(e + 18) => Len(s) = 1
  <2>1. i \in (e + 10)..(e + 18) => \E x : s = <<x>>
    BY Rows
  <2> HIDE DEF e, s
  <2> QED BY <1>1, <2>1
<1> HIDE DEF e, s
<1>11. Len(s) \in {1, 2}
  BY <1>2, <1>3, <1>4, <1>5, <1>6, <1>7, <1>8, <1>10
<1> QED BY <1>11 DEF s

\* What is left of two steps is the second.
LEMMA Second ==
  ASSUME NEW s \in Seq(Steps), Len(s) = 2
  PROVE  Tail(s) \in Seq(Steps) \ {<<>>} /\ Len(Tail(s)) = 1 /\ Tail(s)[1] = s[2]
<1>1. s # <<>>
  BY EmptySeq
<1>2. Tail(s) \in Seq(Steps) /\ Len(Tail(s)) = 1
  BY <1>1, HeadTailProperties
<1>3. \A i \in 1..Len(Tail(s)) : Tail(s)[i] = s[i + 1]
  BY <1>1, HeadTailProperties
<1>4. Tail(s)[1] = s[2]
  BY <1>2, <1>3
<1>5. Len(Tail(s)) # 0
  BY <1>2
<1>6. Tail(s) # <<>>
  BY <1>5, EmptySeq
<1> QED BY <1>2, <1>4, <1>6

\* A boot under way is at a row of the table, in its first transfer or its second.
Booting == call.name = "boot" /\ call.ret = "OK" /\ ~Idle

\* Where the boot is in its table.
LEMMA BootNow ==
  ASSUME TypeInv, BootInv, Booting
  PROVE  LET i == Made + 1  row == BootCall(call.arg, i) IN
         /\ call.arg \in Configs /\ i \in 1..BootLen(call.arg) /\ Made \in Nat
         /\ \/ Head(call.todo) = row /\ Now = row.steps[1]
            \/ /\ Len(row.steps) = 2 /\ Now = row.steps[2]
               /\ Len(Head(call.todo).steps) = 1 /\ Head(call.todo).must = row.must
<1> DEFINE i == Made + 1  row == BootCall(call.arg, i)  c == Head(call.todo)
<1>1. call.arg \in Configs /\ call.todo \in Seq(Calls) /\ call.todo # <<>>
  BY DEF TypeInv, Booting, Idle
<1>2. Made >= 0 /\ AtRow(call.todo[1], row)
  BY DEF BootInv, Booting, BootPlace
<1>3. BootLen(call.arg) \in Nat /\ Len(call.todo) \in Nat /\ Len(call.todo) > 0
  <2>1. BootLen(call.arg) \in Nat
    BY <1>1, PmicAssumption DEF BootLen, SetLast
  <2> QED BY <1>1, <2>1, LenProperties, EmptySeq
<1>4. i \in 1..BootLen(call.arg) /\ Made \in Nat
  BY <1>2, <1>3 DEF Made
<1>5. row \in Calls
  BY <1>1, <1>4, Rows
<1>6. c = call.todo[1] /\ Now = c.steps[1]
  BY NowIs DEF Booting
<1>7. CASE c = row
  BY <1>1, <1>4, <1>6, <1>7
<1>8. CASE c.must = row.must /\ Len(row.steps) = 2 /\ c.steps = Tail(row.steps)
  <2>1. row.steps \in Seq(Steps)
    BY <1>5 DEF Calls
  <2>2. Len(c.steps) = 1 /\ c.steps[1] = row.steps[2]
    BY <1>8, <2>1, Second
  <2> QED BY <1>1, <1>4, <1>6, <1>8, <2>2
<1> QED BY <1>2, <1>6, <1>7, <1>8 DEF AtRow

\* A boot goes on from row to row.
LEMMA BootGoesOn ==
  ASSUME TypeInv, BootInv, Booting, NEW error \in Results \ {"OK"}, Proceed \/ GiveUp(error)
  PROVE  LET row == BootCall(call.arg, Made + 1) IN
         /\ call'.name = "boot" /\ call'.arg = call.arg
         /\ \/ call'.ret # "OK" /\ call'.todo = <<>>
            \/ /\ call'.ret = "OK" /\ BootPlace'
               /\ \/ /\ Made' = Made + 1
                     /\ Proceed /\ Head(call.todo) = row => Len(row.steps) = 1
                  \/ Made' = Made /\ Head(call.todo) = row /\ Len(row.steps) = 2
<1> DEFINE i == Made + 1  row == BootCall(call.arg, i)  c == Head(call.todo)
           rest == Tail(call.todo)
<1>1. /\ call.arg \in Configs /\ i \in 1..BootLen(call.arg) /\ Made \in Nat
      /\ \/ c = row /\ Now = row.steps[1]
         \/ Len(row.steps) = 2 /\ Now = row.steps[2] /\ Len(c.steps) = 1 /\ c.must = row.must
  BY BootNow
<1>2. /\ call = [name |-> "boot", arg |-> call.arg, todo |-> call.todo, ret |-> "OK"]
      /\ call.todo \in Seq(Calls) /\ call.todo # <<>>
  BY DEF TypeInv, Booting, Idle
<1>3. /\ rest \in Seq(Calls) /\ Len(rest) = Len(call.todo) - 1
      /\ \A n \in 1..Len(rest) : rest[n] = call.todo[n + 1]
  BY <1>2, HeadTailProperties
<1>4. \A n \in 2..Len(call.todo) : call.todo[n] = BootCall(call.arg, Made + n)
  BY DEF BootInv, Booting, BootPlace
<1>5. BootLen(call.arg) \in Nat /\ Len(call.todo) \in Nat /\ Len(call.todo) > 0
  <2>1. BootLen(call.arg) \in Nat
    BY <1>1, PmicAssumption DEF BootLen, SetLast
  <2> QED BY <1>2, <2>1, LenProperties, EmptySeq
<1>6. /\ BootPlace' <=> /\ Made' >= 0
                        /\ \A n \in 2..Len(call'.todo) : call'.todo[n] = BootCall(call'.arg, Made' + n)
                        /\ call'.todo # <<>> => AtRow(call'.todo[1], BootCall(call'.arg, Made' + 1))
      /\ Made' = BootLen(call'.arg) - Len(call'.todo)
  BY DEF BootPlace, Made, Idle
<1>7. Made = BootLen(call.arg) - Len(call.todo)
  BY DEF Made
<1>8. ASSUME call' = [name |-> "boot", arg |-> call.arg, todo |-> rest, ret |-> "OK"]
      PROVE  BootPlace' /\ Made' = Made + 1
  <2>1. call'.todo = rest /\ call'.arg = call.arg
    BY <1>8
  <2>2. Made' = Made + 1
    BY <1>3, <1>5, <1>6, <1>7, <2>1
  <2>3. \A n \in 1..Len(rest) : rest[n] = BootCall(call.arg, Made + 1 + n)
    <3> SUFFICES ASSUME NEW n \in 1..Len(rest) PROVE rest[n] = BootCall(call.arg, Made + 1 + n)
      OBVIOUS
    <3>1. n + 1 \in 2..Len(call.todo) /\ Made + (n + 1) = Made + 1 + n
      BY <1>1, <1>3, <1>5
    <3> QED BY <1>3, <1>4, <3>1
  <2>4. rest # <<>> => rest[1] = BootCall(call.arg, Made' + 1)
    <3>1. rest # <<>> => 1 \in 1..Len(rest)
      BY <1>3, EmptySeq
    <3> QED BY <2>2, <2>3, <3>1
  <2>5. \A n \in 2..Len(rest) : rest[n] = BootCall(call.arg, Made' + n)
    BY <1>3, <2>2, <2>3
  <2>6. Made' >= 0
    BY <1>1, <2>2
  <2> QED BY <1>6, <2>1, <2>2, <2>4, <2>5, <2>6 DEF AtRow
<1>9. CASE Proceed
  <2>1. call' = [name |-> "boot", arg |-> call.arg, todo |-> Rest, ret |-> "OK"]
    BY <1>2, <1>9 DEF Proceed
  <2>2. CASE Len(c.steps) = 1
    <3>1. Rest = <<>> \o rest
      BY <2>2 DEF Rest
    <3>2. Rest = rest
      BY <1>3, <3>1
    <3> QED BY <1>8, <2>1, <2>2, <3>2
  <2>3. CASE Len(c.steps) # 1
    <3>1. c = row /\ Len(row.steps) = 2
      BY <1>1, <2>3, RowLength
    <3> DEFINE second == [must |-> row.must, steps |-> Tail(row.steps)]
    <3>2. Rest = <<second>> \o rest /\ Rest \in Seq(Calls)
      <4>1. ~Idle
        BY DEF Booting
      <4>2. Rest \in Seq(Calls)
        BY <4>1, RestIs
      <4>3. Rest = <<[must |-> c.must, steps |-> Tail(c.steps)]>> \o rest
        BY <2>3 DEF Rest
      <4> QED BY <3>1, <4>2, <4>3
    <3>3. second \in Calls
      <4>1. row \in Calls
        BY <1>1, Rows
      <4>2. row.steps \in Seq(Steps) /\ row.must \in BOOLEAN
        BY <4>1 DEF Calls
      <4>3. Tail(row.steps) \in Seq(Steps) \ {<<>>}
        BY <3>1, <4>2, Second
      <4> QED BY <4>2, <4>3 DEF Calls
    <3> HIDE DEF second
    <3>4. /\ Len(Rest) = Len(call.todo) /\ Rest[1] = second
          /\ \A n \in 2..Len(call.todo) : Rest[n] = rest[n - 1]
      <4>1. <<second>> \in Seq(Calls) /\ Len(<<second>>) = 1 /\ <<second>>[1] = second
        BY <3>3
      <4>2. /\ Len(<<second>> \o rest) = 1 + Len(rest)
            /\ \A n \in 1..(1 + Len(rest)) :
                 (<<second>> \o rest)[n] = IF n <= 1 THEN <<second>>[1] ELSE rest[n - 1]
        BY <1>3, <4>1, ConcatProperties
      <4> QED BY <1>3, <1>5, <3>2, <4>1, <4>2
    <3>5. Made' = Made /\ call'.arg = call.arg /\ call'.todo = Rest
      BY <1>6, <1>7, <2>1, <3>4
    <3>6. \A n \in 2..Len(call.todo) : Rest[n] = BootCall(call.arg, Made + n)
      <4> SUFFICES ASSUME NEW n \in 2..Len(call.todo) PROVE Rest[n] = call.todo[n]
        BY <1>4
      <4>1. n - 1 \in 1..Len(rest) /\ (n - 1) + 1 = n
        BY <1>3, <1>5
      <4> QED BY <1>3, <3>4, <4>1
    <3>7. AtRow(second, row)
      BY <3>1 DEF AtRow, second
    <3>8. BootPlace'
      BY <1>1, <1>6, <3>4, <3>5, <3>6, <3>7
    <3> QED BY <2>1, <3>1, <3>5, <3>8
  <2> QED BY <2>2, <2>3
<1>10. CASE GiveUp(error) /\ ~Proceed
  <2>0. /\ call = [name |-> call.name, arg |-> call.arg, todo |-> call.todo, ret |-> call.ret]
        /\ call.name = "boot" /\ call.ret = "OK"
    BY DEF TypeInv, Booting
  <2>1. CASE c.must
    <3>1. call' = [call EXCEPT !.todo = <<>>, !.ret = error]
      BY <1>10, <2>1 DEF GiveUp
    <3>2. call' = [name |-> call.name, arg |-> call.arg, todo |-> <<>>, ret |-> error]
      BY <2>0, <3>1
    <3> QED BY <2>0, <3>2
  <2>2. CASE ~c.must
    <3>1. call' = [call EXCEPT !.todo = rest]
      BY <1>10, <2>2 DEF GiveUp
    <3>2. call' = [name |-> call.name, arg |-> call.arg, todo |-> rest, ret |-> call.ret]
      BY <2>0, <3>1
    <3> QED BY <1>8, <1>10, <2>0, <3>2
  <2> QED BY <2>1, <2>2
<1> QED BY <1>9, <1>10

\* What fails in the table's first part, where the configuration is set, ends the boot.
LEMMA BootEnds ==
  ASSUME TypeInv, BootInv, Booting, NEW error \in Results \ {"OK"}, GiveUp(error),
         Made + 1 <= 18
  PROVE  call'.ret # "OK" /\ call'.todo = <<>>
<1> DEFINE row == BootCall(call.arg, Made + 1)
<1>1. call.arg \in Configs /\ Made + 1 \in 1..BootLen(call.arg)
      /\ (Head(call.todo) = row \/ Head(call.todo).must = row.must)
  BY BootNow
<1>2. row.must
  BY <1>1, Rows
<1>3. call' = [call EXCEPT !.todo = <<>>, !.ret = error]
  BY <1>1, <1>2 DEF GiveUp
<1>4. call = [name |-> call.name, arg |-> call.arg, todo |-> call.todo, ret |-> call.ret]
  BY DEF TypeInv
<1>5. call' = [name |-> call.name, arg |-> call.arg, todo |-> <<>>, ret |-> error]
  BY <1>3, <1>4
<1> QED BY <1>5

\* Which of a boot's writes go to a rail's settings, which to the watchdog, and where.
LEMMA BootWrites ==
  ASSUME TypeInv, BootInv, Booting, Now.op \in WriteOps
  PROVE  LET e == SetLast(call.arg)  i == Made + 1  row == BootCall(call.arg, i) IN
         /\ \A id \in Rails : Now.reg = Conf(id) =>
              \/ i = 2 * id + 2 /\ Now = Put(Conf(id), ConfBits(id, call.arg.rails[id + 1]))
              \/ /\ i > e /\ Now = Set(Conf(id), {7})
                 /\ id \in Bucks => \E j \in 1..5 : i = e + j /\ id = BootOrder[j]
         /\ \A id \in Rails :
              i = 2 * id + 2 => Now = Put(Conf(id), ConfBits(id, call.arg.rails[id + 1]))
         /\ i \in (e + 1)..(e + 5) =>
              Now = Set(Conf(BootOrder[i - e]), {7}) /\ Head(call.todo) # row
         /\ i \notin (e + 10)..(e + 18)
         /\ Now.reg = Reg("WDOG_RESPONSE") => i <= 20 \/ i = e + 19
         /\ i = e + 19 => Now = Put(Reg("WDOG_RESPONSE"), WatchdogTime(call.arg.timeout))
<1> DEFINE c == call.arg  e == SetLast(c)  i == Made + 1  row == BootCall(c, i)
<1>1. /\ c \in Configs /\ i \in 1..BootLen(c)
      /\ \/ Head(call.todo) = row /\ Now = row.steps[1]
         \/ Len(row.steps) = 2 /\ Now = row.steps[2] /\ Len(Head(call.todo).steps) = 1
  BY BootNow
<1>2. e \in {20, 21} /\ BootLen(c) = 2 * e - 1
  BY <1>1, Rows
<1>3. /\ \A r, v : Put(r, v).op = "put" /\ Put(r, v).reg = r
      /\ \A r, v : Set(r, v).op = "set" /\ Set(r, v).reg = r
      /\ \A r : Get(r).op \notin WriteOps
      /\ Inval.op \notin WriteOps
      /\ \A id : Check(id).op \notin WriteOps
      /\ \A id, mv : VoltageWrite(id, mv).reg = Volt(id)
  BY DEF Put, Set, Get, Inval, Check, VoltageWrite, PutNote, Step, WriteOps
<1>4. /\ \A id, other : Conf(id) # Volt(other) /\ (Conf(id) = Conf(other) => id = other)
      /\ \A id : \A n \in BitRegs \cup {"WDOG_RESPONSE"} : Conf(id) # Reg(n)
      /\ \A id : Volt(id) # Reg("WDOG_RESPONSE")
      /\ \A n \in BitRegs : Reg(n) # Reg("WDOG_RESPONSE")
  BY DEF Conf, Volt, Reg, BitRegs
<1>5. "SLEEP_CONF" \in BitRegs /\ "WAKE_CONF" \in BitRegs /\ "ESM_CONF" \in BitRegs
  BY DEF BitRegs
<1> DEFINE conf == \A id \in Rails : Now.reg = Conf(id) =>
              \/ i = 2 * id + 2 /\ Now = Put(Conf(id), ConfBits(id, c.rails[id + 1]))
              \/ /\ i > e /\ Now = Set(Conf(id), {7})
                 /\ id \in Bucks => \E j \in 1..5 : i = e + j /\ id = BootOrder[j]
           wdog == Now.reg = Reg("WDOG_RESPONSE")
<1>6. \A x : row.steps = <<x>> => Now = x
  <2>1. \A x : Len(<<x>>) = 1 /\ <<x>>[1] = x
    OBVIOUS
  <2> QED BY <1>1, <2>1
<1>7. \A x, y : row.steps = <<x, y>> => (Now = x /\ Head(call.todo) = row) \/ Now = y
  <2>1. \A x, y : <<x, y>>[1] = x /\ <<x, y>>[2] = y
    OBVIOUS
  <2> QED BY <1>1, <2>1
<1>11. i <= 18 => conf /\ ~wdog
  <2> SUFFICES ASSUME i <= 18 PROVE conf /\ ~wdog
    OBVIOUS
  <2>1. \/ \E id \in Rails : \E mv \in MinMv(id)..MaxMv(id) : row.steps = <<VoltageWrite(id, mv)>>
        \/ row.steps = <<Inval>>
        \/ \E id \in Rails :
             i = 2 * id + 2 /\ row.steps = <<Put(Conf(id), ConfBits(id, c.rails[id + 1]))>>
    BY <1>1, Rows
  <2>2. ASSUME NEW id, NEW mv, Now = VoltageWrite(id, mv) PROVE conf /\ ~wdog
    BY <1>3, <1>4, <2>2
  <2>3. ASSUME NEW id \in Rails, i = 2 * id + 2,
               Now = Put(Conf(id), ConfBits(id, c.rails[id + 1]))
        PROVE  conf /\ ~wdog
    <3>1. Now.reg = Conf(id)
      BY <1>3, <2>3
    <3> QED BY <1>4, <2>3, <3>1
  <2>4. Now # Inval
    BY <1>3
  <2> QED BY <1>6, <2>1, <2>2, <2>3, <2>4
<1>12. i = 19 => conf /\ ~wdog
  <2>1. i = 19 => \E u, v : row.steps = <<Put(Reg("SLEEP_CONF"), u), Put(Reg("WAKE_CONF"), v)>>
    BY <1>1, Rows
  <2>2. i = 19 => Now.reg \in {Reg("SLEEP_CONF"), Reg("WAKE_CONF")}
    BY <1>3, <1>7, <2>1
  <2> QED BY <1>4, <1>5, <2>2
<1>13. i = 20 => conf
  <2>1. i = 20 => \E t : row.steps = <<Put(Reg("WDOG_RESPONSE"), t)>>
    BY <1>1, Rows
  <2>2. i = 20 => Now.reg = Reg("WDOG_RESPONSE")
    BY <1>3, <1>6, <2>1
  <2> QED BY <1>4, <2>2
<1>14. i \in {21, 41} /\ e = 21 => conf /\ ~wdog
  <2>1. i \in {21, 41} /\ e = 21 =>
          row.steps = <<Inval>> \/ \E b : row.steps = <<Put(Reg("ESM_CONF"), b)>>
    BY <1>1, Rows
  <2>2. i \in {21, 41} /\ e = 21 => Now.reg = Reg("ESM_CONF")
    BY <1>3, <1>6, <2>1
  <2> QED BY <1>4, <1>5, <2>2
<1>15. i \in (e + 1)..(e + 5) =>
         /\ conf /\ ~wdog
         /\ Now = Set(Conf(BootOrder[i - e]), {7}) /\ Head(call.todo) # row
  <2> SUFFICES ASSUME i \in (e + 1)..(e + 5)
               PROVE  /\ conf /\ ~wdog
                      /\ Now = Set(Conf(BootOrder[i - e]), {7}) /\ Head(call.todo) # row
    OBVIOUS
  <2> DEFINE b == BootOrder[i - e]
  <2>1. row.steps = <<Get(Conf(b)), Set(Conf(b), {7})>>
    BY <1>1, Rows
  <2>2. \E j \in 1..5 : i = e + j /\ b = BootOrder[j]
    <3>1. i - e \in 1..5 /\ i = e + (i - e)
      BY <1>2
    <3> QED BY <3>1
  <2> HIDE DEF b
  <2>3. Now = Set(Conf(b), {7})
    BY <1>3, <1>7, <2>1
  <2>4. Head(call.todo) # row
    <3>1. row.steps[1] = Get(Conf(b)) /\ Len(row.steps) = 2
      BY <2>1
    <3>2. Head(call.todo) = row => Now = Get(Conf(b))
      BY <1>1, <3>1
    <3> QED BY <1>3, <3>2
  <2>5. conf /\ ~wdog
    <3>1. Now.reg = Conf(b)
      BY <1>3, <2>3
    <3>2. \A id : Conf(id) = Conf(b) => id = b
      BY <1>4
    <3>3. i > e
      BY <1>2
    <3> QED BY <1>4, <2>2, <2>3, <3>1, <3>2, <3>3
  <2> QED BY <2>3, <2>4, <2>5 DEF b
<1>16. i \in (e + 6)..(e + 9) => conf /\ ~wdog
  <2> SUFFICES ASSUME i \in (e + 6)..(e + 9) PROVE conf /\ ~wdog
    OBVIOUS
  <2> DEFINE l == i - e - 1
  <2>1. row.steps = <<Get(Conf(l)), Set(Conf(l), {7})>>
    BY <1>1, Rows
  <2>2. l \notin Bucks /\ i > e
    BY <1>2 DEF Bucks
  <2> HIDE DEF l
  <2>3. Now = Set(Conf(l), {7})
    BY <1>3, <1>7, <2>1
  <2>4. Now.reg = Conf(l)
    BY <1>3, <2>3
  <2>5. \A id : Conf(id) = Conf(l) => id = l
    BY <1>4
  <2> QED BY <1>4, <2>2, <2>3, <2>4, <2>5
<1>17. i \notin (e + 10)..(e + 18)
  <2>1. i \in (e + 10)..(e + 18) => row.steps = <<Check(i - e - 10)>>
    BY <1>1, Rows
  <2> QED BY <1>3, <1>6, <2>1
<1>18. i = e + 19 => conf /\ Now = Put(Reg("WDOG_RESPONSE"), WatchdogTime(c.timeout))
  <2>1. i = e + 19 => row.steps = <<Put(Reg("WDOG_RESPONSE"), WatchdogTime(c.timeout))>>
    BY <1>1, Rows
  <2>2. i = e + 19 => Now = Put(Reg("WDOG_RESPONSE"), WatchdogTime(c.timeout))
    BY <1>6, <2>1
  <2>3. i = e + 19 => Now.reg = Reg("WDOG_RESPONSE")
    BY <1>3, <2>2
  <2> QED BY <1>4, <2>2, <2>3
<1>19. \/ i <= 18 \/ i = 19 \/ i = 20
       \/ (i \in {21, 41} /\ e = 21)
       \/ i \in (e + 1)..(e + 5)
       \/ i \in (e + 6)..(e + 9)
       \/ i \in (e + 10)..(e + 18)
       \/ i = e + 19
  BY <1>1, <1>2
<1>20. conf /\ (wdog => i <= 20 \/ i = e + 19)
  <2> HIDE DEF conf, wdog, e, i
  <2> QED BY <1>11, <1>12, <1>13, <1>14, <1>15, <1>16, <1>17, <1>18, <1>19
<1>21. ASSUME NEW id \in Rails, i = 2 * id + 2
       PROVE  Now = Put(Conf(id), ConfBits(id, c.rails[id + 1]))
  <2>1. row.steps = <<Put(Conf(id), ConfBits(id, c.rails[id + 1]))>>
    BY <1>1, <1>21, Rows
  <2> QED BY <1>6, <2>1
<1> QED BY <1>15, <1>17, <1>18, <1>20, <1>21

\* What a write leaves in a rail's settings and in the watchdog's time.
LEMMA BootWritten ==
  ASSUME TypeInv, ~Idle, Now.op \in WriteOps
  PROVE  /\ \A id \in Rails : Now.reg # Conf(id) => Written[Conf(id)] = chip[Conf(id)]
         /\ \A id \in Rails : Now = Set(Conf(id), {7}) => Written[Conf(id)] = val \cup {7}
         /\ \A id \in Rails : \A v : Now = Put(Conf(id), v) => Written[Conf(id)] = v
         /\ Now.reg # Reg("WDOG_RESPONSE") =>
              Written[Reg("WDOG_RESPONSE")] = chip[Reg("WDOG_RESPONSE")]
         /\ \A v : Now = Put(Reg("WDOG_RESPONSE"), v) => Written[Reg("WDOG_RESPONSE")] = v
<1>1. chip = [r \in Regs |-> chip[r]]
  BY DEF TypeInv
<1>2. /\ \A id \in Rails : Conf(id) \in Regs /\ Conf(id) # Reg("PWR_STATUS") /\ Conf(id)[1] = "CONF"
      /\ Reg("WDOG_RESPONSE") \in Regs /\ Reg("WDOG_RESPONSE") # Reg("PWR_STATUS")
      /\ Reg("WDOG_RESPONSE")[1] = "WDOG_RESPONSE"
  BY DEF Conf, Reg, Regs, Numbers
<1>3. ASSUME NEW id \in Rails, Now = Set(Conf(id), {7}) PROVE Written[Conf(id)] = val \cup {7}
  <2>1. Now.op = "set" /\ Now.reg = Conf(id) /\ Now.bits = {7}
    BY <1>3 DEF Set, Step
  <2>2. Written = [chip EXCEPT ![Conf(id)] = val \cup {7}]
    BY <1>2, <2>1 DEF Written
  <2> QED BY <1>1, <1>2, <2>2
<1>4. ASSUME NEW id \in Rails, NEW v, Now = Put(Conf(id), v) PROVE Written[Conf(id)] = v
  <2>1. Now.op = "put" /\ Now.reg = Conf(id) /\ Now.bits = v
    BY <1>4 DEF Put, Step
  <2>2. Written = [chip EXCEPT ![Conf(id)] = v]
    BY <1>2, <2>1 DEF Written
  <2> QED BY <1>1, <1>2, <2>2
<1>5. ASSUME NEW v, Now = Put(Reg("WDOG_RESPONSE"), v) PROVE Written[Reg("WDOG_RESPONSE")] = v
  <2>1. Now.op = "put" /\ Now.reg = Reg("WDOG_RESPONSE") /\ Now.bits = v
    BY <1>5 DEF Put, Step
  <2>2. Written = [chip EXCEPT ![Reg("WDOG_RESPONSE")] = v]
    BY <1>2, <2>1 DEF Written
  <2> QED BY <1>1, <1>2, <2>2
<1> QED BY <1>2, <1>3, <1>4, <1>5, WrittenIs

\* A write of the boot, past the table's first part, turns no BUCK off, and before that
\* none that its configuration enables; it leaves the watchdog alone but in the row that
\* sets it.
LEMMA BootKeeps ==
  ASSUME TypeInv, BootInv, Booting, Now.op \in WriteOps, chip' = Written
  PROVE  LET e == SetLast(call.arg)  i == Made + 1 IN
         /\ \A b \in Bucks : (i > e \/ EnabledBy(call.arg, b)) /\ On(b) => On(b)'
         /\ \A b \in Bucks : i = 2 * b + 2 /\ EnabledBy(call.arg, b) => On(b)'
         /\ \A j \in 1..5 : i = e + j => On(BootOrder[j])'
         /\ i > e /\ i # e + 19 => chip'[Reg("WDOG_RESPONSE")] = chip[Reg("WDOG_RESPONSE")]
         /\ i = e + 19 => chip'[Reg("WDOG_RESPONSE")] = WatchdogTime(call.arg.timeout)
<1> DEFINE e == SetLast(call.arg)  i == Made + 1
<1>1. e \in {20, 21} /\ i \in 1..BootLen(call.arg)
  BY BootNow, Rows
<1>2. ~Idle
  BY DEF Booting
<1>7. ASSUME NEW b \in Bucks, EnabledBy(call.arg, b),
             Now = Put(Conf(b), ConfBits(b, call.arg.rails[b + 1]))
      PROVE  On(b)'
  <2>1. b \in Rails /\ 7 \in ConfBits(b, call.arg.rails[b + 1])
    BY <1>7 DEF Bucks, Rails, EnabledBy, ConfBits
  <2>2. chip'[Conf(b)] = ConfBits(b, call.arg.rails[b + 1])
    BY <1>2, <1>7, <2>1, BootWritten
  <2> QED BY <2>1, <2>2 DEF On
<1>8. ASSUME NEW b \in Bucks, i = 2 * b + 2, EnabledBy(call.arg, b) PROVE On(b)'
  <2>1. b \in Rails
    BY DEF Bucks, Rails
  <2> QED BY <1>7, <1>8, <2>1, BootWrites
<1>3. ASSUME NEW b \in Bucks, i > e \/ EnabledBy(call.arg, b), On(b) PROVE On(b)'
  <2>1. b \in Rails
    BY DEF Bucks, Rails
  <2>2. CASE Now.reg # Conf(b)
    <3>1. chip'[Conf(b)] = chip[Conf(b)]
      BY <1>2, <2>1, <2>2, BootWritten
    <3> QED BY <1>3, <3>1 DEF On
  <2>3. CASE Now.reg = Conf(b)
    <3>1. \/ i = 2 * b + 2 /\ Now = Put(Conf(b), ConfBits(b, call.arg.rails[b + 1]))
          \/ Now = Set(Conf(b), {7})
      BY <2>1, <2>3, BootWrites
    <3>2. CASE Now = Set(Conf(b), {7})
      <4>1. chip'[Conf(b)] = val \cup {7}
        BY <1>2, <2>1, <3>2, BootWritten
      <4> QED BY <4>1 DEF On
    <3>3. CASE i = 2 * b + 2 /\ Now = Put(Conf(b), ConfBits(b, call.arg.rails[b + 1]))
      <4>1. ~(i > e)
        BY <1>1, <3>3 DEF Bucks
      <4> QED BY <1>3, <1>7, <3>3, <4>1
    <3> QED BY <3>1, <3>2, <3>3
  <2> QED BY <2>2, <2>3
<1>4. ASSUME NEW j \in 1..5, i = e + j PROVE On(BootOrder[j])'
  <2>1. BootOrder[j] \in Rails
    BY DEF BootOrder, Rails
  <2>2. i \in (e + 1)..(e + 5) /\ i - e = j
    BY <1>1, <1>4
  <2>3. Now = Set(Conf(BootOrder[j]), {7})
    BY <2>2, BootWrites
  <2>4. chip'[Conf(BootOrder[j])] = val \cup {7}
    BY <1>2, <2>1, <2>3, BootWritten
  <2> QED BY <2>4 DEF On
<1>5. ASSUME i > e, i # e + 19
      PROVE  chip'[Reg("WDOG_RESPONSE")] = chip[Reg("WDOG_RESPONSE")]
  <2>1. Now.reg # Reg("WDOG_RESPONSE")
    BY <1>1, <1>5, BootWrites
  <2> QED BY <1>2, <2>1, BootWritten
<1>6. i = e + 19 => chip'[Reg("WDOG_RESPONSE")] = WatchdogTime(call.arg.timeout)
  BY <1>2, BootWrites, BootWritten
<1> QED BY <1>3, <1>4, <1>5, <1>6, <1>8

\* The other steps of a boot, and the rows they are in.
LEMMA BootReads ==
  ASSUME TypeInv, BootInv, Booting
  PROVE  LET e == SetLast(call.arg)  i == Made + 1  row == BootCall(call.arg, i) IN
         /\ Now.op = "get" =>
              /\ i \in (e + 1)..(e + 9) /\ Now.note = Plain
              /\ Head(call.todo) = row /\ Len(row.steps) = 2
              /\ \A j \in 1..5 : i = e + j => Now.reg = Conf(BootOrder[j])
         /\ Now.op = "check" => i \in (e + 10)..(e + 18) /\ Now = Check(i - e - 10)
         /\ Now.op = "inval" => i <= 18 \/ (i \in {21, 41} /\ e = 21)
         /\ Now.op # "record"
<1> DEFINE c == call.arg  e == SetLast(c)  i == Made + 1  row == BootCall(c, i)
<1>1. /\ c \in Configs /\ i \in 1..BootLen(c)
      /\ \/ Head(call.todo) = row /\ Now = row.steps[1]
         \/ Len(row.steps) = 2 /\ Now = row.steps[2] /\ Len(Head(call.todo).steps) = 1
  BY BootNow
<1>2. e \in {20, 21} /\ BootLen(c) = 2 * e - 1
  BY <1>1, Rows
<1>3. /\ \A r, v : Put(r, v).op = "put"
      /\ \A r, v : Set(r, v).op = "set"
      /\ \A r : Get(r).op = "get" /\ Get(r).note = Plain /\ Get(r).reg = r
      /\ Inval.op = "inval"
      /\ \A id : Check(id).op = "check"
      /\ \A id, mv : VoltageWrite(id, mv).op = "put"
  BY DEF Put, Set, Get, Inval, Check, VoltageWrite, PutNote, Step
<1>6. \A x : row.steps = <<x>> => Now = x
  <2>1. \A x : Len(<<x>>) = 1 /\ <<x>>[1] = x
    OBVIOUS
  <2> QED BY <1>1, <2>1
<1>7. \A x, y : row.steps = <<x, y>> =>
        Len(row.steps) = 2 /\ ((Now = x /\ Head(call.todo) = row) \/ Now = y)
  <2>1. \A x, y : <<x, y>>[1] = x /\ <<x, y>>[2] = y /\ Len(<<x, y>>) = 2
    OBVIOUS
  <2> SUFFICES ASSUME NEW x, NEW y, row.steps = <<x, y>>
               PROVE  Len(row.steps) = 2 /\ ((Now = x /\ Head(call.todo) = row) \/ Now = y)
    OBVIOUS
  <2>2. row.steps[1] = x /\ row.steps[2] = y /\ Len(row.steps) = 2
    BY <2>1
  <2> QED BY <1>1, <2>2
<1>11. i <= 18 => Now.op \in {"put", "inval"}
  <2>1. i <= 18 =>
        \/ \E id \in Rails : \E mv \in MinMv(id)..MaxMv(id) : row.steps = <<VoltageWrite(id, mv)>>
        \/ row.steps = <<Inval>>
        \/ \E id \in Rails : row.steps = <<Put(Conf(id), ConfBits(id, c.rails[id + 1]))>>
    BY <1>1, Rows
  <2> QED BY <1>3, <1>6, <2>1
<1>12. i = 19 => Now.op = "put"
  <2>1. i = 19 => \E u, v : row.steps = <<Put(Reg("SLEEP_CONF"), u), Put(Reg("WAKE_CONF"), v)>>
    BY <1>1, Rows
  <2> QED BY <1>3, <1>7, <2>1
<1>13. i = 20 \/ i = e + 19 => Now.op = "put"
  <2>1. i = 20 \/ i = e + 19 => \E t : row.steps = <<Put(Reg("WDOG_RESPONSE"), t)>>
    BY <1>1, Rows
  <2> QED BY <1>3, <1>6, <2>1
<1>14. i \in {21, 41} /\ e = 21 => Now.op \in {"put", "inval"}
  <2>1. i \in {21, 41} /\ e = 21 =>
          row.steps = <<Inval>> \/ \E b : row.steps = <<Put(Reg("ESM_CONF"), b)>>
    BY <1>1, Rows
  <2> QED BY <1>3, <1>6, <2>1
<1>15. i \in (e + 1)..(e + 9) =>
         Now.op = "set" \/ (Now.op = "get" /\ Now.note = Plain /\ Head(call.todo) = row
                              /\ Len(row.steps) = 2)
  <2>1. i \in (e + 1)..(e + 5) => \E b : row.steps = <<Get(Conf(b)), Set(Conf(b), {7})>>
    BY <1>1, Rows
  <2>2. i \in (e + 6)..(e + 9) => \E b : row.steps = <<Get(Conf(b)), Set(Conf(b), {7})>>
    BY <1>1, Rows
  <2>3. i \in (e + 1)..(e + 9) => i \in (e + 1)..(e + 5) \/ i \in (e + 6)..(e + 9)
    BY <1>2
  <2>4. (\E b : row.steps = <<Get(Conf(b)), Set(Conf(b), {7})>>) =>
          Now.op = "set" \/ (Now.op = "get" /\ Now.note = Plain /\ Head(call.todo) = row
                               /\ Len(row.steps) = 2)
    BY <1>3, <1>7
  <2> QED BY <2>1, <2>2, <2>3, <2>4
<1>18. ASSUME NEW j \in 1..5, i = e + j, Now.op = "get" PROVE Now.reg = Conf(BootOrder[j])
  <2>1. i \in (e + 1)..(e + 5) /\ i - e = j
    BY <1>2, <1>18
  <2>2. row.steps = <<Get(Conf(BootOrder[j])), Set(Conf(BootOrder[j]), {7})>>
    BY <1>1, <2>1, Rows
  <2> QED BY <1>3, <1>7, <1>18, <2>2
<1>16. i \in (e + 10)..(e + 18) => Now.op = "check" /\ Now = Check(i - e - 10)
  <2>1. i \in (e + 10)..(e + 18) => row.steps = <<Check(i - e - 10)>>
    BY <1>1, Rows
  <2> QED BY <1>3, <1>6, <2>1
<1>17. \/ i <= 18 \/ i = 19 \/ i = 20 \/ i = e + 19
       \/ (i \in {21, 41} /\ e = 21)
       \/ i \in (e + 1)..(e + 9)
       \/ i \in (e + 10)..(e + 18)
  BY <1>1, <1>2
<1> QED BY <1>11, <1>12, <1>13, <1>14, <1>15, <1>16, <1>17, <1>18

\* What each step of a boot has to keep up.
LEMMA BootDoneNext ==
  ASSUME TypeInv, BootInv, Booting, call'.arg = call.arg, Made' \in {Made, Made + 1},
         unseen \subseteq unseen', faults' \in {faults, faults + 1},
         missed \subseteq missed',
         \A b \in Bucks : (Made + 1 > SetLast(call.arg) \/ EnabledBy(call.arg, b)) /\ On(b) => On(b)',
         \A b \in Bucks : Made' = Made + 1 /\ Made + 1 = 2 * b + 2 /\ EnabledBy(call.arg, b) =>
           On(b)',
         \A b \in Bucks : Made' = Made + 1 /\ Made + 1 = SetLast(call.arg) + 10 + b =>
           On(b)' \/ b \in unseen',
         \A j \in 1..5 : Made' = Made + 1 /\ Made + 1 = SetLast(call.arg) + j =>
           On(BootOrder[j])' \/ BootOrder[j] \in missed',
         faults' = 0 /\ Made >= SetLast(call.arg) + 19 =>
           chip'[Reg("WDOG_RESPONSE")] = chip[Reg("WDOG_RESPONSE")],
         faults' = 0 /\ Made' = Made + 1 /\ Made + 1 = SetLast(call.arg) + 19 =>
           chip'[Reg("WDOG_RESPONSE")] = WatchdogTime(call.arg.timeout)
  PROVE  BootDone'
<1> DEFINE e == SetLast(call.arg)
<1>1. e \in {20, 21} /\ Made \in Nat /\ faults \in Nat
  BY BootNow, Rows DEF TypeInv
<1>2. SetLast(call'.arg) = e /\ call'.arg.timeout = call.arg.timeout
  OBVIOUS
<1>3. BootDone
  BY DEF BootInv, Booting
<1> HIDE DEF e
<1>4. ASSUME NEW b \in Bucks, Made' >= e + 10 + b PROVE On(b)' \/ b \in unseen'
  <2>1. b \in 0..4
    BY DEF Bucks
  <2>2. CASE Made >= e + 10 + b
    BY <1>1, <1>3, <2>1, <2>2 DEF BootDone, e
  <2>3. CASE ~(Made >= e + 10 + b)
    BY <1>1, <1>4, <2>1, <2>3 DEF e
  <2> QED BY <2>2, <2>3
<1>7. ASSUME NEW b \in Bucks, Made' >= 2 * b + 2, EnabledBy(call.arg, b) PROVE On(b)'
  <2>1. b \in 0..4
    BY DEF Bucks
  <2>2. CASE Made >= 2 * b + 2
    BY <1>3, <1>7, <2>2 DEF BootDone
  <2>3. CASE ~(Made >= 2 * b + 2)
    BY <1>1, <1>7, <2>1, <2>3
  <2> QED BY <2>2, <2>3
<1>5. ASSUME NEW j \in 1..5, Made' >= e + j PROVE On(BootOrder[j])' \/ BootOrder[j] \in missed'
  <2>1. BootOrder[j] \in Bucks
    BY DEF BootOrder, Bucks
  <2>2. CASE Made >= e + j
    <3>1. On(BootOrder[j]) \/ BootOrder[j] \in missed
      BY <1>3, <2>2 DEF BootDone, e
    <3>2. \A b \in Bucks : On(b) => On(b)'
      BY <1>1, <2>2 DEF e
    <3> QED BY <2>1, <3>1, <3>2
  <2>3. CASE ~(Made >= e + j)
    BY <1>1, <1>5, <2>3 DEF e
  <2> QED BY <2>2, <2>3
<1>6. ASSUME faults' = 0, Made' >= e + 19
      PROVE  chip'[Reg("WDOG_RESPONSE")] = WatchdogTime(call.arg.timeout)
  <2>1. faults = 0
    BY <1>1, <1>6
  <2>2. CASE Made >= e + 19
    BY <1>3, <1>6, <2>1, <2>2 DEF BootDone, e
  <2>3. CASE ~(Made >= e + 19)
    BY <1>1, <1>6, <2>3 DEF e
  <2> QED BY <2>2, <2>3
<1> QED BY <1>2, <1>4, <1>5, <1>6, <1>7 DEF BootDone

\* Each step of the boot, and every step that is not one, keeps the invariant.
LEMMA BootNext == TypeInv /\ BootInv /\ [Next]_vars => BootInv'
<1> SUFFICES ASSUME TypeInv, BootInv, [Next]_vars PROVE BootInv'
  OBVIOUS
<1>1. /\ "NOMATCH" \in Results \ {"OK"} /\ "NOCOMM" \in Results \ {"OK"}
      /\ "INVAL" \in Results \ {"OK"} /\ "FAULT" \in Results \ {"OK"}
  BY DEF Results
<1>2. CASE Started
  <2>1. CASE call'.name = "boot"
    <3>1. /\ call'.arg \in Configs /\ call'.todo = BootSequence(call'.arg) /\ call'.ret = "OK"
      BY <1>2, <2>1 DEF Started
    <3> DEFINE c == call'.arg
    <3>2. /\ Len(BootSequence(c)) = BootLen(c)
          /\ \A i \in 1..BootLen(c) : BootSequence(c)[i] = BootCall(c, i)
      BY <3>1, BootIs
    <3>3. BootLen(c) \in Nat /\ BootLen(c) > 1 /\ SetLast(c) \in {20, 21}
      BY <3>1, PmicAssumption DEF BootLen, SetLast
    <3>4. Made' = 0
      <4>1. Made' = BootLen(c) - Len(call'.todo)
        BY DEF Made
      <4> QED BY <3>1, <3>2, <3>3, <4>1
    <3>5. \A i \in 1..Len(call'.todo) : call'.todo[i] = BootCall(call'.arg, Made' + i)
      BY <3>1, <3>2, <3>3, <3>4
    <3>6. BootPlace'
      BY <3>1, <3>2, <3>3, <3>4, <3>5 DEF BootPlace, AtRow, Idle
    <3>7. BootDone'
      BY <3>3, <3>4 DEF BootDone, Bucks
    <3> QED BY <3>1, <3>6, <3>7 DEF BootInv
  <2> QED BY <2>1 DEF BootInv
<1>3. ASSUME call' = call, unseen' = unseen, missed' = missed, faults' = faults,
             \A id \in Rails : chip'[Conf(id)] = chip[Conf(id)],
             chip'[Reg("WDOG_RESPONSE")] = chip[Reg("WDOG_RESPONSE")]
      PROVE  BootInv'
  <2>1. Made' = Made /\ (BootPlace' <=> BootPlace) /\ (Idle' <=> Idle)
    BY <1>3 DEF Made, BootPlace, Idle
  <2>2. Bucks \subseteq Rails /\ \A j \in 1..5 : BootOrder[j] \in Rails
    BY DEF Bucks, Rails, BootOrder
  <2>3. \A id \in Rails : On(id)' <=> On(id)
    BY <1>3 DEF On
  <2>4. BootDone => BootDone'
    BY <1>3, <2>1, <2>2, <2>3 DEF BootDone
  <2> QED BY <1>3, <2>1, <2>4 DEF BootInv
<1>4. ASSUME Wake \/ Flag \/ UNCHANGED vars PROVE BootInv'
  <2>1. chip = [r \in Regs |-> chip[r]]
    BY DEF TypeInv
  <2>2. /\ \A id \in Rails : Conf(id) \in Regs /\ Conf(id) # Reg("PWR_STATUS")
                             /\ Conf(id) # Reg("ESM_STATUS")
        /\ Reg("WDOG_RESPONSE") \in Regs /\ Reg("WDOG_RESPONSE") # Reg("PWR_STATUS")
        /\ Reg("WDOG_RESPONSE") # Reg("ESM_STATUS")
    BY DEF Conf, Reg, Regs, Numbers
  <2>3. CASE Wake
    BY <1>3, <2>1, <2>2, <2>3 DEF Wake
  <2>4. CASE Flag
    BY <1>3, <2>1, <2>2, <2>4 DEF Flag
  <2>5. CASE UNCHANGED vars
    BY <1>3, <2>5 DEF vars
  <2> QED BY <1>4, <2>3, <2>4, <2>5
<1>5. CASE Idle /\ ~Started
  <2>1. Reinit \/ Wake \/ Flag \/ UNCHANGED vars
    BY <1>5, CallsStart DEF Next, Read, Write, Fail, CheckRail, Local
  <2>2. Reinit => BootInv'
    BY <1>3 DEF Reinit
  <2> QED BY <1>4, <2>1, <2>2
<1>6. CASE ~Idle /\ ~Booting
  <2>1. call.name # "boot"
    BY <1>6 DEF BootInv, Booting
  <2>2. Read \/ Write \/ Fail \/ CheckRail \/ Local \/ Wake \/ Flag \/ UNCHANGED vars
    BY <1>6, CallsStart DEF Next, Started, Reinit
  <2>3. ASSUME NEW error \in Results, Proceed \/ GiveUp(error) PROVE call'.name = call.name
    BY <1>6, <2>3, CallGoesOn
  <2>4. ASSUME call' = [call EXCEPT !.todo = <<>>, !.ret = "FAULT"] PROVE call'.name = call.name
    BY <2>4 DEF TypeInv
  <2>5. Read \/ Write \/ Fail \/ CheckRail \/ Local => call'.name = call.name
    BY <1>1, <2>3, <2>4 DEF Read, Write, Fail, CheckRail, Local
  <2> QED BY <1>4, <2>1, <2>2, <2>5 DEF BootInv
<1>7. CASE Booting
  <2> DEFINE e == SetLast(call.arg)  i == Made + 1  row == BootCall(call.arg, i)
  <2>1. e \in {20, 21} /\ Made \in Nat /\ faults \in Nat /\ i \in 1..BootLen(call.arg)
        /\ BootLen(call.arg) = 2 * e - 1
    BY <1>7, BootNow, Rows DEF TypeInv
  <2>2. ~Idle /\ call.name = "boot" /\ call.ret = "OK"
    BY <1>7 DEF Booting
  <2>3. ASSUME call'.ret # "OK", call'.todo = <<>> PROVE BootInv'
    BY <2>3 DEF BootInv, Idle
  <2>4. ASSUME call'.ret = "OK", BootPlace', BootDone' PROVE BootInv'
    BY <2>4 DEF BootInv
  <2>5. CASE Read
    <3>1. Now.op = "get" /\ Note /\ chip' = chip /\ faults' = faults /\ unseen' = unseen
          /\ missed' = missed
      BY <2>5 DEF Read
    <3>2. i \in (e + 1)..(e + 9) /\ Now.note = Plain /\ Head(call.todo) = row /\ Len(row.steps) = 2
      BY <1>7, <3>1, BootReads
    <3>3. Proceed
      BY <2>5, <3>2 DEF Read, Plain
    <3>4. /\ call'.arg = call.arg
          /\ \/ call'.ret # "OK" /\ call'.todo = <<>>
             \/ call'.ret = "OK" /\ BootPlace' /\ Made' = Made
      <4>1. \/ call'.ret # "OK" /\ call'.todo = <<>>
            \/ /\ call'.ret = "OK" /\ BootPlace'
               /\ (Made' = Made + 1 /\ (Proceed /\ Head(call.todo) = row => Len(row.steps) = 1))
                  \/ Made' = Made
        BY <1>1, <1>7, <3>3, BootGoesOn
      <4>2. call'.arg = call.arg
        BY <1>1, <1>7, <3>3, BootGoesOn
      <4>3. Len(row.steps) # 1
        BY <3>2
      <4> QED BY <3>2, <3>3, <4>1, <4>2, <4>3
    <3>5. chip' = chip => \A b \in Bucks : On(b) => On(b)'
      BY DEF On
    <3>6. Made' = Made => BootDone'
      <4> HIDE DEF e, i
      <4> QED BY <1>7, <2>1, <3>1, <3>4, <3>5, BootDoneNext DEF e, i
    <3> QED BY <2>3, <2>4, <3>4, <3>6
  <2>6. ASSUME NEW error \in Results \ {"OK"}, Proceed \/ GiveUp(error)
        PROVE  /\ call'.arg = call.arg
               /\ \/ call'.ret # "OK" /\ call'.todo = <<>>
                  \/ call'.ret = "OK" /\ BootPlace' /\ Made' \in {Made, Made + 1}
    BY <1>7, <2>6, BootGoesOn
  <2>7. CASE Write
    <3>1. /\ Now.op \in WriteOps /\ chip' = Written /\ Proceed
          /\ faults' = faults /\ unseen' = unseen /\ missed' = missed
      BY <2>7 DEF Write, WriteOps
    <3>2. /\ \A b \in Bucks : (i > e \/ EnabledBy(call.arg, b)) /\ On(b) => On(b)'
          /\ \A b \in Bucks : i = 2 * b + 2 /\ EnabledBy(call.arg, b) => On(b)'
          /\ \A j \in 1..5 : i = e + j => On(BootOrder[j])'
          /\ i > e /\ i # e + 19 => chip'[Reg("WDOG_RESPONSE")] = chip[Reg("WDOG_RESPONSE")]
          /\ i = e + 19 => chip'[Reg("WDOG_RESPONSE")] = WatchdogTime(call.arg.timeout)
      BY <1>7, <3>1, BootKeeps
    <3>3. i \notin (e + 10)..(e + 18)
      BY <1>7, <3>1, BootWrites
    <3>4. /\ call'.arg = call.arg
          /\ \/ call'.ret # "OK" /\ call'.todo = <<>>
             \/ call'.ret = "OK" /\ BootPlace' /\ Made' \in {Made, Made + 1}
      BY <1>1, <2>6, <3>1
    <3>5. \A b \in Bucks : i # e + 10 + b
      BY <2>1, <3>3 DEF Bucks
    <3>6. Made >= e + 19 => i > e /\ i # e + 19
      BY <2>1
    <3>7. Made' \in {Made, Made + 1} => BootDone'
      <4> HIDE DEF e
      <4> QED BY <1>7, <2>1, <3>1, <3>2, <3>4, <3>5, <3>6, BootDoneNext DEF e
    <3> QED BY <2>3, <2>4, <3>4, <3>7
  <2>8. CASE Fail
    <3>1. /\ Now.op = "get" \/ Now.op \in WriteOps
          /\ chip' = chip \/ (Now.op \in WriteOps /\ chip' = Written)
          /\ GiveUp("NOCOMM") /\ faults' = faults + 1 /\ unseen' = unseen
          /\ missed' = missed \cup {id \in Rails : Now.reg = Conf(id)}
      BY <2>8 DEF Fail, WriteOps
    <3>2. \A b \in Bucks : (i > e \/ EnabledBy(call.arg, b)) /\ On(b) => On(b)'
      <4>1. CASE chip' = chip
        BY <4>1 DEF On
      <4>2. CASE Now.op \in WriteOps /\ chip' = Written
        BY <1>7, <4>2, BootKeeps
      <4> QED BY <3>1, <4>1, <4>2
    <3>3. i \notin (e + 10)..(e + 18)
      <4>1. Now.op \in WriteOps => i \notin (e + 10)..(e + 18)
        BY <1>7, BootWrites
      <4>2. Now.op = "get" => i \in (e + 1)..(e + 9)
        BY <1>7, BootReads
      <4> QED BY <2>1, <3>1, <4>1, <4>2
    <3>4. /\ call'.arg = call.arg
          /\ \/ call'.ret # "OK" /\ call'.todo = <<>>
             \/ call'.ret = "OK" /\ BootPlace' /\ Made' \in {Made, Made + 1}
      BY <1>1, <2>6, <3>1
    <3>5. \A b \in Bucks : i # e + 10 + b
      BY <2>1, <3>3 DEF Bucks
    <3>6. faults' # 0
      BY <2>1, <3>1
    <3>8. ASSUME NEW j \in 1..5, i = e + j PROVE BootOrder[j] \in missed'
      <4>1. BootOrder[j] \in Rails /\ i \in (e + 1)..(e + 5) /\ i - e = j
        BY <2>1, <3>8 DEF BootOrder, Rails
      <4>2. CASE Now.op = "get"
        <5>1. Now.reg = Conf(BootOrder[j])
          BY <1>7, <3>8, <4>2, BootReads
        <5> QED BY <3>1, <4>1, <5>1
      <4>3. CASE Now.op \in WriteOps
        <5>1. Now = Set(Conf(BootOrder[j]), {7})
          BY <1>7, <4>1, <4>3, BootWrites
        <5>2. Now.reg = Conf(BootOrder[j])
          BY <5>1 DEF Set, Step
        <5> QED BY <3>1, <4>1, <5>2
      <4> QED BY <3>1, <4>2, <4>3
    <3>9. CASE i <= 18
      BY <1>1, <1>7, <2>3, <3>1, <3>9, BootEnds
    <3>7. i > 18 /\ Made' \in {Made, Made + 1} => BootDone'
      <4>1. i > 18 => \A b \in Bucks : i # 2 * b + 2
        BY DEF Bucks
      <4> HIDE DEF e
      <4> QED BY <1>7, <2>1, <3>1, <3>2, <3>4, <3>5, <3>6, <3>8, <4>1, BootDoneNext DEF e
    <3> QED BY <2>1, <2>3, <2>4, <3>4, <3>7, <3>9
  <2>9. CASE CheckRail
    <3>1. Now.op = "check" /\ chip' = chip /\ missed' = missed
      BY <2>9 DEF CheckRail
    <3>2. i \in (e + 10)..(e + 18) /\ Now = Check(i - e - 10)
      BY <1>7, <3>1, BootReads
    <3>3. Now.reg[2] = i - e - 10
      BY <3>2 DEF Check, Step
    <3>4. PICK read \in BOOLEAN, good \in BOOLEAN :
            /\ read /\ good /\ PgBit(Now.reg[2]) \in Bucks => On(PgBit(Now.reg[2]))
            /\ faults' = IF read THEN faults ELSE faults + 1
            /\ unseen' = IF good /\ ~read THEN unseen \cup {Now.reg[2]} ELSE unseen
            /\ IF good THEN Proceed ELSE call' = [call EXCEPT !.todo = <<>>, !.ret = "FAULT"]
      BY <2>9 DEF CheckRail
    <3>5. CASE ~good
      <4>1. call' = [call EXCEPT !.todo = <<>>, !.ret = "FAULT"]
        BY <3>4, <3>5
      <4>2. call = [name |-> call.name, arg |-> call.arg, todo |-> call.todo, ret |-> call.ret]
        BY DEF TypeInv
      <4>3. call' = [name |-> call.name, arg |-> call.arg, todo |-> <<>>, ret |-> "FAULT"]
        BY <4>1, <4>2
      <4> QED BY <2>3, <4>3
    <3>6. CASE good
      <4>1. /\ call'.arg = call.arg
            /\ \/ call'.ret # "OK" /\ call'.todo = <<>>
               \/ call'.ret = "OK" /\ BootPlace' /\ Made' \in {Made, Made + 1}
        BY <1>1, <2>6, <3>4, <3>6
      <4>2. unseen \subseteq unseen' /\ faults' \in {faults, faults + 1}
        BY <3>4
      <4>3. \A b \in Bucks : On(b) => On(b)'
        BY <3>1 DEF On
      <4>4. ASSUME NEW b \in Bucks, i = e + 10 + b PROVE On(b)' \/ b \in unseen'
        <5>1. Now.reg[2] = b
          BY <2>1, <3>3, <4>4 DEF Bucks
        <5>2. PgBit(b) = b
          BY DEF PgBit
        <5>3. On(b) \/ b \in unseen'
          BY <3>4, <3>6, <5>1, <5>2
        <5> QED BY <4>3, <5>3
      <4>5. \A j \in 1..5 : i # e + j
        BY <2>1, <3>2
      <4>6. i # e + 19 /\ \A b \in Bucks : i # 2 * b + 2
        BY <2>1, <3>2 DEF Bucks
      <4>7. Made' \in {Made, Made + 1} => BootDone'
        <5> HIDE DEF e
        <5> QED BY <1>7, <2>1, <3>1, <4>1, <4>2, <4>3, <4>4, <4>5, <4>6, BootDoneNext DEF e
      <4> QED BY <2>3, <2>4, <4>1, <4>7
    <3> QED BY <3>5, <3>6
  <2>10. CASE Local
    <3>1. /\ Now.op = "inval" /\ GiveUp("INVAL")
          /\ chip' = chip /\ faults' = faults /\ unseen' = unseen /\ missed' = missed
      BY <1>7, <2>10, BootReads DEF Local
    <3>2. i <= 18 \/ (i \in {21, 41} /\ e = 21)
      BY <1>7, <3>1, BootReads
    <3>3. /\ call'.arg = call.arg
          /\ \/ call'.ret # "OK" /\ call'.todo = <<>>
             \/ call'.ret = "OK" /\ BootPlace' /\ Made' \in {Made, Made + 1}
      BY <1>1, <2>6, <3>1
    <3>4. \A b \in Bucks : On(b) => On(b)'
      BY <3>1 DEF On
    <3>5. (\A b \in Bucks : i # e + 10 + b) /\ (\A j \in 1..5 : i # e + j) /\ i # e + 19
      BY <2>1, <3>2 DEF Bucks
    <3>7. CASE i <= 18
      BY <1>1, <1>7, <2>3, <3>1, <3>7, BootEnds
    <3>6. i > 18 /\ Made' \in {Made, Made + 1} => BootDone'
      <4>1. i > 18 => \A b \in Bucks : i # 2 * b + 2
        BY DEF Bucks
      <4> HIDE DEF e
      <4> QED BY <1>7, <2>1, <3>1, <3>3, <3>4, <3>5, <4>1, BootDoneNext DEF e
    <3> QED BY <2>1, <2>3, <2>4, <3>3, <3>6, <3>7
  <2> QED BY <1>4, <2>2, <2>5, <2>7, <2>8, <2>9, <2>10, CallsStart DEF Next, Started, Reinit
<1> QED BY <1>2, <1>5, <1>6, <1>7

LEMMA BootCorrect == Spec => [](TypeInv /\ BootInv)
<1>1. Init => BootInv
  BY DEF Init, BootInv
<1> QED BY <1>1, TypeInit, TypeNext, BootNext, PTL DEF Spec

\* A boot that reports success has its BUCKs on and its watchdog counting, whatever it was
\* configured with and whatever failed on the way, but for what the property leaves out.
THEOREM BootSucceeds == Spec => []BootedMeans
<1>1. TypeInv /\ BootInv => BootedMeans
  <2> SUFFICES ASSUME TypeInv, BootInv, Idle, call.name = "boot", call.ret = "OK"
               PROVE  /\ \A b \in Bucks : On(b) \/ b \in unseen
                      /\ faults = 0 => (chip[Reg("WDOG_RESPONSE")] > 0 <=> call.arg.timeout >= 256)
    BY DEF BootedMeans
  <2> DEFINE e == SetLast(call.arg)  t == call.arg.timeout
  <2>1. call.arg \in Configs
    BY DEF TypeInv
  <2>2. e \in {20, 21} /\ BootLen(call.arg) = 2 * e - 1 /\ t \in Nat
    BY <2>1, PmicAssumption DEF SetLast, BootLen
  <2>3. Made = 2 * e - 1
    <3>1. Len(call.todo) = 0
      BY EmptySeq DEF Idle
    <3> QED BY <2>2, <3>1 DEF Made
  <2>4. BootDone
    BY DEF BootInv
  <2>5. \A b \in Bucks : On(b) \/ b \in unseen
    BY <2>2, <2>3, <2>4 DEF BootDone, Bucks
  <2>6. faults = 0 => chip[Reg("WDOG_RESPONSE")] = WatchdogTime(t)
    BY <2>2, <2>3, <2>4 DEF BootDone
  <2>7. WatchdogTime(t) > 0 <=> t >= 256
    BY <2>2 DEF WatchdogTime
  <2> QED BY <2>5, <2>6, <2>7
<1> QED BY <1>1, BootCorrect, PTL

\* A boot turns the BUCKs on in the order that its configuration and then its own table
\* give, for every configuration and whatever fails on the way.
THEOREM BucksComeInTurn == Spec => BucksInTurn
<1>1. TypeInv /\ BootInv /\ [Next]_vars =>
        [call.name = "boot" =>
           \A b, c \in Bucks :
             ~On(b) /\ On(b)' /\ ComesBefore(call.arg, c, b) => On(c) \/ c \in missed]_vars
  <2> SUFFICES ASSUME TypeInv, BootInv, Next, call.name = "boot", NEW b \in Bucks, NEW c \in Bucks,
                      ~On(b), On(b)', ComesBefore(call.arg, c, b)
               PROVE  On(c) \/ c \in missed
    BY DEF vars
  <2>1. chip = [r \in Regs |-> chip[r]] /\ b \in Rails /\ b \in 0..4 /\ c \in 0..4
    BY DEF TypeInv, Bucks, Rails
  <2>2. chip'[Conf(b)] # chip[Conf(b)]
    BY DEF On
  <2>3. Write \/ Fail
    <3>1. ~Wake /\ ~Flag
      <4>1. Conf(b) # Reg("PWR_STATUS") /\ Conf(b) # Reg("ESM_STATUS") /\ Conf(b) \in Regs
        BY <2>1 DEF Conf, Reg, Regs
      <4> QED BY <2>1, <2>2, <4>1 DEF Wake, Flag
    <3> QED BY <2>2, <3>1, CallsStart DEF Next, Started, Read, CheckRail, Local, Reinit
  <2>4. ~Idle /\ Now.op \in WriteOps /\ chip' = Written
    BY <2>2, <2>3 DEF Write, Fail, WriteOps
  <2>5. Booting
    BY <2>4 DEF BootInv, Booting
  <2> DEFINE e == SetLast(call.arg)  i == Made + 1
  <2>6. e \in {20, 21} /\ Made \in Nat
    BY <2>5, BootNow, Rows
  <2>7. Now.reg = Conf(b)
    BY <2>1, <2>2, <2>4, BootWritten
  <2>8. /\ \A d \in Bucks : Made >= 2 * d + 2 /\ EnabledBy(call.arg, d) => On(d)
        /\ \A j \in 1..5 : Made >= e + j => On(BootOrder[j]) \/ BootOrder[j] \in missed
    BY <2>5 DEF BootInv, Booting, BootDone
  <2>9. \/ i = 2 * b + 2 /\ Now = Put(Conf(b), ConfBits(b, call.arg.rails[b + 1]))
        \/ \E j \in 1..5 : i = e + j /\ b = BootOrder[j]
    BY <2>1, <2>4, <2>5, <2>7, BootWrites
  <2>10. CASE i = 2 * b + 2 /\ Now = Put(Conf(b), ConfBits(b, call.arg.rails[b + 1]))
    <3>1. chip'[Conf(b)] = ConfBits(b, call.arg.rails[b + 1])
      BY <2>1, <2>4, <2>10, BootWritten
    <3>2. EnabledBy(call.arg, b)
      BY <3>1 DEF On, ConfBits, EnabledBy
    <3>3. EnabledBy(call.arg, c) /\ c < b
      BY <3>2 DEF ComesBefore, EnabledBy
    <3>4. Made >= 2 * c + 2
      BY <2>1, <2>6, <2>10, <3>3
    <3> QED BY <2>8, <3>3, <3>4
  <2>11. ASSUME NEW j \in 1..5, i = e + j, b = BootOrder[j] PROVE On(c) \/ c \in missed
    <3>1. \A d \in Bucks : Made >= 2 * d + 2
      BY <2>6, <2>11 DEF Bucks
    <3>2. ~EnabledBy(call.arg, b)
      BY <2>8, <3>1
    <3>3. CASE EnabledBy(call.arg, c)
      BY <2>8, <3>1, <3>3
    <3>4. CASE ~EnabledBy(call.arg, c)
      <4>1. (IF c = 1 THEN 5 ELSE c) < (IF b = 1 THEN 5 ELSE b)
        BY <3>2, <3>4 DEF ComesBefore, EnabledBy
      <4>2. \E k \in 1..5 : c = BootOrder[k] /\ k < j
        BY <2>1, <2>11, <4>1 DEF BootOrder
      <4>3. PICK k \in 1..5 : c = BootOrder[k] /\ k < j
        BY <4>2
      <4>4. Made >= e + k
        BY <2>6, <2>11, <4>3
      <4> QED BY <2>8, <4>3, <4>4
    <3> QED BY <3>3, <3>4
  <2> QED BY <2>9, <2>10, <2>11
<1> QED BY <1>1, BootCorrect, PTL DEF Spec, BucksInTurn
=============================================================================
