-------------------------------- MODULE Pmic --------------------------------
(***************************************************************************)
(* The TPS6594 driver (tps6594_driver/src/tps6594.c) and the boot sequence *)
(* of tps6594_safertos.c.  A function of the driver is a program of bus    *)
(* transfers: a sequence of calls, each of which its caller must see       *)
(* succeed or ignores, and each a sequence of transfers of which the first *)
(* that fails ends it.  One action is one transfer, and any of them can    *)
(* fail.  A failed write was tried three times: the chip has taken it, or  *)
(* not.  The registers are sets of bits, but for the voltages, the power   *)
(* states and the watchdog time, which are numbers.  Fields of the record  *)
(* that nothing reads (identity, revision, power good) are left out, and   *)
(* calls that the guards refuse have no effect.                            *)
(***************************************************************************)
EXTENDS Integers, Sequences

CONSTANTS
  Configs,    \* the configurations the caller may give
  Voltages,   \* the millivolts it may ask for
  Timeouts,   \* the milliseconds it may give the watchdog
  MaxCalls,   \* bound: calls a behaviour makes after the probe
  WholeCost,  \* bound: how many of them boot, set_config and deinit count for
  MaxFaults   \* bound: transfers that fail in a behaviour

\* Times and voltages are unsigned, and so are the numbers of pins, modes and rails.
Rail == [mv : Nat, enable : BOOLEAN, mode : BOOLEAN, low_noise : BOOLEAN]
ASSUME PmicAssumption ==
  /\ \A c \in Configs :
       /\ c.rails \in [1..9 -> Rail] /\ c.sleep \in BOOLEAN /\ c.retention \in BOOLEAN
       /\ c.bucks \subseteq Nat /\ c.ldos \subseteq Nat
       /\ c.watchdog \in BOOLEAN /\ c.timeout \in Nat /\ c.esm \in Nat
  /\ Voltages \subseteq Nat /\ Timeouts \subseteq Nat

VARIABLES
  chip,       \* the registers of the chip
  dev,        \* tps6594_dev_t: initialized, current_state, voltage_mv of each rail
  call,       \* the call in progress and what is left of it, or the last one's result
  val,        \* the value last read
  calls, faults,
  taken,      \* history: registers where a write that was reported failed is in effect
  source,     \* history: how current_state came about: "told", "asked", "assumed"
  moved,      \* history: the chip changed its state since then
  unseen,     \* history: rails of the last boot whose status could not be read
  missed      \* history: rails whose settings the last call failed to read or write

vars == <<chip, dev, call, val, calls, faults, taken, source, moved, unseen, missed>>

-----------------------------------------------------------------------------
\* tps6594_regulator_id_t: BUCK1 is 0, LDO1 is 5.
Rails == 0..8
Bucks == 0..4

\* The states of tps6594_power_state_t are the codes PWR_CTRL takes.
ACTIVE == 0
STANDBY == 1
BACKUP == 2
SHUTDOWN == 3
UNKNOWN == 6

Reg(name) == <<name, 0>>
Volt(id) == <<"VOLT", id>>
Conf(id) == <<"CONF", id>>

\* PWR_STATUS numbers the states the other way round: 0 is shutdown, 3 active.
StatusOf(state) == 3 - state

-----------------------------------------------------------------------------
\* The transfers.  "note" says what the driver records when it succeeds.
Step(op, reg, bits, note) == [op |-> op, reg |-> reg, bits |-> bits, note |-> note]
Plain == <<"none">>

Get(reg) == Step("get", reg, {}, Plain)
GetNote(reg, note) == Step("get", reg, {}, note)
Put(reg, v) == Step("put", reg, v, Plain)
PutNote(reg, v, note) == Step("put", reg, v, note)

\* Writes of the value last read, with bits set, cleared, toggled or as it was.
Set(reg, bits) == Step("set", reg, bits, Plain)
Clear(reg, bits) == Step("clear", reg, bits, Plain)
Toggle(reg, bits) == Step("toggle", reg, bits, Plain)

\* No transfer: the arguments are refused, or only the record changes.
Inval == Step("inval", Reg("NONE"), {}, Plain)
Record(note) == Step("record", Reg("NONE"), {}, note)
Check(id) == Step("check", <<"PG_STATUS", id>>, {}, Plain)

Must(steps) == [must |-> TRUE, steps |-> steps]
Try(steps) == [must |-> FALSE, steps |-> steps]

\* tps6594_probe: with another chip's identity it ends there.
Probe == <<Must(<<GetNote(Reg("DEVICE_ID"), <<"identity">>)>>), Must(<<Get(Reg("INT_STS"))>>),
           Must(<<GetNote(Reg("PWR_STATUS"), <<"probed">>)>>)>>

\* tps6594_reg_modify with the enable bit of a rail.
RegulatorEnable(id) == <<Get(Conf(id)), Set(Conf(id), {7})>>
RegulatorDisable(id) == <<Get(Conf(id)), Clear(Conf(id), {7})>>

\* tps6594_regulator_get_status: LDO1 is looked up in the bit of BUCK3.
GetStatus(id) == <<Get(<<"PG_STATUS", id>>)>>
PgBit(id) == IF id \in Bucks THEN id ELSE id - 3

\* The range and step of a rail.
MinMv(id) == IF id \in Bucks THEN 300 ELSE 600
MaxMv(id) == IF id \in Bucks THEN 3340 ELSE 3300
StepMv(id) == IF id \in Bucks THEN 5 ELSE 50

\* mutated VoltCode: a lowest code one step up
VoltCodeFromOne(id, mv) == ((mv - MinMv(id)) \div StepMv(id) + 1) % 256

\* The code of a voltage, cut to the eight bits of the register.
VoltCode(id, mv) == ((mv - MinMv(id)) \div StepMv(id)) % 256

\* tps6594_regulator_set_voltage; get_voltage reads the same register back.
SetVoltage(id, mv) ==
  IF mv \in MinMv(id)..MaxMv(id)
  THEN <<PutNote(Volt(id), VoltCode(id, mv), <<"voltage", id, mv>>)>>
  ELSE <<Inval>>
GetVoltage(id) == <<Get(Volt(id))>>
MvOf(id, code) == MinMv(id) + code * StepMv(id)

\* mutated SetPowerState: the codes of PWR_STATUS in PWR_CTRL
SetPowerByStatus(state) ==
  IF state \in ACTIVE..SHUTDOWN
  THEN <<PutNote(Reg("PWR_CTRL"), StatusOf(state), <<"state", state>>)>>
  ELSE <<Inval>>

\* tps6594_set_power_state and get_power_state.
SetPowerState(state) ==
  IF state \in ACTIVE..SHUTDOWN
  THEN <<PutNote(Reg("PWR_CTRL"), state, <<"state", state>>)>>
  ELSE <<Inval>>
GetPowerState == <<GetNote(Reg("PWR_STATUS"), <<"status">>)>>

\* mutated EnterSleep: the chip goes to standby before sleep is enabled
EnterStandbyFirst ==
  SetPowerState(STANDBY) \o <<Get(Reg("SLEEP_CONF")), Set(Reg("SLEEP_CONF"), {0})>>

\* tps6594_enter_sleep and exit_sleep, which never writes PWR_CTRL.
EnterSleep ==
  <<Get(Reg("SLEEP_CONF")), Set(Reg("SLEEP_CONF"), {0})>> \o SetPowerState(STANDBY)
ExitSleep ==
  <<Get(Reg("SLEEP_CONF")), Step("clear", Reg("SLEEP_CONF"), {0}, <<"awake">>)>>

\* tps6594_configure_sleep: bit 0 is both SLEEP_EN and BUCK1's, and of the LDOs'
\* four bits two are left, one of them that of the retention.
SleepBits(cfg) ==
  (IF cfg.sleep THEN {0} ELSE {}) \cup (IF cfg.retention THEN {6} ELSE {})
    \cup (cfg.bucks \cap Bucks) \cup {6 + n : n \in cfg.ldos \cap {0, 1}}
ConfigureSleep(cfg) ==
  <<Put(Reg("SLEEP_CONF"), SleepBits(cfg)), Put(Reg("WAKE_CONF"), {0})>>
\* tps6594_enable_wake: the same bits, and the one that enables the pin.
EnableWake(pin) == IF pin > 6 THEN <<Inval>> ELSE <<Put(Reg("WAKE_CONF"), {0, 7})>>

\* tps6594_watchdog_enable keeps the upper bits of the time; 0 disables.
WatchdogTime(ms) == ((IF ms > 32000 THEN 32000 ELSE ms) \div 256) % 128
WatchdogEnable(ms) == <<Put(Reg("WDOG_RESPONSE"), WatchdogTime(ms))>>
WatchdogDisable == <<Put(Reg("WDOG_RESPONSE"), 0)>>
WatchdogPet == <<Get(Reg("WDOG_CONF")), Toggle(Reg("WDOG_CONF"), {1})>>

\* tps6594_esm_*: the reset writes back what it read, which clears it.
EsmEnable(mode) ==
  IF mode > 2 THEN <<Inval>>
  ELSE <<Put(Reg("ESM_CONF"), (IF mode = 0 THEN {} ELSE {mode - 1}) \cup {7})>>
EsmDisable == <<Put(Reg("ESM_CONF"), {})>>
\* mutated EsmReset: every bit is cleared
EsmResetAll == <<Get(Reg("ESM_STATUS")), Put(Reg("ESM_STATUS"), {0, 1})>>
EsmReset == <<Get(Reg("ESM_STATUS")), Set(Reg("ESM_STATUS"), {})>>

\* The interrupt calls: the mask is read, changed and written.
EnableInterrupts(mask) == <<Get(Reg("INT_MSK")), Set(Reg("INT_MSK"), mask)>>
DisableInterrupts(mask) == <<Get(Reg("INT_MSK")), Clear(Reg("INT_MSK"), mask)>>
ClearInterrupts(mask) == <<Put(Reg("INT_STS"), mask)>>
GetPendingInterrupts == <<Get(Reg("INT_STS"))>>

\* tps6594_nvm_lock, the one call that does not ask for a probed device.
NvmLock(lock) == <<Put(Reg("NVM_LOCK"), IF lock THEN {7} ELSE {})>>
NvmCrcCheck == <<Get(Reg("FAULT_STS"))>>

-----------------------------------------------------------------------------
\* What set_config writes to a rail's CONF; only LDO4 has a low noise mode.
ConfBits(id, c) ==
  (IF c.enable THEN {7} ELSE {}) \cup (IF c.mode THEN {6} ELSE {})
    \cup (IF id = 8 /\ c.low_noise THEN {5} ELSE {})

\* A rail's voltage, at odd places, and then its settings.
SetRail(id, c, first) ==
  Must(IF first THEN SetVoltage(id, c.mv) ELSE <<Put(Conf(id), ConfBits(id, c))>>)

\* tps6594_set_config: rails in the order of their numbers, and the results of
\* the watchdog and of the ESM ignored.
SetConfig(cfg) ==
  [i \in 1..18 |-> SetRail((i - 1) \div 2, cfg.rails[(i + 1) \div 2], i % 2 = 1)]
    \o <<Must(ConfigureSleep(cfg)),
         Try(IF cfg.watchdog THEN WatchdogEnable(cfg.timeout) ELSE WatchdogDisable)>>
    \o (IF cfg.esm > 0 THEN <<Try(EsmEnable(cfg.esm))>> ELSE <<>>)

\* mutated BootOrder: by number
BootByNumber == <<0, 1, 2, 3, 4>>

\* I/O first, core next, DDR last.
BootOrder == <<0, 2, 3, 4, 1>>

\* mutated BootChecks: BUCK5 is not looked at
BootChecksFour == [i \in 1..8 |-> Try(<<Check(IF i < 5 THEN i - 1 ELSE i)>>)]

\* The power good bits looked at before the boot goes on.
BootChecks == [i \in 1..9 |-> Try(<<Check(i - 1)>>)]

\* tps6594_boot_sequence: the rails' results are ignored, the watchdog is
\* enabled whatever the configuration says.
BootSequence(cfg) ==
  SetConfig(cfg)
    \o [i \in 1..5 |-> Try(RegulatorEnable(BootOrder[i]))]
    \o [i \in 1..4 |-> Try(RegulatorEnable(4 + i))]
    \o BootChecks
    \o <<Try(WatchdogEnable(cfg.timeout))>>
    \o (IF cfg.esm > 0 THEN <<Try(EsmEnable(cfg.esm))>> ELSE <<>>)

\* tps6594_deinit: no result matters.
Deinit ==
  <<Try(WatchdogDisable)>> \o [i \in 1..9 |-> Try(RegulatorDisable(i - 1))]
    \o <<Try(<<Record(<<"deinit">>)>>)>>

-----------------------------------------------------------------------------
Numbers == {"DEVICE_ID", "PWR_STATUS", "PWR_CTRL", "WDOG_RESPONSE"}
BitRegs == {"INT_STS", "INT_MSK", "SLEEP_CONF", "WAKE_CONF", "WDOG_CONF", "ESM_CONF",
            "ESM_STATUS", "NVM_LOCK", "FAULT_STS"}
Regs == ({"VOLT", "CONF"} \X Rails) \cup ((Numbers \cup BitRegs) \X {0})

On(id) == 7 \in chip[Conf(id)]

\* A chip after power on, and the record as tps6594_init leaves it.
NewRecord == [initialized |-> FALSE, state |-> UNKNOWN, mv |-> [id \in Rails |-> 0]]

Init ==
  /\ \E identity \in {0, 36}, status \in {StatusOf(ACTIVE), StatusOf(STANDBY)} :
       chip = [r \in Regs |-> CASE r[1] = "DEVICE_ID" -> identity
                                [] r[1] = "PWR_STATUS" -> status
                                [] r[1] \in {"VOLT", "PWR_CTRL", "WDOG_RESPONSE"} -> 0
                                [] OTHER -> {}]
  /\ dev = NewRecord
  /\ call = [name |-> "init", arg |-> <<>>, todo |-> <<>>, ret |-> "OK"]
  /\ val = {} /\ calls = 0 /\ faults = 0
  /\ taken = {} /\ source = "none" /\ moved = FALSE
  /\ unseen = {} /\ missed = {}

Idle == call.todo = <<>>

Begin(name, arg, todo) ==
  /\ Idle
  /\ call' = [name |-> name, arg |-> arg, todo |-> todo, ret |-> "OK"]
  /\ unseen' = {} /\ missed' = {}
  /\ UNCHANGED <<chip, dev, val, faults, taken, source, moved>>

Call(name, arg, todo) ==
  /\ dev.initialized /\ calls < MaxCalls
  /\ calls' = calls + 1
  /\ Begin(name, arg, todo)

Whole(name, arg, todo) ==
  /\ dev.initialized /\ calls + WholeCost <= MaxCalls
  /\ calls' = calls + WholeCost
  /\ Begin(name, arg, todo)

CallProbe == Begin("probe", <<>>, Probe) /\ ~dev.initialized /\ UNCHANGED calls

CallNvmLock ==
  /\ calls < MaxCalls /\ calls' = calls + 1
  /\ Begin("nvm_lock", <<>>, <<Must(NvmLock(TRUE))>>)

CallRail ==
  \/ \E id \in {1, 7}, mv \in Voltages : Call("set_voltage", <<>>, <<Must(SetVoltage(id, mv))>>)
  \/ Call("get_voltage", <<>>, <<Must(GetVoltage(1))>>)
  \/ Call("get_status", <<>>, <<Must(GetStatus(8))>>)
  \/ Call("enable", <<>>, <<Must(RegulatorEnable(1))>>)
  \/ Call("disable", <<>>, <<Must(RegulatorDisable(1))>>)

CallPower ==
  \/ Call("probe", <<>>, Probe)
  \/ \E s \in {ACTIVE, STANDBY, SHUTDOWN, UNKNOWN} :
       Call("set_power_state", <<>>, <<Must(SetPowerState(s))>>)
  \/ Call("get_power_state", <<>>, <<Must(GetPowerState)>>)
  \/ Call("enter_sleep", <<>>, <<Must(EnterSleep)>>)
  \/ Call("exit_sleep", <<>>, <<Must(ExitSleep)>>)
  \/ \E c \in Configs : Call("configure_sleep", <<>>, <<Must(ConfigureSleep(c))>>)
  \/ \E pin \in {1, 7} : Call("enable_wake", <<>>, <<Must(EnableWake(pin))>>)

CallMonitor ==
  \/ \E ms \in Timeouts : Call("watchdog_enable", <<>>, <<Must(WatchdogEnable(ms))>>)
  \/ Call("watchdog_disable", <<>>, <<Must(WatchdogDisable)>>)
  \/ Call("watchdog_pet", <<>>, <<Must(WatchdogPet)>>)
  \/ \E mode \in {0, 3} : Call("esm_enable", <<>>, <<Must(EsmEnable(mode))>>)
  \/ Call("esm_disable", <<>>, <<Must(EsmDisable)>>)
  \/ Call("esm_reset", <<>>, <<Must(EsmReset)>>)
  \/ Call("enable_interrupts", <<>>, <<Must(EnableInterrupts({1}))>>)
  \/ Call("disable_interrupts", <<>>, <<Must(DisableInterrupts({1}))>>)
  \/ Call("clear_interrupts", <<>>, <<Must(ClearInterrupts({1}))>>)
  \/ Call("get_pending_interrupts", <<>>, <<Must(GetPendingInterrupts)>>)
  \/ Call("nvm_crc_check", <<>>, <<Must(NvmCrcCheck)>>)

CallWhole ==
  \/ \E c \in Configs : Whole("set_config", c, SetConfig(c))
  \/ \E c \in Configs : Whole("boot", c, BootSequence(c))
  \/ Whole("deinit", <<>>, Deinit)

-----------------------------------------------------------------------------
Now == Head(Head(call.todo).steps)

\* What is left after a transfer that succeeded, and after one that failed.
Rest ==
  LET c == Head(call.todo)
  IN  (IF Len(c.steps) = 1 THEN <<>> ELSE <<[must |-> c.must, steps |-> Tail(c.steps)]>>)
        \o Tail(call.todo)
Proceed == call' = [call EXCEPT !.todo = Rest]
GiveUp(error) ==
  call' = IF Head(call.todo).must THEN [call EXCEPT !.todo = <<>>, !.ret = error]
          ELSE [call EXCEPT !.todo = Tail(@)]

\* What a write leaves in the chip: status bits are cleared by a 1, and the
\* state follows PWR_CTRL.
Written ==
  LET new == CASE Now.op = "put" -> Now.bits
               [] Now.op = "set" -> val \cup Now.bits
               [] Now.op = "clear" -> val \ Now.bits
               [] Now.op = "toggle" -> (val \ Now.bits) \cup (Now.bits \ val)
  IN  IF Now.reg[1] \in {"INT_STS", "ESM_STATUS"} THEN [chip EXCEPT ![Now.reg] = @ \ new]
      ELSE IF Now.reg[1] = "PWR_CTRL"
           THEN [chip EXCEPT ![Now.reg] = new, ![Reg("PWR_STATUS")] = StatusOf(new)]
           ELSE [chip EXCEPT ![Now.reg] = new]

\* What the driver records after a transfer.
Note ==
  /\ dev' = CASE Now.note[1] = "voltage" -> [dev EXCEPT !.mv[Now.note[2]] = Now.note[3]]
              [] Now.note[1] = "state" -> [dev EXCEPT !.state = Now.note[2]]
              [] Now.note[1] = "awake" -> [dev EXCEPT !.state = ACTIVE]
              [] Now.note[1] = "status" -> [dev EXCEPT !.state = chip[Reg("PWR_STATUS")]]
              [] Now.note[1] = "probed" ->
                   [dev EXCEPT !.state = chip[Reg("PWR_STATUS")], !.initialized = TRUE]
              [] Now.note[1] = "deinit" -> [dev EXCEPT !.initialized = FALSE]
              [] OTHER -> dev
  /\ IF Now.note[1] \in {"state", "awake", "status", "probed"}
     THEN /\ moved' = FALSE
          /\ source' = CASE Now.note[1] = "state" -> "told"
                         [] Now.note[1] = "awake" -> "assumed"
                         [] OTHER -> "asked"
     ELSE UNCHANGED <<source, moved>>

-----------------------------------------------------------------------------
Read ==
  /\ ~Idle /\ Now.op = "get"
  /\ IF Now.note[1] = "identity" /\ chip[Now.reg] \notin {36, 48}
     THEN GiveUp("NOMATCH") ELSE Proceed
  /\ val' = IF Now.reg[1] \in BitRegs \cup {"CONF"} THEN chip[Now.reg] ELSE val
  /\ Note
  /\ UNCHANGED <<chip, calls, faults, taken, unseen, missed>>

Write ==
  /\ ~Idle /\ Now.op \in {"put", "set", "clear", "toggle"}
  /\ chip' = Written
  /\ taken' = taken \ {Now.reg}
  /\ Proceed /\ Note
  /\ UNCHANGED <<val, calls, faults, unseen, missed>>

\* A read that fails, or a write whose three attempts did.
Fail ==
  /\ ~Idle /\ Now.op \in {"get", "put", "set", "clear", "toggle"}
  /\ faults < MaxFaults /\ faults' = faults + 1
  /\ GiveUp("NOCOMM")
  /\ \/ UNCHANGED <<chip, taken, moved>>
     \/ /\ Now.op # "get"
        /\ chip' = Written
        /\ taken' = taken \cup {Now.reg}
        /\ moved' = (moved \/ Now.reg[1] = "PWR_CTRL")
  /\ missed' = missed \cup {id \in Rails : Now.reg = Conf(id)}
  /\ UNCHANGED <<dev, val, calls, source, unseen>>

\* A power good bit in the boot: when it cannot be read the boot goes by an
\* uninitialized variable.
CheckRail ==
  /\ ~Idle /\ Now.op = "check"
  /\ \E read, good \in BOOLEAN :
       /\ read /\ good /\ PgBit(Now.reg[2]) \in Bucks => On(PgBit(Now.reg[2]))
       /\ read \/ faults < MaxFaults
       /\ faults' = IF read THEN faults ELSE faults + 1
       /\ unseen' = IF good /\ ~read THEN unseen \cup {Now.reg[2]} ELSE unseen
       /\ IF good THEN Proceed ELSE call' = [call EXCEPT !.todo = <<>>, !.ret = "FAULT"]
  /\ UNCHANGED <<chip, dev, val, calls, taken, source, moved, missed>>

\* Steps without a transfer.
Local ==
  /\ ~Idle
  /\ \/ Now.op = "inval" /\ GiveUp("INVAL") /\ UNCHANGED <<dev, source, moved>>
     \/ Now.op = "record" /\ Proceed /\ Note
  /\ UNCHANGED <<chip, val, calls, faults, taken, unseen, missed>>

\* tps6594_init on a record that was in use.
Reinit ==
  /\ Idle /\ dev # NewRecord /\ calls < MaxCalls /\ calls' = calls + 1
  /\ dev' = NewRecord /\ source' = "none" /\ moved' = FALSE
  /\ UNCHANGED <<chip, call, val, faults, taken, unseen, missed>>

\* The chip by itself: a sleeping chip wakes when a pin may wake it, and errors
\* are flagged.
Wake ==
  /\ chip[Reg("PWR_STATUS")] = StatusOf(STANDBY) /\ 7 \in chip[Reg("WAKE_CONF")]
  /\ chip' = [chip EXCEPT ![Reg("PWR_STATUS")] = StatusOf(ACTIVE)]
  /\ moved' = TRUE
  /\ UNCHANGED <<dev, call, val, calls, faults, taken, source, unseen, missed>>

Flag ==
  /\ chip[Reg("ESM_STATUS")] = {} /\ chip' = [chip EXCEPT ![Reg("ESM_STATUS")] = {1}]
  /\ UNCHANGED <<dev, call, val, calls, faults, taken, source, moved, unseen, missed>>

Next ==
  \/ CallProbe \/ CallNvmLock \/ CallRail \/ CallPower \/ CallMonitor \/ CallWhole
  \/ Read \/ Write \/ Fail \/ CheckRail \/ Local \/ Reinit \/ Wake \/ Flag

Spec == Init /\ [][Next]_vars

-----------------------------------------------------------------------------
\* The voltage on record is the one the chip was given, less what does not make
\* a step; for a BUCK of 1580 mV and more it is a multiple of 1280 mV above it,
\* since the code does not fit the register (tps6594.c:321).  A write that was
\* reported failed may be in effect.
VoltageOnRecord == \A id \in Rails :
  dev.mv[id] # 0 /\ Volt(id) \notin taken =>
    LET short == dev.mv[id] - MvOf(id, chip[Volt(id)]) IN
    IF dev.mv[id] < MvOf(id, 256) THEN short \in 0..(StepMv(id) - 1)
    ELSE short >= 256 * StepMv(id)

\* The state on record against the chip's (tps6594.c:439): after a command they
\* agree; after a report they agree in number, which in the enumeration is
\* another state; after exit_sleep the record says active whatever the chip
\* does.  A chip that moved since is not on record.
StateOnRecord ==
  /\ dev.initialized => source # "none"
  /\ source = "told" /\ ~moved => StatusOf(dev.state) = chip[Reg("PWR_STATUS")]
  /\ source = "asked" /\ ~moved => dev.state = chip[Reg("PWR_STATUS")]
  /\ source = "assumed" => dev.state = ACTIVE

\* Whether BUCK c comes before b in a boot: those that the configuration enables
\* come first, in the order of their numbers, and then the others, of which the
\* DDR's BUCK2 is the last.
ComesBefore(cfg, c, b) ==
  LET Enabled(id) == cfg.rails[id + 1].enable
      Turn(id) == IF id = 1 THEN 5 ELSE id
  IN  IF Enabled(b) THEN Enabled(c) /\ c < b ELSE Enabled(c) \/ Turn(c) < Turn(b)

\* When a boot turns on a BUCK, those that come before it are on, but for one
\* whose own transfer failed in this boot: the order survives any failure and
\* any configuration.  The order is not the one the boot announces: a DDR that
\* the configuration enables comes on before the core (tps6594_safertos.c:490).
BucksInTurn == [][
  call.name = "boot" =>
    \A b, c \in Bucks :
      ~On(b) /\ On(b)' /\ ComesBefore(call.arg, c, b) => On(c) \/ c \in missed]_vars

\* A boot that reports success has its BUCKs on, but for those whose status it
\* could not read, and its watchdog counting, but for times below 256 ms
\* (tps6594_safertos.c:515, tps6594.c:561).
BootedMeans ==
  Idle /\ call.name = "boot" /\ call.ret = "OK" =>
    /\ \A b \in Bucks : On(b) \/ b \in unseen
    /\ faults = 0 => (chip[Reg("WDOG_RESPONSE")] > 0 <=> call.arg.timeout >= 256)

\* The chip is sent to standby by enter_sleep with sleep enabled, and going to
\* sleep and coming back leave the rails kept in sleep as configured, but for
\* BUCK1, whose bit is the one that enables sleep (tps6594.c:457-469, 485).
SleepInOrder == [][
  call.name \in {"enter_sleep", "exit_sleep"} /\ ~Idle =>
    /\ chip'[Reg("SLEEP_CONF")] \ {0} = chip[Reg("SLEEP_CONF")] \ {0}
    /\ chip'[Reg("PWR_CTRL")] # chip[Reg("PWR_CTRL")] => 0 \in chip[Reg("SLEEP_CONF")]]_vars

\* An error flagged while esm_reset is between its read and its write is still
\* flagged after it (tps6594.c:628-633).
FreshErrorKept == [][
  call.name = "esm_reset" /\ ~Idle =>
    chip[Reg("ESM_STATUS")] \ val \subseteq chip'[Reg("ESM_STATUS")]]_vars

=============================================================================
