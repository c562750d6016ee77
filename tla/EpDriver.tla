------------------------------ MODULE EpDriver ------------------------------
(***************************************************************************)
(* The PCIe endpoint driver (pcie_ep_driver/xilinx_pcie_ep.c): devices     *)
(* that are probed, removed and shut down while processes hold files on    *)
(* them and interrupts come in.  Probe is one step a call that can fail or *)
(* that others can see; its error labels and remove are one ladder, since  *)
(* they undo the same things in the same order.  The locked sections of    *)
(* ioctl and of the interrupt handler are one step each, but not the one   *)
(* of shutdown, which leaves interrupts on.  Interrupts show only where    *)
(* their handler meets a lock: what it does with the device is log it.     *)
(***************************************************************************)
EXTENDS Integers, FiniteSets, FiniteSetsExt

CONSTANTS
  Devices,      \* the endpoints on the bus
  WithBar1,     \* those that have a BAR1
  Files,        \* the file descriptors processes may use
  Limits,       \* what max_devices may be set to when the module is loaded
  Records,      \* the addresses kzalloc may give a device's record
  Nowhere       \* not an address

VARIABLES
  module,       \* "out", "in", or "leaving" while it is being unloaded
  max_devices,
  dev_minor,    \* the minor numbers marked in the bitmap
  at,           \* where each device's probe, remove or shutdown is
  held,         \* what probe took for the device and has not given back
  record,       \* the address of each device's record, while it has one
  minor,        \* the number its probe found
  refcount,
  running,      \* CTRL_START of each device: the register outlives the record
  file,         \* the address each descriptor goes by and how far its open is
  shared,       \* history: numbers in use that two probes took
  inherited     \* history: files open on the address when probe was given it

\* What belongs to a record and goes with it.
recordVars == <<record, minor, refcount, inherited>>

vars == <<module, max_devices, dev_minor, at, held, running, file, shared, recordVars>>

ASSUME EpAssumption ==
  /\ IsFiniteSet(Devices) /\ IsFiniteSet(Files)
  /\ Limits \subseteq (Nat \ {0}) /\ IsFiniteSet(Limits) /\ Limits # {}
  /\ WithBar1 \subseteq Devices /\ Nowhere \notin Records

-----------------------------------------------------------------------------
\* The calls of probe in their order, each with the one after it.
NextStep == [enabled |-> "regions", regions |-> "bar0", bar0 |-> "bar1",
             bar1 |-> "mask", mask |-> "buffer", buffer |-> "irq", irq |-> "number",
             number |-> "mark", mark |-> "cdev",
             cdev |-> "node", node |-> "bound"]

\* mutated FailsTo: a refused interrupt leaves the buffer allocated
FailsPastBuffer ==
  [enabled |-> "err_free", regions |-> "err_disable", bar0 |-> "err_release",
   mask |-> "err_unmap", irq |-> "err_unmap", number |-> "err_irq",
   cdev |-> "err_bit", node |-> "err_cdev"]

\* The label each failing call jumps to.
FailsTo ==
  [enabled |-> "err_free", regions |-> "err_disable", bar0 |-> "err_release",
   mask |-> "err_unmap", irq |-> "err_dma", number |-> "err_irq",
   cdev |-> "err_bit", node |-> "err_cdev"]

\* mutated FallsTo: the registers are unmapped before the handler is freed
FallsUnmapFirst ==
  [remove |-> "err_cdev", err_cdev |-> "err_bit", err_bit |-> "err_dma",
   err_dma |-> "err_unmap", err_unmap |-> "err_irq", err_irq |-> "err_release",
   err_release |-> "err_disable", err_disable |-> "err_free", err_free |-> "unbound"]

\* The labels in the order they fall through; remove comes in above them.
FallsTo ==
  [remove |-> "err_cdev", err_cdev |-> "err_bit", err_bit |-> "err_irq",
   err_irq |-> "err_dma", err_dma |-> "err_unmap", err_unmap |-> "err_release",
   err_release |-> "err_disable", err_disable |-> "err_free", err_free |-> "unbound"]

\* What the code at each label gives back.
Undoes ==
  [remove |-> {"node"}, err_cdev |-> {"cdev"}, err_bit |-> {"bit"},
   err_irq |-> {"irq"}, err_dma |-> {"buffer"}, err_unmap |-> {"bar0", "bar1"},
   err_release |-> {"regions"}, err_disable |-> {"enabled"}, err_free |-> {"memory"}]

Resources == UNION {Undoes[l] : l \in DOMAIN Undoes}

\* Probe goes on without these.
Optional == {"bar1", "buffer"}

Minors == 0..(max_devices - 1)
NoMinor == -1

Places == DOMAIN NextStep \cup DOMAIN FallsTo
            \cup {"unbound", "bound", "locked", "down", "hung"}

-----------------------------------------------------------------------------
Closed == [rec |-> Nowhere, at |-> "closed"]

Init ==
  /\ module = "out"
  /\ max_devices \in Limits
  /\ dev_minor = {}
  /\ at = [d \in Devices |-> "unbound"]
  /\ held = [d \in Devices |-> {}]
  /\ record = [d \in Devices |-> Nowhere]
  /\ minor = [d \in Devices |-> NoMinor]
  /\ refcount = [d \in Devices |-> 0]
  /\ running = [d \in Devices |-> FALSE]
  /\ file = [f \in Files |-> Closed]
  /\ shared = {}
  /\ inherited = [d \in Devices |-> 0]

\* xilinx_ep_init that succeeds; one that fails undoes what it did.
Load ==
  /\ module = "out"
  /\ module' = "in"
  /\ UNCHANGED <<max_devices, dev_minor, at, held, running, file, shared, recordVars>>

\* rmmod: refused while a file is open, since the files hold the module.
\* pci_unregister_driver then removes the devices one by one.
Unload ==
  /\ module = "in"
  /\ \A f \in Files : file[f].at = "closed"
  /\ module' = "leaving"
  /\ UNCHANGED <<max_devices, dev_minor, at, held, running, file, shared, recordVars>>

\* The rest of xilinx_ep_exit, once no device is bound.  The next load may set
\* another limit.
Unloaded ==
  /\ module = "leaving"
  /\ \A d \in Devices : at[d] = "unbound"
  /\ module' = "out"
  /\ dev_minor' = {} /\ shared' = {}
  /\ max_devices' \in Limits
  /\ UNCHANGED <<at, held, running, file, recordVars>>

-----------------------------------------------------------------------------
\* The files that are open at an address, whatever lies there by now.
OpenAt(r) == {f \in Files : file[f].rec = r /\ file[f].at = "open"}

\* probe: kzalloc, refcount and lock.  The address may be one that a removed
\* device's record had.  When kzalloc fails nothing has happened.
Probe(d) ==
  /\ module = "in"
  /\ at[d] = "unbound"
  /\ \E r \in Records \ {record[e] : e \in Devices} :
       /\ record' = [record EXCEPT ![d] = r]
       /\ inherited' = [inherited EXCEPT ![d] = Cardinality(OpenAt(r))]
  /\ at' = [at EXCEPT ![d] = "enabled"]
  /\ held' = [held EXCEPT ![d] = {"memory"}]
  /\ minor' = [minor EXCEPT ![d] = NoMinor]
  /\ refcount' = [refcount EXCEPT ![d] = 0]
  /\ UNCHANGED <<module, max_devices, dev_minor, running, file, shared>>

\* A call of probe that gets what it asked for.
Acquire(d) ==
  /\ at[d] \in {"enabled", "regions", "bar0", "bar1", "buffer", "irq", "cdev"}
  /\ at[d] = "bar1" => d \in WithBar1
  /\ held' = [held EXCEPT ![d] = @ \cup {at[d]}]
  /\ at' = [at EXCEPT ![d] = NextStep[@]]
  /\ UNCHANGED <<module, max_devices, dev_minor, running, file, shared, recordVars>>

\* The DMA mask is set; or BAR1 is absent or cannot be mapped; or neither a
\* coherent buffer nor the fallback could be allocated, which is not looked at.
GoOn(d) ==
  /\ at[d] \in {"mask"} \cup Optional
  /\ at' = [at EXCEPT ![d] = NextStep[@]]
  /\ UNCHANGED <<module, max_devices, dev_minor, held, running, file, shared, recordVars>>

\* A call of probe that fails.  The search for a number has its own action.
Refused(d) ==
  /\ at[d] \in DOMAIN FailsTo \ {"number"}
  /\ at' = [at EXCEPT ![d] = FailsTo[@]]
  /\ UNCHANGED <<module, max_devices, dev_minor, held, running, file, shared, recordVars>>

FreeMinors == Minors \ dev_minor

\* find_first_zero_bit: without a lock, and apart from set_bit.
FindMinor(d) ==
  /\ at[d] = "number"
  /\ IF FreeMinors = {}
       THEN /\ at' = [at EXCEPT ![d] = FailsTo[@]]
            /\ UNCHANGED minor
       ELSE /\ minor' = [minor EXCEPT ![d] = Min(FreeMinors)]
            /\ at' = [at EXCEPT ![d] = NextStep[@]]
  /\ UNCHANGED <<module, max_devices, dev_minor, held, running, file, shared,
                 record, refcount, inherited>>

\* set_bit, and cdev_init.
SetMinor(d) ==
  /\ at[d] = "mark"
  /\ dev_minor' = dev_minor \cup {minor[d]}
  /\ held' = [held EXCEPT ![d] = @ \cup {"bit"}]
  /\ shared' = shared \cup {m \in {minor[d]} : \E e \in Devices \ {d} :
                              "bit" \in held[e] /\ minor[e] = m}
  /\ at' = [at EXCEPT ![d] = NextStep[@]]
  /\ UNCHANGED <<module, max_devices, running, file, recordVars>>

\* device_create and pci_set_drvdata.  A second node of one number is refused
\* by the kernel (Refused); cdev_add does take a second device of one number.
CreateNode(d) ==
  /\ at[d] = "node"
  /\ \A e \in Devices : "node" \in held[e] => minor[e] # minor[d]
  /\ held' = [held EXCEPT ![d] = @ \cup {"node"}]
  /\ at' = [at EXCEPT ![d] = NextStep[@]]
  /\ UNCHANGED <<module, max_devices, dev_minor, running, file, shared, recordVars>>

-----------------------------------------------------------------------------
\* The device is taken out or unbound from the driver, at any time: remove
\* looks at neither the reference count nor the engine.
Remove(d) ==
  /\ at[d] \in {"bound", "down"}
  /\ at' = [at EXCEPT ![d] = "remove"]
  /\ UNCHANGED <<module, max_devices, dev_minor, held, running, file, shared, recordVars>>

\* mutated MinorsAfter: the number is never cleared
KeepMinor(d) == dev_minor

\* clear_bit at err_bit, and in remove
MinorsAfter(d) == IF at[d] = "err_bit" THEN dev_minor \ {minor[d]} ELSE dev_minor

\* err_free and the end of remove free the record.  Nobody tells the files.
FreesRecord(d) ==
  LET Reset(was, to) == IF at[d] = "err_free" THEN [was EXCEPT ![d] = to] ELSE was
  IN  /\ record' = Reset(record, Nowhere)
      /\ minor' = Reset(minor, NoMinor)
      /\ refcount' = Reset(refcount, 0)
      /\ inherited' = Reset(inherited, 0)

\* The code at one label of the ladder.
Undo(d) ==
  /\ at[d] \in DOMAIN Undoes
  /\ held' = [held EXCEPT ![d] = @ \ Undoes[at[d]]]
  /\ dev_minor' = MinorsAfter(d)
  /\ FreesRecord(d)
  /\ at' = [at EXCEPT ![d] = FallsTo[@]]
  /\ shared' = {m \in shared : \E e \in Devices : "bit" \in held'[e] /\ minor[e] = m}
  /\ UNCHANGED <<module, max_devices, running, file>>

-----------------------------------------------------------------------------
\* chrdev_open found the cdev under its number: from here on the file holds
\* the module, and the address of the record the cdev lies in, for good.
Open(f, d) ==
  /\ module = "in"
  /\ file[f].at = "closed"
  /\ "cdev" \in held[d]
  /\ file' = [file EXCEPT ![f] = [rec |-> record[d], at |-> "opening"]]
  /\ UNCHANGED <<module, max_devices, dev_minor, at, held, running, shared, recordVars>>

\* atomic_add at the file's address, freed or not: on the count of the device
\* whose record lies there now.  On memory that is no record it shows nowhere,
\* since kzalloc clears what it hands out.
Count(f, n) ==
  refcount' = [d \in Devices |-> IF record[d] = file[f].rec THEN refcount[d] + n ELSE refcount[d]]

\* mutated EpRelease: only one of several files counts down
CloseUncounted(f) ==
  /\ file[f].at = "open"
  /\ file' = [file EXCEPT ![f] = Closed]
  /\ UNCHANGED <<module, max_devices, dev_minor, at, held, running, shared, recordVars>>

EpOpen(f) ==
  /\ file[f].at = "opening"
  /\ file' = [file EXCEPT ![f].at = "open"]
  /\ Count(f, 1)
  /\ UNCHANGED <<module, max_devices, dev_minor, at, held, running, shared,
                 record, minor, inherited>>

EpRelease(f) ==
  /\ file[f].at = "open"
  /\ file' = [file EXCEPT ![f] = Closed]
  /\ Count(f, -1)
  /\ UNCHANGED <<module, max_devices, dev_minor, at, held, running, shared,
                 record, minor, inherited>>

\* An ioctl of f gets at d: its record lies at the file's address, also when
\* the file was opened on another one there; the lock is free and the registers
\* are mapped.  Without a record or registers it is not defined what happens.
Reaches(f, d) ==
  /\ file[f].at = "open"
  /\ record[d] = file[f].rec
  /\ at[d] \notin {"locked", "hung"}
  /\ "bar0" \in held[d]

\* XILINX_EP_IOC_START and DMA_START, with the lock held throughout.
Start(f, d) ==
  /\ Reaches(f, d)
  /\ running' = [running EXCEPT ![d] = TRUE]
  /\ UNCHANGED <<module, max_devices, dev_minor, at, held, file, shared, recordVars>>

\* XILINX_EP_IOC_STOP and DMA_STOP.  RESET writes back what it read; CONFIG,
\* STATUS and DMA_ALLOC leave the engine alone.
Stop(f, d) ==
  /\ Reaches(f, d)
  /\ running' = [running EXCEPT ![d] = FALSE]
  /\ UNCHANGED <<module, max_devices, dev_minor, at, held, file, shared, recordVars>>

-----------------------------------------------------------------------------
\* xilinx_ep_shutdown takes the lock with spin_lock.
ShutdownLocks(d) ==
  /\ at[d] = "bound"
  /\ at' = [at EXCEPT ![d] = "locked"]
  /\ UNCHANGED <<module, max_devices, dev_minor, held, running, file, shared, recordVars>>

\* An interrupt on the shared line, on the processor that shutdown runs on:
\* the handler waits for the lock and shutdown for the handler.
HandlerSpins(d) ==
  /\ at[d] = "locked"
  /\ "irq" \in held[d]
  /\ at' = [at EXCEPT ![d] = "hung"]
  /\ UNCHANGED <<module, max_devices, dev_minor, held, running, file, shared, recordVars>>

\* It stops the engine and gives the lock back; then it disables interrupts and
\* waits for handlers that run elsewhere.
ShutdownStops(d) ==
  /\ at[d] = "locked"
  /\ running' = [running EXCEPT ![d] = FALSE]
  /\ at' = [at EXCEPT ![d] = "down"]
  /\ UNCHANGED <<module, max_devices, dev_minor, held, file, shared, recordVars>>

-----------------------------------------------------------------------------
DeviceStep(d) ==
  \/ Probe(d) \/ Acquire(d) \/ GoOn(d) \/ Refused(d)
  \/ FindMinor(d) \/ SetMinor(d) \/ CreateNode(d)
  \/ Remove(d) \/ Undo(d)
  \/ ShutdownLocks(d) \/ HandlerSpins(d) \/ ShutdownStops(d)

FileStep(f) ==
  \/ \E d \in Devices : Open(f, d) \/ Start(f, d) \/ Stop(f, d)
  \/ EpOpen(f) \/ EpRelease(f)

Next ==
  \/ Load \/ Unload \/ Unloaded
  \/ \E d \in Devices : DeviceStep(d)
  \/ \E f \in Files : FileStep(f)

Spec == Init /\ [][Next]_vars

\* Code that has begun goes on: probe, the labels, remove and shutdown, but
\* for what the environment decides.
Continues(d) ==
  \/ Acquire(d) \/ GoOn(d) \/ Refused(d) \/ FindMinor(d) \/ SetMinor(d)
  \/ CreateNode(d) \/ Undo(d) \/ ShutdownStops(d)

FairSpec == Spec /\ \A d \in Devices : WF_vars(Continues(d))

-----------------------------------------------------------------------------
\* Error paths and remove give back what probe took, no more and no less: no
\* label frees what was not taken (BAR1 and the buffer are tested for), and a
\* device that is not bound holds nothing, wherever its probe failed.
UndoneExactly ==
  \A d \in Devices :
    /\ at[d] \in DOMAIN Undoes => Undoes[at[d]] \ Optional \subseteq held[d]
    /\ at[d] = "unbound" => held[d] = {}

\* Whenever the interrupt handler can be called, its record and the registers
\* it reads are there: in probe, on the error paths and in remove.
HandlerHasItsDevice ==
  \A d \in Devices : "irq" \in held[d] => {"memory", "bar0"} \subseteq held[d]

\* The bitmap says which numbers are in use: no mark stays behind, and a device
\* keeps its mark unless another probe took the same number, since the search
\* and the marking are two steps; then the first to give the number back takes
\* the mark from the other.
MarksMatch ==
  /\ dev_minor \subseteq {minor[d] : d \in {e \in Devices : "bit" \in held[e]}}
  /\ \A d \in Devices : "bit" \in held[d] => minor[d] \in dev_minor \cup shared

\* The reference count of a device counts the files that are open at its
\* record, less those that were left open there when an earlier record at that
\* address was freed: nobody looks at the count before remove frees it, such a
\* file counts down on the record that comes to lie there, and then the count
\* of a device can be below zero and is never right again.
RefcountCountsFiles ==
  \A d \in Devices : "memory" \in held[d] =>
    refcount[d] = Cardinality(OpenAt(record[d])) - inherited[d]

\* Removing a device stops its engine, as the check list of
\* docs/09_hotplug.md:279 has it: "stop DMA in remove".
RemoveStopsDma == \A d \in Devices : at[d] = "remove" ~> ~running[d]
=============================================================================
