--------------------------- MODULE EpDriverProofs ---------------------------
(***************************************************************************)
(* What holds of the endpoint driver for any number of devices, files and  *)
(* minor numbers: error paths and remove undo what probe did, the handler  *)
(* has what it uses, and the bitmap of minor numbers is right as far as    *)
(* probes do not meet on a number.  The invariant says what a device holds *)
(* at every place of the code.                                             *)
(***************************************************************************)
EXTENDS EpDriver, FiniteSetTheorems, TLAPS

\* What is held for certain at each place: the probe climbs, the labels descend.
Base == {"memory", "enabled", "regions", "bar0"}
All == Base \cup {"irq", "bit", "cdev", "node"}

Needs ==
  [unbound |-> {}, enabled |-> {"memory"}, regions |-> {"memory", "enabled"},
   bar0 |-> {"memory", "enabled", "regions"}, bar1 |-> Base, mask |-> Base,
   buffer |-> Base, irq |-> Base, number |-> Base \cup {"irq"},
   mark |-> Base \cup {"irq"}, cdev |-> Base \cup {"irq", "bit"},
   node |-> Base \cup {"irq", "bit", "cdev"}, bound |-> All,
   locked |-> All, hung |-> All, down |-> All, remove |-> All,
   err_cdev |-> Base \cup {"irq", "bit", "cdev"},
   err_bit |-> Base \cup {"irq", "bit"}, err_irq |-> Base \cup {"irq"},
   err_dma |-> Base, err_unmap |-> Base,
   err_release |-> {"memory", "enabled", "regions"},
   err_disable |-> {"memory", "enabled"}, err_free |-> {"memory"}]

\* Where BAR1 may be mapped, and where there may be a buffer.
MayHold(p) ==
  (IF p \in {"unbound", "enabled", "regions", "bar0", "bar1",
             "err_release", "err_disable", "err_free"} THEN {} ELSE {"bar1"})
  \cup
  (IF p \in {"unbound", "enabled", "regions", "bar0", "bar1", "mask", "buffer",
             "err_unmap", "err_release", "err_disable", "err_free"}
     THEN {} ELSE {"buffer"})

\* A device holds what its place needs, and nothing else that it must not.
Fits(d) ==
  /\ Needs[at[d]] \subseteq held[d]
  /\ held[d] \subseteq Needs[at[d]] \cup MayHold(at[d])

HoldsFit ==
  /\ at \in [Devices -> Places]
  /\ held \in [Devices -> SUBSET Resources]
  /\ \A d \in Devices : Fits(d)

\* Two devices with the same mark are known to share it.
Holders == {d \in Devices : "bit" \in held[d]}
SharingKnown ==
  \A d, e \in Holders : d # e /\ minor[d] = minor[e] => minor[d] \in shared

MinorInv ==
  /\ \E S : minor \in [Devices -> S]
  /\ MarksMatch
  /\ SharingKnown

-----------------------------------------------------------------------------
\* The tables of the code keep what is held and what is needed in step.
LEMMA NeededIsResource ==
  ASSUME NEW p \in Places
  PROVE  Needs[p] \cup MayHold(p) \subseteq Resources
BY DEF Places, NextStep, FallsTo, Needs, MayHold, Resources, Undoes, All, Base

LEMMA AcquireFits ==
  ASSUME NEW p \in {"enabled", "regions", "bar0", "bar1", "buffer", "irq", "cdev"}
  PROVE  /\ NextStep[p] \in Places
         /\ Needs[NextStep[p]] \subseteq Needs[p] \cup {p}
         /\ Needs[p] \cup MayHold(p) \cup {p}
              \subseteq Needs[NextStep[p]] \cup MayHold(NextStep[p])
BY DEF Places, NextStep, FallsTo, Needs, MayHold, All, Base

LEMMA GoOnFits ==
  ASSUME NEW p \in {"mask"} \cup Optional
  PROVE  /\ NextStep[p] \in Places
         /\ Needs[NextStep[p]] \subseteq Needs[p]
         /\ Needs[p] \cup MayHold(p) \subseteq Needs[NextStep[p]] \cup MayHold(NextStep[p])
BY DEF Places, NextStep, FallsTo, Needs, MayHold, Optional, All, Base

LEMMA FailureFits ==
  ASSUME NEW p \in DOMAIN FailsTo
  PROVE  /\ FailsTo[p] \in Places
         /\ Needs[FailsTo[p]] \subseteq Needs[p]
         /\ Needs[p] \cup MayHold(p) \subseteq Needs[FailsTo[p]] \cup MayHold(FailsTo[p])
BY DEF Places, NextStep, FailsTo, FallsTo, Needs, MayHold, All, Base

LEMMA UndoFits ==
  ASSUME NEW p \in DOMAIN Undoes
  PROVE  /\ FallsTo[p] \in Places
         /\ Needs[FallsTo[p]] \subseteq Needs[p] \ Undoes[p]
         /\ (Needs[p] \cup MayHold(p)) \ Undoes[p]
              \subseteq Needs[FallsTo[p]] \cup MayHold(FallsTo[p])
BY DEF Places, NextStep, FallsTo, Undoes, Needs, MayHold, All, Base

-----------------------------------------------------------------------------
\* A device that moves to a place with what fits there, and nothing else moves.
LEMMA MoveFits ==
  ASSUME HoldsFit, NEW d \in Devices, NEW q \in Places, NEW H,
         at' = [at EXCEPT ![d] = q], held' = [held EXCEPT ![d] = H],
         Needs[q] \subseteq H, H \subseteq Needs[q] \cup MayHold(q)
  PROVE  HoldsFit'
<1>1. H \in SUBSET Resources
  BY NeededIsResource
<1>2. at' \in [Devices -> Places] /\ held' \in [Devices -> SUBSET Resources]
  BY <1>1 DEF HoldsFit
<1>3. at'[d] = q /\ held'[d] = H
  BY DEF HoldsFit
<1>4. ASSUME NEW e \in Devices PROVE Fits(e)'
  <2>1. CASE e = d
    BY <1>3, <2>1 DEF Fits
  <2>2. CASE e # d
    <3>1. at'[e] = at[e] /\ held'[e] = held[e] /\ Fits(e)
      BY <2>2 DEF HoldsFit
    <3>2. QED
      BY <3>1 DEF Fits
  <2>3. QED
    BY <2>1, <2>2
<1>5. QED
  BY <1>2, <1>4 DEF HoldsFit

\* The same when only the place changes.
LEMMA WalkFits ==
  ASSUME HoldsFit, NEW d \in Devices, NEW q \in Places,
         at' = [at EXCEPT ![d] = q], held' = held,
         Needs[q] \subseteq Needs[at[d]],
         Needs[at[d]] \cup MayHold(at[d]) \subseteq Needs[q] \cup MayHold(q)
  PROVE  HoldsFit'
<1>1. held' = [held EXCEPT ![d] = held[d]]
  BY DEF HoldsFit
<1>2. Needs[q] \subseteq held[d] /\ held[d] \subseteq Needs[q] \cup MayHold(q)
  BY DEF HoldsFit, Fits
<1>3. QED
  BY <1>1, <1>2, MoveFits

LEMMA HoldsFitInit == Init => HoldsFit
  BY DEF Init, HoldsFit, Fits, Needs, Places, FallsTo, NextStep, Resources

LEMMA HoldsFitStep == HoldsFit /\ [Next]_vars => HoldsFit'
<1> SUFFICES ASSUME HoldsFit, [Next]_vars PROVE HoldsFit'
  OBVIOUS
<1>1. CASE UNCHANGED <<at, held>>
  BY <1>1 DEF HoldsFit, Fits
<1>2. ASSUME NEW d \in Devices, DeviceStep(d) PROVE HoldsFit'
  <2>0. at[d] \in Places /\ Fits(d)
    BY DEF HoldsFit
  <2>1. CASE Probe(d)
    <3>1. "enabled" \in Places /\ Needs["enabled"] = {"memory"}
      BY DEF Places, NextStep, Needs
    <3>2. QED
      BY <2>1, <3>1, MoveFits DEF Probe
  <2>2. CASE Acquire(d)
    <3> DEFINE p == at[d]  H == held[d] \cup {p}
    <3>1. p \in {"enabled", "regions", "bar0", "bar1", "buffer", "irq", "cdev"}
          /\ at' = [at EXCEPT ![d] = NextStep[p]] /\ held' = [held EXCEPT ![d] = H]
      BY <2>2 DEF Acquire, HoldsFit
    <3>2. NextStep[p] \in Places /\ Needs[NextStep[p]] \subseteq H
          /\ H \subseteq Needs[NextStep[p]] \cup MayHold(NextStep[p])
      BY <2>0, <3>1, AcquireFits DEF Fits
    <3> HIDE DEF p, H
    <3>3. QED
      BY <3>1, <3>2, MoveFits
  <2>3. CASE GoOn(d)
    <3>1. at[d] \in {"mask"} \cup Optional
          /\ at' = [at EXCEPT ![d] = NextStep[at[d]]] /\ held' = held
      BY <2>3 DEF GoOn
    <3>2. QED
      BY <3>1, GoOnFits, WalkFits
  <2>4. CASE Refused(d)
    <3>1. at[d] \in DOMAIN FailsTo
          /\ at' = [at EXCEPT ![d] = FailsTo[at[d]]] /\ held' = held
      BY <2>4 DEF Refused
    <3>2. QED
      BY <3>1, FailureFits, WalkFits
  <2>5. CASE FindMinor(d)
    <3>1. at[d] = "number" /\ held' = held
          /\ (at' = [at EXCEPT ![d] = FailsTo[at[d]]] \/ at' = [at EXCEPT ![d] = NextStep[at[d]]])
      BY <2>5 DEF FindMinor
    <3>2. "number" \in DOMAIN FailsTo
      BY DEF FailsTo
    <3>3. NextStep["number"] \in Places /\ Needs[NextStep["number"]] = Needs["number"]
          /\ MayHold(NextStep["number"]) = MayHold("number")
      BY DEF NextStep, Places, Needs, MayHold
    <3>4. QED
      BY <3>1, <3>2, <3>3, FailureFits, WalkFits
  <2>6. CASE SetMinor(d)
    <3>1. at[d] = "mark" /\ at' = [at EXCEPT ![d] = "cdev"]
          /\ held' = [held EXCEPT ![d] = held[d] \cup {"bit"}]
      BY <2>6 DEF SetMinor, NextStep, HoldsFit
    <3>2. "cdev" \in Places /\ Needs["cdev"] = Needs["mark"] \cup {"bit"}
          /\ MayHold("cdev") = MayHold("mark")
      BY DEF NextStep, Places, Needs, MayHold
    <3> DEFINE H == held[d] \cup {"bit"}
    <3>3. Needs["cdev"] \subseteq H /\ H \subseteq Needs["cdev"] \cup MayHold("cdev")
      BY <2>0, <3>1, <3>2 DEF Fits
    <3>4. held' = [held EXCEPT ![d] = H]
      BY <3>1
    <3> HIDE DEF H
    <3>5. QED
      BY <3>1, <3>2, <3>3, <3>4, MoveFits
  <2>7. CASE CreateNode(d)
    <3>1. at[d] = "node" /\ at' = [at EXCEPT ![d] = "bound"]
          /\ held' = [held EXCEPT ![d] = held[d] \cup {"node"}]
      BY <2>7 DEF CreateNode, NextStep, HoldsFit
    <3>2. "bound" \in Places /\ Needs["bound"] = Needs["node"] \cup {"node"}
          /\ MayHold("bound") = MayHold("node")
      BY DEF NextStep, Places, Needs, MayHold, All
    <3> DEFINE H == held[d] \cup {"node"}
    <3>3. Needs["bound"] \subseteq H /\ H \subseteq Needs["bound"] \cup MayHold("bound")
      BY <2>0, <3>1, <3>2 DEF Fits
    <3>4. held' = [held EXCEPT ![d] = H]
      BY <3>1
    <3> HIDE DEF H
    <3>5. QED
      BY <3>1, <3>2, <3>3, <3>4, MoveFits
  <2>8. CASE Remove(d) \/ ShutdownLocks(d) \/ HandlerSpins(d) \/ ShutdownStops(d)
    <3>1. PICK q \in {"remove", "locked", "hung", "down"} :
            at' = [at EXCEPT ![d] = q]
      BY <2>8 DEF Remove, ShutdownLocks, HandlerSpins, ShutdownStops
    <3>2. at[d] \in {"bound", "down", "locked"} /\ held' = held
      BY <2>8 DEF Remove, ShutdownLocks, HandlerSpins, ShutdownStops
    <3>3. q \in Places /\ Needs[q] = Needs[at[d]] /\ MayHold(q) = MayHold(at[d])
      BY <3>2 DEF Places, FallsTo, Needs, MayHold
    <3>4. QED
      BY <3>1, <3>2, <3>3, WalkFits
  <2>9. CASE Undo(d)
    <3> DEFINE p == at[d]  H == held[d] \ Undoes[p]
    <3>1. p \in DOMAIN Undoes
          /\ at' = [at EXCEPT ![d] = FallsTo[p]] /\ held' = [held EXCEPT ![d] = H]
      BY <2>9 DEF Undo, HoldsFit
    <3>2. FallsTo[p] \in Places /\ Needs[FallsTo[p]] \subseteq H
          /\ H \subseteq Needs[FallsTo[p]] \cup MayHold(FallsTo[p])
      BY <2>0, <3>1, UndoFits DEF Fits
    <3> HIDE DEF p, H
    <3>3. QED
      BY <3>1, <3>2, MoveFits
  <2>10. QED
    BY <1>2, <2>1, <2>2, <2>3, <2>4, <2>5, <2>6, <2>7, <2>8, <2>9 DEF DeviceStep
<1>3. ASSUME NEW f \in Files, FileStep(f) PROVE UNCHANGED <<at, held>>
  BY <1>3 DEF FileStep, Open, EpOpen, EpRelease, Start, Stop
<1>4. Load \/ Unload \/ Unloaded \/ UNCHANGED vars => UNCHANGED <<at, held>>
  BY DEF Load, Unload, Unloaded, vars
<1>5. QED
  BY <1>1, <1>2, <1>3, <1>4 DEF Next

\* Every device holds what its place in the code says, however probes,
\* failures, removals and shutdowns interleave.
THEOREM HoldingsFit == Spec => []HoldsFit
  BY HoldsFitInit, HoldsFitStep, PTL DEF Spec

\* Error paths and remove free exactly what probe took (the gotos of
\* xilinx_ep_probe, xilinx_ep_remove).
THEOREM LadderIsRight == Spec => []UndoneExactly
<1>1. HoldsFit => UndoneExactly
  <2> SUFFICES ASSUME HoldsFit, NEW d \in Devices
               PROVE  /\ at[d] \in DOMAIN Undoes => Undoes[at[d]] \ Optional \subseteq held[d]
                      /\ at[d] = "unbound" => held[d] = {}
    BY DEF UndoneExactly
  <2>1. Fits(d)
    BY DEF HoldsFit
  <2>2. \A p \in DOMAIN Undoes : Undoes[p] \ Optional \subseteq Needs[p]
    BY DEF Undoes, Optional, Needs, All, Base
  <2>3. Needs["unbound"] = {} /\ MayHold("unbound") = {}
    BY DEF Needs, MayHold
  <2>4. QED
    BY <2>1, <2>2, <2>3 DEF Fits
<1>2. QED
  BY <1>1, HoldingsFit, PTL

\* The interrupt handler never runs without its record and registers.
THEOREM HandlerIsSafe == Spec => []HandlerHasItsDevice
<1>1. HoldsFit => HandlerHasItsDevice
  <2> SUFFICES ASSUME HoldsFit, NEW d \in Devices, "irq" \in held[d]
               PROVE  {"memory", "bar0"} \subseteq held[d]
    BY DEF HandlerHasItsDevice
  <2>1. Fits(d) /\ at[d] \in Places
    BY DEF HoldsFit
  <2>2. \A p \in Places : "irq" \in Needs[p] \cup MayHold(p) => {"memory", "bar0"} \subseteq Needs[p]
    BY DEF Places, NextStep, FallsTo, Needs, MayHold, All, Base
  <2>3. QED
    BY <2>1, <2>2 DEF Fits
<1>2. QED
  BY <1>1, HoldingsFit, PTL

-----------------------------------------------------------------------------
\* Nothing that matters to the numbers in use has changed.
LEMMA MinorsKept ==
  ASSUME MinorInv, Holders' = Holders, \E S : minor' \in [Devices -> S],
         \A d \in Holders : minor'[d] = minor[d], dev_minor' = dev_minor,
         \A d \in Holders : minor[d] \in shared => minor[d] \in shared'
  PROVE  MinorInv'
<1>1. dev_minor \subseteq {minor[d] : d \in Holders}
  BY DEF MinorInv, MarksMatch, Holders
<1>2. dev_minor' \subseteq {minor'[d] : d \in Holders'}
  BY <1>1
<1>3. \A d \in Holders' : minor'[d] \in dev_minor' \cup shared'
  BY DEF MinorInv, MarksMatch, Holders
<1>4. SharingKnown'
  BY DEF MinorInv, SharingKnown
<1>5. MarksMatch'
  BY <1>2, <1>3 DEF MarksMatch, Holders
<1>6. QED
  BY <1>4, <1>5 DEF MinorInv

\* A device has no mark before probe sets it and after the labels cleared it.
LEMMA NoMark ==
  ASSUME HoldsFit, NEW d \in Devices,
         at[d] \in {"unbound", "number", "mark", "err_free"}
  PROVE  d \notin Holders
<1>1. Fits(d)
  BY DEF HoldsFit
<1>2. "bit" \notin Needs[at[d]] \cup MayHold(at[d])
  BY DEF Needs, MayHold, Base
<1>3. QED
  BY <1>1, <1>2 DEF Fits, Holders

LEMMA MinorInvInit == Init => MinorInv
<1> SUFFICES ASSUME Init PROVE MinorInv
  OBVIOUS
<1>1. minor \in [Devices -> {NoMinor}]
  BY DEF Init
<1>2. \A d \in Devices : "bit" \notin held[d]
  BY DEF Init
<1>3. dev_minor = {}
  BY DEF Init
<1>4. QED
  BY <1>1, <1>2, <1>3 DEF MinorInv, MarksMatch, SharingKnown, Holders

LEMMA SetMinorKeepsMarks ==
  ASSUME HoldsFit, MinorInv, NEW d \in Devices, SetMinor(d)
  PROVE  MinorInv'
<1>1. Holders' = Holders \cup {d}
  BY DEF SetMinor, Holders, HoldsFit
<1>2. dev_minor' = dev_minor \cup {minor[d]} /\ minor' = minor
  BY DEF SetMinor, recordVars
<1>3. shared \subseteq shared'
      /\ \A e \in Holders : e # d /\ minor[e] = minor[d] => minor[d] \in shared'
  BY DEF SetMinor, Holders
<1>4. d \notin Holders
  BY NoMark DEF SetMinor
<1>5. dev_minor' \subseteq {minor'[e] : e \in Holders'}
  <2>1. dev_minor \subseteq {minor[e] : e \in Holders}
    BY DEF MinorInv, MarksMatch, Holders
  <2>2. QED
    BY <1>1, <1>2, <2>1
<1>6. \A e \in Holders' : minor'[e] \in dev_minor' \cup shared'
  <2>1. \A e \in Holders : minor[e] \in dev_minor \cup shared
    BY DEF MinorInv, MarksMatch, Holders
  <2>2. QED
    BY <1>1, <1>2, <1>3, <2>1
<1>7. SharingKnown'
  <2>1. SUFFICES ASSUME NEW e \in Holders', NEW g \in Holders', e # g, minor[e] = minor[g]
                 PROVE  minor[e] \in shared'
    BY <1>2 DEF SharingKnown
  <2>2. CASE e \in Holders /\ g \in Holders
    BY <1>3, <2>1, <2>2 DEF MinorInv, SharingKnown
  <2>3. CASE e = d \/ g = d
    BY <1>1, <1>3, <2>1, <2>3
  <2>4. QED
    BY <1>1, <2>2, <2>3
<1>8. MarksMatch'
  BY <1>5, <1>6 DEF MarksMatch, Holders
<1>9. QED
  BY <1>2, <1>7, <1>8 DEF MinorInv

\* The one step that can take a mark from another device: both are known to
\* share it.
LEMMA ClearKeepsMarks ==
  ASSUME HoldsFit, MinorInv, NEW d \in Devices, Undo(d), at[d] = "err_bit"
  PROVE  MinorInv'
<1>1. Undoes["err_bit"] = {"bit"}
  BY DEF Undoes
<1>2. Holders' = Holders \ {d}
  BY <1>1 DEF Undo, Holders, HoldsFit
<1>3. dev_minor' = dev_minor \ {minor[d]}
  BY DEF Undo, MinorsAfter
<1>4. \E S : minor' \in [Devices -> S]
  BY DEF Undo, FreesRecord, MinorInv
<1>5. \A e \in Devices : minor'[e] = minor[e]
  BY DEF Undo, FreesRecord
<1>6. \A e \in Holders' : minor[e] \in shared => minor[e] \in shared'
  BY DEF Undo, Holders
<1>7. dev_minor' \subseteq {minor'[e] : e \in Holders'}
  <2>1. dev_minor \subseteq {minor[e] : e \in Holders}
    BY DEF MinorInv, MarksMatch, Holders
  <2>2. SUFFICES ASSUME NEW m \in dev_minor' PROVE \E e \in Holders' : m = minor'[e]
    OBVIOUS
  <2>3. PICK e \in Holders : m = minor[e]
    BY <1>3, <2>1, <2>2
  <2>4. e # d /\ e \in Devices
    BY <1>3, <2>2, <2>3 DEF Holders
  <2>5. QED
    BY <1>2, <1>5, <2>3, <2>4
<1>8. d \in Holders
  <2>1. "bit" \in Needs["err_bit"]
    BY DEF Needs
  <2>2. QED
    BY <2>1 DEF HoldsFit, Fits, Holders
<1>9. ASSUME NEW e \in Holders' PROVE minor'[e] \in dev_minor' \cup shared'
  <2>1. e \in Holders /\ e # d /\ e \in Devices
    BY <1>2, <1>9 DEF Holders
  <2>2. minor[e] \in dev_minor \cup shared
    BY <2>1 DEF MinorInv, MarksMatch, Holders
  <2>3. CASE minor[e] = minor[d]
    <3>1. minor[e] \in shared
      BY <1>8, <2>1, <2>3 DEF MinorInv, SharingKnown
    <3>2. QED
      BY <1>5, <1>6, <1>9, <2>1, <3>1
  <2>4. CASE minor[e] # minor[d]
    BY <1>3, <1>5, <1>6, <1>9, <2>1, <2>2, <2>4
  <2>5. QED
    BY <2>3, <2>4
<1>10. SharingKnown'
  <2>1. \A e \in Holders' : e \in Holders /\ e \in Devices
    BY <1>2 DEF Holders
  <2>2. QED
    BY <1>5, <1>6, <2>1 DEF MinorInv, SharingKnown
<1>11. MarksMatch'
  BY <1>7, <1>9 DEF MarksMatch, Holders
<1>12. QED
  BY <1>4, <1>10, <1>11 DEF MinorInv

LEMMA MinorInvStep == HoldsFit /\ MinorInv /\ [Next]_vars => MinorInv'
<1> SUFFICES ASSUME HoldsFit, MinorInv, [Next]_vars PROVE MinorInv'
  OBVIOUS
<1>1. CASE UNCHANGED <<held, minor, dev_minor, shared>>
  BY <1>1, MinorsKept DEF MinorInv, Holders
<1>2. CASE Unloaded
  <2>1. \A d \in Devices : d \notin Holders
    BY <1>2, NoMark DEF Unloaded
  <2>2. \A d \in Devices : "bit" \notin held'[d]
    BY <1>2, <2>1 DEF Unloaded, Holders
  <2>3. dev_minor' = {} /\ minor' = minor
    BY <1>2 DEF Unloaded, recordVars
  <2>4. QED
    BY <2>2, <2>3 DEF MinorInv, MarksMatch, SharingKnown, Holders
<1>3. ASSUME NEW d \in Devices, DeviceStep(d) PROVE MinorInv'
  <2>1. CASE Probe(d)
    <3>1. d \notin Holders
      BY <2>1, NoMark DEF Probe
    <3>2. "bit" \notin {"memory"}
      OBVIOUS
    <3>3. Holders' = Holders
      BY <2>1, <3>1, <3>2 DEF Probe, Holders, HoldsFit
    <3>4. \A e \in Holders : minor'[e] = minor[e]
      BY <2>1, <3>1 DEF Probe, Holders, MinorInv
    <3>5. \E S : minor' \in [Devices -> S]
      <4>1. PICK S : minor \in [Devices -> S]
        BY DEF MinorInv
      <4>2. minor' \in [Devices -> S \cup {NoMinor}]
        BY <2>1, <4>1 DEF Probe
      <4>3. QED
        BY <4>2
    <3>6. QED
      BY <2>1, <3>3, <3>4, <3>5, MinorsKept DEF Probe
  <2>2. CASE Acquire(d)
    <3>1. at[d] # "bit" /\ held' = [held EXCEPT ![d] = held[d] \cup {at[d]}]
      BY <2>2 DEF Acquire
    <3>2. Holders' = Holders
      BY <3>1 DEF Holders, HoldsFit
    <3>3. QED
      BY <2>2, <3>2, MinorsKept DEF Acquire, MinorInv, recordVars
  <2>3. CASE GoOn(d) \/ Refused(d) \/ Remove(d) \/ ShutdownLocks(d)
               \/ HandlerSpins(d) \/ ShutdownStops(d)
    BY <1>1, <2>3 DEF GoOn, Refused, Remove, ShutdownLocks, HandlerSpins, ShutdownStops, recordVars
  <2>4. CASE FindMinor(d)
    <3>1. d \notin Holders
      BY <2>4, NoMark DEF FindMinor
    <3>2. PICK n : minor' = minor \/ minor' = [minor EXCEPT ![d] = n]
      BY <2>4 DEF FindMinor
    <3>3. \E S : minor' \in [Devices -> S]
      <4>1. PICK S : minor \in [Devices -> S]
        BY DEF MinorInv
      <4>2. minor' \in [Devices -> S \cup {n}]
        BY <3>2, <4>1
      <4>3. QED
        BY <4>2
    <3>4. \A e \in Holders : minor'[e] = minor[e]
      BY <3>1, <3>2 DEF Holders, MinorInv
    <3>5. Holders' = Holders
      BY <2>4 DEF FindMinor, Holders
    <3>6. QED
      BY <2>4, <3>3, <3>4, <3>5, MinorsKept DEF FindMinor
  <2>5. CASE SetMinor(d)
    BY <2>5, SetMinorKeepsMarks
  <2>6. CASE CreateNode(d)
    <3>1. Holders' = Holders
      BY <2>6 DEF CreateNode, Holders, HoldsFit
    <3>2. QED
      BY <2>6, <3>1, MinorsKept DEF CreateNode, MinorInv, recordVars
  <2>7. CASE Undo(d) /\ at[d] # "err_bit"
    <3>1. at[d] \in DOMAIN Undoes /\ held' = [held EXCEPT ![d] = held[d] \ Undoes[at[d]]]
      BY <2>7 DEF Undo
    <3>2. \A p \in DOMAIN Undoes \ {"err_bit"} : "bit" \notin Undoes[p]
      BY DEF Undoes
    <3>3. Holders' = Holders
      BY <2>7, <3>1, <3>2 DEF Holders, HoldsFit
    <3>4. dev_minor' = dev_minor
      BY <2>7 DEF Undo, MinorsAfter
    <3>5. \A e \in Holders : minor[e] \in shared => minor[e] \in shared'
      BY <2>7, <3>3 DEF Undo, Holders
    <3>6. \A e \in Holders : minor'[e] = minor[e]
      BY <2>7, NoMark DEF Undo, FreesRecord, Holders
    <3>7. \E S : minor' \in [Devices -> S]
      <4>1. PICK S : minor \in [Devices -> S]
        BY DEF MinorInv
      <4>2. minor' \in [Devices -> S \cup {NoMinor}]
        BY <2>7, <4>1 DEF Undo, FreesRecord
      <4>3. QED
        BY <4>2
    <3>8. QED
      BY <3>3, <3>4, <3>5, <3>6, <3>7, MinorsKept
  <2>8. CASE Undo(d) /\ at[d] = "err_bit"
    BY <2>8, ClearKeepsMarks
  <2>9. QED
    BY <1>3, <2>1, <2>2, <2>3, <2>4, <2>5, <2>6, <2>7, <2>8 DEF DeviceStep
<1>4. ASSUME NEW f \in Files, FileStep(f) PROVE MinorInv'
  BY <1>1, <1>4 DEF FileStep, Open, EpOpen, EpRelease, Start, Stop, recordVars
<1>5. CASE Load \/ Unload \/ UNCHANGED vars
  BY <1>1, <1>5 DEF Load, Unload, vars, recordVars
<1>6. QED
  BY <1>2, <1>3, <1>4, <1>5 DEF Next

\* The bitmap names the numbers in use, and a device loses its mark only to a
\* probe that took the same number (find_first_zero_bit and set_bit without a
\* lock, xilinx_pcie_ep.c:419-424).
THEOREM MarksAreRight == Spec => []MarksMatch
<1>1. MinorInv => MarksMatch
  BY DEF MinorInv
<1>2. QED
  BY <1>1, HoldsFitInit, HoldsFitStep, MinorInvInit, MinorInvStep, PTL DEF Spec

-----------------------------------------------------------------------------
\* What is known of addresses, files and counts: no two records lie at one
\* address, an open file goes by an address, and the count of a device is right
\* but for the files it found there.
Addresses == Records \cup {Nowhere}
Descriptors == [Files -> [rec : Addresses, at : {"closed", "opening", "open"}]]

RecordInv ==
  /\ record \in [Devices -> Addresses]
  /\ \A d \in Devices : "memory" \in held[d] <=> record[d] # Nowhere
  /\ \A d, e \in Devices : d # e /\ record[d] = record[e] => record[d] = Nowhere

CountInv ==
  /\ file \in Descriptors
  /\ \A f \in Files : file[f].at # "closed" => file[f].rec \in Records
  /\ refcount \in [Devices -> Int]
  /\ inherited \in [Devices -> Int]
  /\ \A d \in Devices :
       record[d] # Nowhere => refcount[d] = Cardinality(OpenAt(record[d])) - inherited[d]

FileInv == RecordInv /\ CountInv

LEMMA OpenIsFinite ==
  ASSUME NEW r
  PROVE  IsFiniteSet(OpenAt(r)) /\ Cardinality(OpenAt(r)) \in Nat
<1>1. IsFiniteSet(OpenAt(r))
  BY EpAssumption, FS_Subset DEF OpenAt
<1> QED BY <1>1, FS_CardinalityType

\* Who opens or closes one file changes one count by one: of whichever record
\* lies at the file's address.
LEMMA CountsOne ==
  ASSUME FileInv, NEW f \in Files, NEW n \in Int, Count(f, n),
         UNCHANGED <<record, inherited>>, file' \in Descriptors,
         \A g \in Files : file'[g].at # "closed" => file'[g].rec \in Records,
         \A g \in Files \ {f} : file'[g] = file[g],
         \/ n = 1 /\ file[f].at # "open" /\ file'[f].at = "open" /\ file'[f].rec = file[f].rec
         \/ n = -1 /\ file[f].at = "open" /\ file'[f].at = "closed"
  PROVE  CountInv'
<1>1. refcount' \in [Devices -> Int]
  BY DEF Count, FileInv, CountInv
<1>2. ASSUME NEW d \in Devices, record[d] # Nowhere
      PROVE refcount'[d] = Cardinality(OpenAt(record[d])') - inherited[d]
  <2>0. PICK r : r = record[d]
    OBVIOUS
  <2>1. IsFiniteSet(OpenAt(r)) /\ Cardinality(OpenAt(r)) \in Nat
    BY OpenIsFinite
  <2>2. refcount[d] = Cardinality(OpenAt(r)) - inherited[d]
        /\ refcount[d] \in Int /\ inherited[d] \in Int
    BY <1>2, <2>0 DEF FileInv, CountInv
  <2>3. OpenAt(record[d])' = OpenAt(r)'
    BY <2>0 DEF OpenAt
  <2>4. CASE file[f].rec # r
    <3>1. OpenAt(r)' = OpenAt(r)
      BY <2>4 DEF OpenAt
    <3>2. refcount'[d] = refcount[d]
      BY <2>0, <2>4 DEF Count
    <3> QED BY <2>2, <2>3, <3>1, <3>2
  <2>5. CASE file[f].rec = r /\ n = 1
    <3>1. OpenAt(r)' = OpenAt(r) \cup {f} /\ f \notin OpenAt(r)
      BY <2>5 DEF OpenAt
    <3>2. Cardinality(OpenAt(r)') = Cardinality(OpenAt(r)) + 1
      BY <2>1, <3>1, FS_AddElement
    <3>3. refcount'[d] = refcount[d] + 1
      BY <2>0, <2>5 DEF Count
    <3> QED BY <2>1, <2>2, <2>3, <3>2, <3>3
  <2>6. CASE file[f].rec = r /\ n = -1
    <3>1. OpenAt(r)' = OpenAt(r) \ {f} /\ f \in OpenAt(r)
      BY <2>6 DEF OpenAt
    <3>2. Cardinality(OpenAt(r)') = Cardinality(OpenAt(r)) - 1
      BY <2>1, <3>1, FS_RemoveElement
    <3>3. refcount'[d] = refcount[d] - 1
      BY <2>0, <2>2, <2>6 DEF Count
    <3> QED BY <2>1, <2>2, <2>3, <3>2, <3>3
  <2> QED BY <2>4, <2>5, <2>6
<1> QED BY <1>1, <1>2 DEF FileInv, CountInv

\* No count changes while no open file comes, goes or moves.
LEMMA CountsKept ==
  ASSUME CountInv, UNCHANGED <<record, refcount, inherited>>, file' \in Descriptors,
         \A f \in Files : file'[f].at # "closed" => file'[f].rec \in Records,
         \A r \in Records : OpenAt(r)' = OpenAt(r), RecordInv
  PROVE  CountInv'
<1>1. ASSUME NEW d \in Devices, record'[d] # Nowhere
      PROVE refcount'[d] = Cardinality(OpenAt(record[d])') - inherited'[d]
  <2>1. record[d] \in Records
    BY <1>1 DEF RecordInv, Addresses
  <2> QED BY <1>1, <2>1 DEF CountInv
<1> QED BY <1>1 DEF CountInv

\* The record of a device is there as long as anything of the device is.
LEMMA MemoryHeld ==
  ASSUME HoldsFit, NEW d \in Devices, held[d] # {}
  PROVE  "memory" \in held[d]
<1>1. Needs[at[d]] \subseteq held[d] /\ held[d] \subseteq Needs[at[d]] \cup MayHold(at[d])
  BY DEF HoldsFit, Fits
<1>2. at[d] \in Places
  BY DEF HoldsFit
<1>3. \A p \in Places : p # "unbound" => "memory" \in Needs[p]
  BY DEF Places, NextStep, FallsTo, Needs, All, Base
<1>4. Needs["unbound"] \cup MayHold("unbound") = {}
  BY DEF Needs, MayHold
<1> QED BY <1>1, <1>2, <1>3, <1>4

LEMMA FileInvInit == Init => FileInv
<1> SUFFICES ASSUME Init PROVE FileInv
  OBVIOUS
<1>1. RecordInv
  BY DEF Init, RecordInv, Addresses
<1>2. \A f \in Files : file[f] = Closed
  BY DEF Init
<1>3. file \in Descriptors
  BY DEF Init, Closed, Descriptors, Addresses
<1>4. refcount \in [Devices -> Int] /\ inherited \in [Devices -> Int]
  BY DEF Init
<1>5. \A d \in Devices : record[d] = Nowhere
  BY DEF Init
<1> QED BY <1>1, <1>2, <1>3, <1>4, <1>5 DEF FileInv, CountInv, Closed

\* Probe gets an address no record lies at, and starts to count there from zero.
LEMMA ProbeCounts ==
  ASSUME HoldsFit, FileInv, NEW d \in Devices, Probe(d)
  PROVE  FileInv'
<1>1. PICK r \in Records : /\ \A e \in Devices : record[e] # r
                           /\ record' = [record EXCEPT ![d] = r]
                           /\ inherited' = [inherited EXCEPT ![d] = Cardinality(OpenAt(r))]
  BY DEF Probe
<1>2. /\ held' = [held EXCEPT ![d] = {"memory"}]
      /\ refcount' = [refcount EXCEPT ![d] = 0] /\ file' = file
  BY DEF Probe
<1>3. Cardinality(OpenAt(r)) \in Nat /\ OpenAt(r)' = OpenAt(r)
  BY <1>2, OpenIsFinite DEF OpenAt
<1>4. record'[d] = r /\ r # Nowhere /\ \A e \in Devices \ {d} : record'[e] = record[e]
  BY <1>1, EpAssumption DEF FileInv, RecordInv
<1>5. \A e \in Devices \ {d} : held'[e] = held[e]
  BY <1>2 DEF HoldsFit
<1>6. "memory" \in held'[d]
  BY <1>2 DEF HoldsFit
<1>7. RecordInv'
  <2>1. record' \in [Devices -> Addresses]
    BY <1>1 DEF FileInv, RecordInv, Addresses
  <2>2. \A e \in Devices : "memory" \in held'[e] <=> record'[e] # Nowhere
    BY <1>4, <1>5, <1>6 DEF FileInv, RecordInv
  <2>3. \A e, g \in Devices : e # g /\ record'[e] = record'[g] => record'[e] = Nowhere
    BY <1>1, <1>4 DEF FileInv, RecordInv
  <2> QED BY <2>1, <2>2, <2>3 DEF RecordInv
<1>8. CountInv'
  <2>1. refcount' \in [Devices -> Int] /\ inherited' \in [Devices -> Int]
    BY <1>1, <1>2, <1>3 DEF FileInv, CountInv
  <2>2. refcount'[d] = 0 /\ inherited'[d] = Cardinality(OpenAt(r))
    BY <1>1, <1>2 DEF FileInv, CountInv
  <2>3. refcount'[d] = Cardinality(OpenAt(record'[d])) - inherited'[d]
    BY <1>3, <1>4, <2>2
  <2>4. \A a : OpenAt(a)' = OpenAt(a)
    BY <1>2 DEF OpenAt
  <2>5. ASSUME NEW e \in Devices \ {d}, record'[e] # Nowhere
        PROVE refcount'[e] = Cardinality(OpenAt(record'[e])) - inherited'[e]
    <3>1. refcount'[e] = refcount[e] /\ inherited'[e] = inherited[e] /\ record'[e] = record[e]
      BY <1>1, <1>2, <1>4 DEF FileInv, CountInv
    <3> QED BY <2>5, <3>1 DEF FileInv, CountInv
  <2>6. \A e \in Devices : OpenAt(record[e])' = OpenAt(record'[e])
    BY <1>2 DEF OpenAt
  <2>7. ASSUME NEW e \in Devices, record'[e] # Nowhere
        PROVE refcount'[e] = Cardinality(OpenAt(record[e])') - inherited'[e]
    BY <2>3, <2>5, <2>6, <2>7
  <2> QED BY <1>2, <2>1, <2>7 DEF FileInv, CountInv
<1> QED BY <1>7, <1>8 DEF FileInv

\* The record is freed: what the files at its address do from now on shows
\* nowhere, until a record lies there again.
LEMMA FreeCounts ==
  ASSUME HoldsFit, FileInv, NEW d \in Devices, Undo(d), at[d] = "err_free"
  PROVE  FileInv'
<1>1. /\ record' = [record EXCEPT ![d] = Nowhere] /\ refcount' = [refcount EXCEPT ![d] = 0]
      /\ inherited' = [inherited EXCEPT ![d] = 0] /\ file' = file
      /\ held' = [held EXCEPT ![d] = held[d] \ Undoes["err_free"]]
  BY DEF Undo, FreesRecord
<1>2. "memory" \notin held'[d] /\ \A e \in Devices \ {d} : held'[e] = held[e]
  BY <1>1 DEF HoldsFit, Undoes
<1>3. record'[d] = Nowhere /\ \A e \in Devices \ {d} : record'[e] = record[e]
  BY <1>1 DEF FileInv, RecordInv
<1>4. RecordInv'
  <2>1. record' \in [Devices -> Addresses]
    BY <1>1 DEF FileInv, RecordInv, Addresses
  <2> QED BY <1>2, <1>3, <2>1 DEF FileInv, RecordInv
<1>5. CountInv'
  <2>1. refcount' \in [Devices -> Int] /\ inherited' \in [Devices -> Int]
    BY <1>1 DEF FileInv, CountInv
  <2>2. ASSUME NEW e \in Devices, record'[e] # Nowhere
        PROVE refcount'[e] = Cardinality(OpenAt(record[e])') - inherited'[e]
    <3>1. e # d /\ record'[e] = record[e]
      BY <1>3, <2>2
    <3>2. refcount'[e] = refcount[e] /\ inherited'[e] = inherited[e]
      BY <1>1, <3>1 DEF FileInv, CountInv
    <3>3. OpenAt(record[e])' = OpenAt(record[e])
      BY <1>1, <3>1 DEF OpenAt
    <3> QED BY <2>2, <3>1, <3>2, <3>3 DEF FileInv, CountInv
  <2> QED BY <1>1, <2>1, <2>2 DEF FileInv, CountInv
<1> QED BY <1>4, <1>5 DEF FileInv

LEMMA FileInvStep == HoldsFit /\ FileInv /\ [Next]_vars => FileInv'
<1> SUFFICES ASSUME HoldsFit, FileInv, [Next]_vars PROVE FileInv'
  OBVIOUS
<1>0. ASSUME UNCHANGED <<file, record, refcount, inherited>>,
             \A d \in Devices : "memory" \in held'[d] <=> "memory" \in held[d]
      PROVE  FileInv'
  <2>1. RecordInv'
    BY <1>0 DEF FileInv, RecordInv
  <2>2. \A r \in Records : OpenAt(r)' = OpenAt(r)
    BY <1>0 DEF OpenAt
  <2> QED BY <1>0, <2>1, <2>2, CountsKept DEF FileInv, CountInv
<1>1. CASE UNCHANGED <<held, file, record, refcount, inherited>>
  BY <1>0, <1>1
<1>2. ASSUME NEW d \in Devices, DeviceStep(d) PROVE FileInv'
  <2>1. CASE Probe(d)
    BY <2>1, ProbeCounts
  <2>2. CASE Acquire(d) \/ SetMinor(d) \/ CreateNode(d)
    <3>1. PICK x : held' = [held EXCEPT ![d] = @ \cup {x}] /\ x # "memory"
      BY <2>2 DEF Acquire, SetMinor, CreateNode
    <3>2. UNCHANGED <<file, record, refcount, inherited>>
      BY <2>2 DEF Acquire, SetMinor, CreateNode, recordVars
    <3> QED BY <1>0, <3>1, <3>2 DEF HoldsFit
  <2>3. CASE \/ GoOn(d) \/ Refused(d) \/ FindMinor(d) \/ Remove(d)
             \/ ShutdownLocks(d) \/ HandlerSpins(d) \/ ShutdownStops(d)
    BY <1>1, <2>3 DEF GoOn, Refused, FindMinor, Remove, ShutdownLocks, HandlerSpins,
                      ShutdownStops, recordVars
  <2>4. CASE Undo(d) /\ at[d] # "err_free"
    <3>1. UNCHANGED <<file, record, refcount, inherited>>
      BY <2>4 DEF Undo, FreesRecord
    <3>2. held' = [held EXCEPT ![d] = held[d] \ Undoes[at[d]]] /\ "memory" \notin Undoes[at[d]]
      BY <2>4 DEF Undo, Undoes
    <3> QED BY <1>0, <3>1, <3>2 DEF HoldsFit
  <2>5. CASE Undo(d) /\ at[d] = "err_free"
    BY <2>5, FreeCounts
  <2> QED BY <1>2, <2>1, <2>2, <2>3, <2>4, <2>5 DEF DeviceStep
<1>3. ASSUME NEW f \in Files, FileStep(f) PROVE FileInv'
  <2>0. UNCHANGED <<held, record, inherited>>
    BY <1>3 DEF FileStep, Open, EpOpen, EpRelease, Start, Stop, recordVars
  <2>1. RecordInv'
    BY <2>0 DEF FileInv, RecordInv
  <2>2. ASSUME NEW d \in Devices, Open(f, d) PROVE FileInv'
    <3>1. /\ file' = [file EXCEPT ![f] = [rec |-> record[d], at |-> "opening"]]
          /\ file[f].at = "closed" /\ refcount' = refcount
      BY <2>2 DEF Open, recordVars
    <3>2. record[d] \in Records
      BY <2>2, MemoryHeld DEF Open, FileInv, RecordInv, Addresses
    <3>3. file' \in Descriptors
      BY <3>1, <3>2 DEF FileInv, CountInv, Descriptors, Addresses
    <3>4. /\ file'[f] = [rec |-> record[d], at |-> "opening"]
          /\ \A g \in Files \ {f} : file'[g] = file[g]
      BY <3>1 DEF FileInv, CountInv, Descriptors
    <3>5. \A r \in Records : OpenAt(r)' = OpenAt(r)
      BY <3>1, <3>4 DEF OpenAt
    <3>6. \A g \in Files : file'[g].at # "closed" => file'[g].rec \in Records
      BY <3>2, <3>4 DEF FileInv, CountInv
    <3> QED BY <2>0, <2>1, <3>1, <3>3, <3>5, <3>6, CountsKept DEF FileInv
  <2>3. CASE EpOpen(f)
    <3>1. file' = [file EXCEPT ![f].at = "open"] /\ file[f].at = "opening" /\ Count(f, 1)
      BY <2>3 DEF EpOpen
    <3>2. file' \in Descriptors
      BY <3>1 DEF FileInv, CountInv, Descriptors
    <3>3. /\ file'[f].at = "open" /\ file'[f].rec = file[f].rec
          /\ \A g \in Files \ {f} : file'[g] = file[g]
      BY <3>1 DEF FileInv, CountInv, Descriptors
    <3>4. \A g \in Files : file'[g].at # "closed" => file'[g].rec \in Records
      BY <3>1, <3>3 DEF FileInv, CountInv
    <3>5. file[f].at # "open" /\ 1 \in Int
      BY <3>1
    <3>6. CountInv'
      BY <2>0, <3>1, <3>2, <3>3, <3>4, <3>5, CountsOne
    <3> QED BY <2>1, <3>6 DEF FileInv
  <2>4. CASE EpRelease(f)
    <3>1. file' = [file EXCEPT ![f] = Closed] /\ file[f].at = "open" /\ Count(f, -1)
      BY <2>4 DEF EpRelease
    <3>2. file' \in Descriptors
      BY <3>1 DEF FileInv, CountInv, Descriptors, Closed, Addresses
    <3>3. file'[f].at = "closed" /\ \A g \in Files \ {f} : file'[g] = file[g]
      BY <3>1 DEF FileInv, CountInv, Descriptors, Closed
    <3>4. \A g \in Files : file'[g].at # "closed" => file'[g].rec \in Records
      BY <3>3 DEF FileInv, CountInv
    <3>5. PICK n \in Int : n = -1
      OBVIOUS
    <3>6. Count(f, n)
      BY <3>1, <3>5
    <3>7. CountInv'
      BY <2>0, <3>1, <3>2, <3>3, <3>4, <3>5, <3>6, CountsOne
    <3> QED BY <2>1, <3>7 DEF FileInv
  <2>5. ASSUME NEW d \in Devices, Start(f, d) \/ Stop(f, d) PROVE FileInv'
    BY <1>1, <2>5 DEF Start, Stop, recordVars
  <2> QED BY <1>3, <2>2, <2>3, <2>4, <2>5 DEF FileStep
<1>4. CASE Load \/ Unload \/ Unloaded \/ UNCHANGED vars
  BY <1>1, <1>4 DEF Load, Unload, Unloaded, vars, recordVars
<1> QED BY <1>2, <1>3, <1>4 DEF Next

\* For any number of devices, files and addresses: the reference count of a
\* device is off by exactly the files that were open at its record's address
\* when the record was allocated (xilinx_ep_probe, ep_open, ep_release, and the
\* kfree at the end of xilinx_ep_remove).
THEOREM RefcountIsRight == Spec => []RefcountCountsFiles
<1>1. FileInv => RefcountCountsFiles
  BY DEF FileInv, RecordInv, CountInv, RefcountCountsFiles
<1> QED BY <1>1, HoldsFitInit, HoldsFitStep, FileInvInit, FileInvStep, PTL DEF Spec
=============================================================================
