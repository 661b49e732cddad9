-------------------------- MODULE HardwareReadings --------------------------
(***************************************************************************)
(* The lm-sensors entities of a node (hardware.py): which of them a load   *)
(* creates from the first answer of the sidecar, and what they make of     *)
(* every later one.  An answer maps readings, named by chip and label, to  *)
(* values; the class of a reading is what its name gives away, its kind    *)
(* what it measures: Vcore is a voltage in the class of the cores.         *)
(***************************************************************************)
EXTENDS Integers, Sequences, FiniteSets, FiniteSetsExt

CONSTANTS
    NoReading,     \* no value, or none that can be read
    Boards,        \* what a node may have: sequences of [class, kind, chip],
                   \* in the order of the answer
    Levels,        \* per kind, the values it takes
    NVME_LIMIT,    \* the maximum an NVMe disk states along with a temperature
    NvmeDisks,     \* the NVMe disks that SMART knows
    SmartTemps     \* the temperatures it has of them

ASSUME HardwareAssumption ==
    /\ NoReading \notin Int
    /\ \A b \in Boards :
          /\ Len(b) \in Nat /\ DOMAIN b = 1..Len(b)
          /\ \A i \in DOMAIN b : Levels[b[i].kind] \subseteq Int

VARIABLES
    board,        \* the readings of the node
    hardware,     \* coordinator.data["hardware"]
    smartTemp,    \* of coordinator.data["smart"], the temperature per NVMe disk
    entities      \* the entities of the load

hardwareVars == <<board, hardware, smartTemp, entities>>

Places == DOMAIN board
Of(classes) == {i \in Places : board[i].class \in classes}
NoAnswer == [i \in Places |-> NoReading]

-----------------------------------------------------------------------------
(* The values.                                                             *)
Plausible(v) == IF v # NoReading /\ 1 < v /\ v < 145 THEN v ELSE NoReading

(* Mutant: without an input of a temperature any input will do.            *)
ParseAny(i) == Plausible(hardware[i])

(* _parse of a temperature: of every input but those of fans and voltages, *)
(* so also of a power or a current.                                        *)
ParseTemperature(i) ==
    IF board[i].kind \in {"fan", "voltage"} THEN NoReading
    ELSE Plausible(hardware[i])

Readable(classes) == {i \in Of(classes) : ParseTemperature(i) # NoReading}

(* The degrees of some readings one by one: as many as their sum.          *)
Degrees(places) == UNION {{i} \X (1..ParseTemperature(i)) : i \in places}

(* To the degree; the code rounds to a tenth.                              *)
Average(places) ==
    IF places = {} THEN NoReading
    ELSE Cardinality(Degrees(places)) \div Cardinality(places)

(* The one CPU sensor: the last package, or else the mean of the cores.    *)
Package ==
    LET its == Readable({"package"})
    IN  IF its = {} THEN NoReading ELSE ParseTemperature(Max(its))

CpuTemperature ==
    IF Package # NoReading THEN Package ELSE Average(Readable({"core"}))

CpuAttributes ==
    [package |-> Package,
     cores |-> [i \in Readable({"core", "tccd"}) |-> ParseTemperature(i)]]

(* _parse of any other reading, by the type of its input                   *)
Parse(i) ==
    IF board[i].kind \in {"fan", "voltage"} THEN hardware[i] ELSE ParseTemperature(i)

(* is_meaningful *)
Meaningful(i) ==
    CASE board[i].kind = "fan" -> Parse(i) > 0
      [] board[i].kind = "voltage" -> 0 < Parse(i) /\ Parse(i) <= 30
      [] OTHER -> TRUE

(* An NVMe disk: the first plausible number of a reading of its chip, be   *)
(* it a limit.                                                             *)
NvmeReading(i) ==
    IF hardware[i] = NoReading \/ Plausible(hardware[i]) # NoReading
    THEN hardware[i] ELSE NVME_LIMIT

(* _get_smart_info: the disk by its name, or else the only NVMe disk.      *)
SmartOf(name) ==
    IF name \in DOMAIN smartTemp THEN smartTemp[name]
    ELSE IF Cardinality(DOMAIN smartTemp) = 1
    THEN smartTemp[CHOOSE d \in DOMAIN smartTemp : TRUE]
    ELSE NoReading

NvmeTemperature(name) ==
    LET its == {i \in Of({"nvme"}) : board[i].chip = name /\ NvmeReading(i) # NoReading}
    IN  IF its # {} THEN NvmeReading(Min(its)) ELSE SmartOf(name)

-----------------------------------------------------------------------------
(* The entities.                                                           *)
Entity(sort, id) == [sort |-> sort, id |-> id]

(* The chips of the answer, or else the disks of SMART.                    *)
NvmeDevices ==
    LET chips == {board[i].chip : i \in {j \in Of({"nvme"}) : hardware[j] # NoReading}}
    IN  IF chips # {} THEN chips ELSE DOMAIN smartTemp

Created ==
    LET chipsets == Readable({"pch"})
        others == {i \in Of({"other"}) : Parse(i) # NoReading /\ Meaningful(i)}
    IN  (IF CpuTemperature = NoReading THEN {} ELSE {Entity("cpu", 0)})
        \union (IF chipsets = {} THEN {} ELSE {Entity("chipset", Min(chipsets))})
        \union {Entity("other", i) : i \in others}
        \union {Entity("nvme", n) : n \in {d \in NvmeDevices : NvmeTemperature(d) # NoReading}}

Shows(e) ==
    CASE e.sort = "cpu" -> <<CpuTemperature, CpuAttributes>>
      [] e.sort = "chipset" -> <<ParseTemperature(e.id), Average(Readable({"acpitz"}))>>
      [] e.sort = "other" -> <<Parse(e.id)>>
      [] e.sort = "nvme" -> <<NvmeTemperature(e.id)>>

-----------------------------------------------------------------------------
Measured(i) == Levels[board[i].kind] \union {NoReading}

HardwareInit ==
    /\ board \in Boards
    /\ hardware = NoAnswer
    /\ smartTemp = [d \in {} |-> NoReading]
    /\ entities = {}

(* The sidecar answers, or not; readings change one at a time: a refresh   *)
(* that changes several is several of these.                               *)
LmSensorsAnswer ==
    /\ hardware' \in {NoAnswer, hardware}
        \union UNION {{[hardware EXCEPT ![i] = v] : v \in Measured(i)} : i \in Places}
    /\ UNCHANGED smartTemp

SmartAnswer ==
    /\ smartTemp' \in UNION {[ds -> SmartTemps \union {NoReading}] : ds \in SUBSET NvmeDisks}
    /\ UNCHANGED hardware

(* The entry is loaded with the first refresh.                             *)
HardwareLoad ==
    /\ UNCHANGED board
    /\ LmSensorsAnswer \/ SmartAnswer
    /\ entities' = Created'

HardwareRefresh ==
    /\ UNCHANGED <<board, entities>>
    /\ LmSensorsAnswer \/ SmartAnswer

HardwareNext == HardwareLoad \/ HardwareRefresh

HardwareSpec == HardwareInit /\ [][HardwareNext]_hardwareVars

-----------------------------------------------------------------------------
(* The readings an entity may go by.                                       *)
Sources(e) ==
    CASE e.sort = "cpu" ->
            {i \in Of({"package", "core", "tccd"}) :
                board[i].kind \notin {"fan", "voltage"}}
      [] e.sort = "chipset" -> {e.id} \union Of({"acpitz"})
      [] e.sort = "other" -> {e.id}
      [] e.sort = "nvme" -> {i \in Of({"nvme"}) : board[i].chip = e.id}

(* No reading leaks into another: while its own readings stay as they are  *)
(* no entity changes, whatever the others do, and a voltage or a fan with  *)
(* the name of a CPU is none of the CPU's; and the two walks through the   *)
(* readings of the CPU agree: its temperature is that of the package its   *)
(* attributes name, or lies among those of the cores.                      *)
CpuAgrees ==
    LET cores == CpuAttributes.cores
    IN  CpuTemperature # NoReading =>
            \/ CpuTemperature = CpuAttributes.package
            \/ /\ CpuAttributes.package = NoReading
               /\ \E i, j \in DOMAIN cores :
                     cores[i] <= CpuTemperature /\ CpuTemperature <= cores[j]

ReadingsStayApart ==
    /\ []CpuAgrees
    /\ [][\A e \in entities \intersect entities' :
             /\ \A i \in Sources(e) : hardware'[i] = hardware[i]
             /\ e.sort = "nvme" => smartTemp' = smartTemp
             => Shows(e)' = Shows(e)]_hardwareVars
=============================================================================
