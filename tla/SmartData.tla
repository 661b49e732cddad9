----------------------------- MODULE SmartData -----------------------------
(***************************************************************************)
(* The health of the disks of a node on its way from smartctl to the       *)
(* entities: the sidecar's handler for /smart (pve-sensors-api.py) reads   *)
(* one disk after the other, the coordinator publishes what it answers,    *)
(* and every ProxmoxDiskSensor looks its disk up in it and rates it.       *)
(*                                                                         *)
(* smartctl exits with 0 only if it has nothing to complain about: bits of *)
(* its status stand for a failing disk, for attributes below their         *)
(* threshold, for entries in the error log.  The sidecar takes the JSON of *)
(* status 0 only, and falls back to the identity of the disk otherwise.    *)
(***************************************************************************)
EXTENDS Integers, Sequences

CONSTANTS
    NoValue,    \* an attribute the disk or the record does not have
    Racks,      \* what a node may have: sequences of [model, kind], in the
                \* order of the scan
    Counts,     \* the values an error counter takes
    Temps,      \* the temperatures a disk has
    MAX_WEAR    \* bound on the changes of a disk for the worse

ASSUME SmartAssumption ==
    /\ \A r \in Racks : Len(r) \in Nat /\ DOMAIN r = 1..Len(r)
    /\ Counts \subseteq Nat /\ Temps \subseteq Nat
    /\ NoValue \notin Int

VARIABLES
    rack,    \* the disks of the node
    disk,    \* per disk, the state of the hardware
    wears,   \* how often a disk has changed for the worse
    shown    \* per disk, what its entity last wrote

smartVars == <<rack, disk, wears, shown>>

DiskNumbers == 1..Len(rack)

(* A "mute" disk gives no verdict at all (a virtual one, or one behind a   *)
(* controller); events is attribute 196, which not every disk has.         *)
NewDisk(d) ==
    {[failing |-> FALSE, temp |-> t, reallocated |-> 0, events |-> events,
      pending |-> 0, uncorrectable |-> 0, media |-> 0] :
        t \in Temps,
        events \in IF rack[d].kind = "ata" THEN {0, NoValue} ELSE {NoValue}}

(* No record was found; the last three fields say what a view comes from.  *)
NoView == [status |-> "none", score |-> 100, temp |-> NoValue,
          source |-> NoValue, full |-> FALSE, failing |-> FALSE]

SmartInit ==
    /\ rack \in Racks
    /\ disk \in {f \in [DiskNumbers -> UNION {NewDisk(d) : d \in DiskNumbers}] :
                    \A d \in DiskNumbers : f[d] \in NewDisk(d)}
    /\ wears = 0
    /\ shown = [d \in DiskNumbers |-> NoView]

-----------------------------------------------------------------------------
(* The hardware: counters only grow, a verdict is final.                   *)
Counters(d) ==
    CASE rack[d].kind = "ata" ->
            {"reallocated", "pending", "uncorrectable"}
                \union (IF disk[d].events = NoValue THEN {} ELSE {"events"})
      [] rack[d].kind = "nvme" -> {"media"}
      [] OTHER -> {}

Wear(d) ==
    /\ wears < MAX_WEAR /\ wears' = wears + 1
    /\ \/ \E c \in Counters(d), n \in Counts :
             n > disk[d][c] /\ disk' = [disk EXCEPT ![d][c] = n]
       \/ /\ rack[d].kind # "mute" /\ ~disk[d].failing
          /\ disk' = [disk EXCEPT ![d].failing = TRUE]
    /\ UNCHANGED <<rack, shown>>

Warm(d) ==
    /\ \E t \in Temps \ {disk[d].temp} : disk' = [disk EXCEPT ![d].temp = t]
    /\ UNCHANGED <<rack, wears, shown>>

-----------------------------------------------------------------------------
(* The sidecar.                                                            *)

(* _parse_smart_info.  The table is read in the order of its numbers, and  *)
(* the event count (196) is taken for the sectors (5) as its name begins   *)
(* the same; a disk without a verdict has not passed.                      *)
FullRecord(d) ==
    LET ata == rack[d].kind = "ata"
        h == disk[d]
    IN  [serial |-> d, model |-> rack[d].model,
         passed |-> IF rack[d].kind = "mute" \/ h.failing THEN "no" ELSE "yes",
         temp |-> h.temp,
         reallocated |-> IF ~ata THEN NoValue
                         ELSE IF h.events # NoValue THEN h.events ELSE h.reallocated,
         pending |-> IF ata THEN h.pending ELSE NoValue,
         uncorrectable |-> IF ata THEN h.uncorrectable ELSE NoValue,
         media |-> IF rack[d].kind = "nvme" THEN h.media ELSE NoValue]

(* _parse_basic_info_text: no verdict and no attribute.                    *)
BasicRecord(d) ==
    [serial |-> d, model |-> rack[d].model, passed |-> "absent", temp |-> NoValue,
     reallocated |-> NoValue, pending |-> NoValue, uncorrectable |-> NoValue,
     media |-> NoValue]

(* Nothing could be read in time.                                          *)
NoRecord == [BasicRecord(1) EXCEPT !.serial = NoValue, !.model = "Device (no SMART)"]

(* _get_disk_info_safe.  A failing disk always makes smartctl complain, a  *)
(* disk with errors may or may not.                                        *)
Reads(d) ==
    {BasicRecord(d), NoRecord}
        \union (IF disk[d].failing THEN {} ELSE {FullRecord(d)})

(* _get_smart_data_fast: every disk of the scan; the first one alone when  *)
(* the scan names none; no data at all when the request failed, and an     *)
(* error under a key of its own when the scan did.                         *)
Error == NoValue

Scans ==
    {s \in [DiskNumbers -> UNION {Reads(d) : d \in DiskNumbers}] :
        \A d \in DiskNumbers : s[d] \in Reads(d)}

SmartAnswers ==
    Scans \union {<<r>> : r \in Reads(1) \ {NoRecord}} \union {<< >>, Error}

-----------------------------------------------------------------------------
(* The entity.                                                             *)

(* The coordinator names a disk by its devpath, the sidecar leaves out the *)
(* directory: "/dev/sda" and "sda".                                        *)
DiskId(d) == <<"/dev/", d>>
DeviceKey(i) == <<"", i>>

(* _find_smart_data_by_serial: the record with its serial number, or else  *)
(* the one under its name (which, with two ways to name it, is never one), *)
(* or else the first one of the same model.                                *)
FindSmart(d, answer) ==
    LET bySerial == {i \in DOMAIN answer : answer[i].serial = d}
        byId == {i \in DOMAIN answer : DeviceKey(i) = DiskId(d)}
        byModel == {i \in DOMAIN answer : answer[i].model = rack[d].model}
        first(places) == answer[CHOOSE i \in places : \A j \in places : i <= j]
    IN  IF bySerial # {} THEN first(bySerial)
        ELSE IF byId # {} THEN first(byId)
        ELSE IF byModel # {} THEN first(byModel)
        ELSE NoValue

Number(value) == IF value = NoValue THEN 0 ELSE value

(* The penalty of the first limit the value exceeds.                       *)
Penalty(value, limits) ==
    LET hit == {i \in DOMAIN limits : Number(value) > limits[i].over}
        first == CHOOSE i \in hit : \A j \in hit : i <= j
    IN  IF hit = {} THEN 0 ELSE limits[first].costs

Limit(over, costs) == [over |-> over, costs |-> costs]

Penalties(r) ==
    Penalty(r.reallocated, <<Limit(100, 50), Limit(50, 30), Limit(10, 15), Limit(0, 5)>>)
    + Penalty(r.pending, <<Limit(10, 60), Limit(0, 40)>>)
    + Penalty(r.uncorrectable, <<Limit(0, 50)>>)
    + Penalty(r.media, <<Limit(10, 30), Limit(0, 15)>>)
    + Penalty(r.temp, <<Limit(60, 30), Limit(50, 15)>>)

(* Mutant: the bands of the sectors end at 50.                             *)
ScoreWithinBands(r) ==
    LET n == Number(r.reallocated)
    IN  IF r.passed = "no" THEN 0
        ELSE 100 - (IF n \in 1..10 THEN 5 ELSE IF n \in 11..50 THEN 15 ELSE 0)

(* _calculate_health_score                                                 *)
HealthScore(r) ==
    IF r.passed = "no" \/ Penalties(r) > 100 THEN 0 ELSE 100 - Penalties(r)

(* Mutant: whatever has not passed has failed.                             *)
StatusUnlessPassed(r) == IF r.passed = "yes" THEN "HEALTHY" ELSE "FAILED"

(* _determine_health_status                                                *)
HealthStatus(r) ==
    CASE r.passed = "no" -> "FAILED"
      [] r.passed # "no" /\ (Number(r.pending) > 0 \/ Number(r.uncorrectable) > 0)
            -> "CRITICAL"
      [] OTHER -> IF Number(r.reallocated) > 50 THEN "WARNING"
                  ELSE IF Number(r.reallocated) > 10 THEN "CAUTION" ELSE "HEALTHY"

View(d, answer) ==
    LET r == FindSmart(d, answer)
    IN  IF r = NoValue THEN NoView
        ELSE [status |-> HealthStatus(r), score |-> HealthScore(r), temp |-> r.temp,
              source |-> r.serial, full |-> r.passed # "absent",
              failing |-> disk[d].failing]

(* A refresh; with an error for a record the entities cannot be written    *)
(* and keep what they showed.                                              *)
SmartRefresh ==
    /\ \E answer \in SmartAnswers :
          shown' = IF answer = Error THEN shown
                  ELSE [d \in DiskNumbers |-> View(d, answer)]
    /\ UNCHANGED <<rack, disk, wears>>

SmartNext ==
    \/ \E d \in DiskNumbers : Wear(d) \/ Warm(d)
    \/ SmartRefresh

SmartSpec == SmartInit /\ [][SmartNext]_smartVars

-----------------------------------------------------------------------------
Alike(d) == {e \in DiskNumbers : rack[e].model = rack[d].model}

Worn(h) ==
    \/ h.pending > 0 \/ h.uncorrectable > 0 \/ h.reallocated > 0
    \/ h.events # NoValue /\ h.events > 0

(* No false alarm: an entity shows a disk as anything but healthy only if  *)
(* the disk, or the one of its model it was mistaken for, has the errors   *)
(* or gives no verdict; not because a disk did not answer in time, was     *)
(* read in part, or was rated by an error of the scan.                     *)
AlarmsHaveCause ==
    \A d \in DiskNumbers :
        shown[d].status \notin {"none", "HEALTHY"} =>
            \E e \in Alike(d) :
                rack[e].kind = "mute" \/ disk[e].failing \/ Worn(disk[e])

(* Wear shows: between two refreshes that read the disk itself, and found  *)
(* it no cooler, its score never rises, whatever happened in between.      *)
WearNeverHeals ==
    [][\A d \in DiskNumbers :
          /\ shown[d].full /\ shown[d].source = d
          /\ shown'[d].full /\ shown'[d].source = d
          /\ shown'[d].temp >= shown[d].temp
          => shown'[d].score <= shown[d].score]_smartVars

(* "Check if SMART failed": a disk whose firmware says it is failing is    *)
(* shown as failed once it was read.                                       *)
FailedDiskIsReported ==
    \A d \in DiskNumbers :
        shown[d].source = d /\ shown[d].failing => shown[d].status = "FAILED"
=============================================================================
