--------------------------- MODULE MCSidecarData ---------------------------
(* An instance of SidecarData for TLC.                                     *)
EXTENDS SidecarData

(* A quick endpoint with little patience behind one that may take longer   *)
(* than a refresh period.                                                  *)
Patience == [e \in Endpoints |-> IF e = "sensors" THEN 2 ELSE 3]
QuickWork == [e \in Endpoints |-> IF e = "smart" THEN 1 ELSE 0]

(* Twins, and a disk without a verdict.                                    *)
Disk(model, kind) == [model |-> model, kind |-> kind]
SomeRacks ==
    {<<Disk("A", "ata"), Disk("A", "ata")>>, <<Disk("B", "nvme"), Disk("A", "mute")>>}

(* An Intel and an AMD processor, and the chips beside them; values on     *)
(* both sides of what is plausible.                                        *)
Reading(class, kind, chip) == [class |-> class, kind |-> kind, chip |-> chip]
SomeBoards ==
    {<<Reading("package", "temp", "coretemp"), Reading("core", "temp", "coretemp"),
       Reading("core", "voltage", "nct"), Reading("other", "fan", "nct")>>,
     <<Reading("tccd", "temp", "k10temp"), Reading("core", "power", "zenpower"),
       Reading("core", "temp", "k10temp"), Reading("cpu", "fan", "nct"),
       Reading("other", "voltage", "nct")>>,
     <<Reading("pch", "temp", "pch0"), Reading("pch", "temp", "pch1"),
       Reading("acpitz", "temp", "acpitz"), Reading("nvme", "temp", "nvme-pci-01")>>}
SomeLevels ==
    [temp |-> {40, 150}, fan |-> {0, 90}, voltage |-> {2, 99}, power |-> {20}]
=============================================================================
