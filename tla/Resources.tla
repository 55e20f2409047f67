----------------------------- MODULE Resources -----------------------------
(***************************************************************************)
(* The share of a machine one worker gets (src/utils/hardware_info.py and  *)
(* src/tuners/utils/resources.py): four fifths of its memory and cores     *)
(* divided among the workers, its disk's probed or assumed budget divided  *)
(* likewise, or the amounts asked for where the workers together stay      *)
(* within 95 percent.  Reading and writing are budgeted the same way: one  *)
(* bandwidth and one rate of operations stand for both.  The amounts have  *)
(* units of their own.                                                     *)
(***************************************************************************)
EXTENDS Integers, FiniteSetsExt

CONSTANTS MinRam, MinBps, MinIops,  \* what a worker gets at least
          ClassBudget               \* disk class -> [bps, iops] assumed

Nothing == <<>>
DiskFields == {"bps", "iops"}
Amounts == [ram : Nat, cpu : Nat, bps : Nat, iops : Nat]
Machines == [ram : Nat \ {0}, cpu : Nat \ {0}, class : DOMAIN ClassBudget,
             probe : {Nothing} \cup [DiskFields -> Nat]]

ASSUME ResourcesAssumption ==
    /\ {MinRam, MinBps, MinIops} \subseteq Nat \ {0}
    /\ {"usb_external", "sata_ssd"} \subseteq DOMAIN ClassBudget
    /\ \A class \in DOMAIN ClassBudget : ClassBudget[class] \in [DiskFields -> Nat]

\* The bus caps a disk on USB, the media behind it is taken for an SSD.
HeuristicBudget(class) ==
    IF class = "usb_external"
    THEN [f \in DiskFields |-> Min({ClassBudget["usb_external"][f],
                                    ClassBudget["sata_ssd"][f]})]
    ELSE ClassBudget[class]

\* A probe is believed when its bandwidth reaches a quarter of what its class
\* is assumed to do and its operations an absolute floor ...
Trusted(probe, h) == 4 * probe.bps >= h.bps /\ probe.iops >= MinIops
\* ... and never raises the budget of the class.
HostDisk(m) ==
    LET h == HeuristicBudget(m.class)
    IN  IF m.probe = Nothing THEN h
        ELSE IF Trusted(m.probe, h)
             THEN [f \in DiskFields |-> Min({m.probe[f], h[f]})]
             ELSE h

Partition(budget, n) ==
    [bps |-> Max({MinBps, (4 * budget.bps) \div (5 * n)}),
     iops |-> Max({MinIops, (4 * budget.iops) \div (5 * n)})]

DiskTypeOf(class) ==
    CASE class = "hdd" -> "HDD" [] class = "unknown" -> "unknown"
      [] OTHER -> "SSD"

\* The worker resources detected on machine m for n workers.
Detected(m, n) ==
    LET disk == Partition(HostDisk(m), n)
    IN  [ram |-> Max({MinRam, ((4 * m.ram) \div 5) \div n}),
         cpu |-> Max({1, (4 * m.cpu) \div (5 * n)}),
         disk |-> DiskTypeOf(m.class), bps |-> disk.bps, iops |-> disk.iops]

\* asked: [ram, cpu, bps, iops], 0 where the operator asked for nothing.
Asked(amount, otherwise) == IF amount = 0 THEN otherwise ELSE amount
Requested(m, n, asked) ==
    LET auto == Detected(m, n)
    IN  [auto EXCEPT !.ram = Asked(asked.ram, @), !.cpu = Asked(asked.cpu, @),
                     !.bps = Asked(asked.bps, @), !.iops = Asked(asked.iops, @)]

\* Mutant: one worker's share is held against the machine.
OneExceeds(m, n, asked) ==
    LET r == Requested(m, n, asked)
    IN  20 * r.ram > 19 * m.ram \/ 20 * r.cpu > 19 * m.cpu
        \/ \E f \in DiskFields :
              asked[f] > 0 /\ 20 * r[f] > 19 * HostDisk(m)[f]
\* The workers together would take more than 95 percent.  The detected share
\* counts too where memory or cores were not asked for, the disk's does not.
Exceeds(m, n, asked) ==
    LET r == Requested(m, n, asked)
    IN  \/ 20 * r.ram * n > 19 * m.ram
        \/ 20 * r.cpu * n > 19 * m.cpu
        \/ \E f \in DiskFields :
              asked[f] > 0 /\ 20 * r[f] * n > 19 * HostDisk(m)[f]

\* Asking for too much of one thing drops every request.
WorkerResources(m, n, asked) ==
    IF Exceeds(m, n, asked) THEN Detected(m, n) ELSE Requested(m, n, asked)

\* No set of workers is promised more than 95 percent of the machine's memory,
\* cores and disk, a worker's least amounts aside.
FitsTheMachine(r, m, n) ==
    /\ r.ram = MinRam \/ 20 * r.ram * n <= 19 * m.ram
    /\ r.cpu = 1 \/ 20 * r.cpu * n <= 19 * m.cpu
    /\ r.bps = MinBps \/ 20 * r.bps * n <= 19 * HostDisk(m).bps
    /\ r.iops = MinIops \/ 20 * r.iops * n <= 19 * HostDisk(m).iops
=============================================================================
