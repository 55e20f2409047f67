---------------------------- MODULE MCKnobSpace ----------------------------
(* Seven small tiers, one per rule of the repair, and two hosts. *)
EXTENDS KnobSpace

MCTiers ==
    {{"shared_buffers", "work_mem", "maintenance_work_mem", "max_connections"},
     {"shared_buffers", "work_mem"},
     {"wal_level", "archive_mode", "max_wal_senders", "summarize_wal"},
     {"max_worker_processes", "max_parallel_workers",
      "max_logical_replication_workers"},
     {"min_wal_size", "max_wal_size"},
     {"max_connections", "reserved_connections", "transaction_buffers"},
     {"huge_pages", "shared_memory_type", "effective_io_concurrency",
      "notify_buffers"}}
MCBudget == [hdd |-> [bps |-> 150, iops |-> 200],
             sata_ssd |-> [bps |-> 500, iops |-> 80000],
             usb_external |-> [bps |-> 400, iops |-> 50000],
             unknown |-> [bps |-> 500, iops |-> 50000]]
Nobody == [ram |-> 0, cpu |-> 0, bps |-> 0, iops |-> 0]
Small == [ram |-> 25000, cpu |-> 6, class |-> "hdd",
          probe |-> [bps |-> 30, iops |-> 400]]
Large == [ram |-> 32000, cpu |-> 16, class |-> "usb_external",
          probe |-> [bps |-> 300, iops |-> 90000]]
\* Detected shares, a request that fits and one that does not.
MCSessions ==
    {[machine |-> Small, workers |-> 2, asked |-> Nobody],
     [machine |-> Large, workers |-> 1,
      asked |-> [Nobody EXCEPT !.ram = 30000, !.cpu = 12]],
     [machine |-> Large, workers |-> 3,
      asked |-> [Nobody EXCEPT !.ram = 10000, !.bps = 150]]}
MCRestart == {"shared_buffers", "max_connections", "max_worker_processes",
              "max_logical_replication_workers", "transaction_buffers",
              "notify_buffers", "superuser_reserved_connections", "reserved_connections",
              "wal_level", "archive_mode", "max_wal_senders", "huge_pages",
              "shared_memory_type"}
=============================================================================
