---------------------------- MODULE SystemMetrics ----------------------------
(***************************************************************************)
(* What the adapter makes of the operating system's tables                 *)
(* (adapters/psutil/adapter.py): rows that cannot be read are left out,    *)
(* the others are counted, sorted and cut.  A value the system does not    *)
(* have is None; percentages are in hundredths where they are compared and *)
(* in tenths where they are shown.                                         *)
(***************************************************************************)
EXTENDS Integers, Sequences, FiniteSets, SequencesExt, FiniteSetsExt

CONSTANT None

Tenths(hundredths) == (hundredths + 5) \div 10
Readable(rows) == SelectSeq(rows, LAMBDA row : row.readable)
Zero(x) == IF x = None THEN 0 ELSE x

\* get_process_counts: every other status counts in the total only.
ShownStatuses == {"running", "sleeping", "idle"}
ProcessCounts(processes) ==
    LET rows == Readable(processes)
    IN  [counts |-> [s \in ShownStatuses |-> Cardinality({i \in DOMAIN rows : rows[i].status = s})],
         total  |-> Len(rows)]

\* get_top_processes: those that can be measured and do something, by their
\* weighted load; equals stay in the order of the process table.
Measured(processes) ==
    SelectSeq(Readable(processes),
              LAMBDA p : /\ p.status \notin {"zombie", "stopped"}
                         /\ Zero(p.cpu) > 10 \/ Zero(p.memory) > 10)

Load(p) == 6 * Tenths(Zero(p.cpu)) + 4 * Tenths(Zero(p.memory))

TopProcesses(processes, count) ==
    LET rows == Measured(processes)
        Above(i, j) == Load(rows[i]) > Load(rows[j]) \/ (Load(rows[i]) = Load(rows[j]) /\ i < j)
        order == SortSeq([i \in DOMAIN rows |-> i], Above)
    IN  [k \in 1 .. (IF Len(rows) < count THEN Len(rows) ELSE count) |-> rows[order[k]]]

\* get_sensors_temperatures: the first entry of a sensor, if it is plausible.
Temperatures(sensors) ==
    LET firsts == SelectSeq(sensors, LAMBDA s : s.entries # << >>)
        rows == [i \in DOMAIN firsts |-> [name |-> firsts[i].name, value |-> Head(firsts[i].entries)]]
    IN  SelectSeq(rows, LAMBDA r : r.value # None /\ -50 <= Zero(r.value) /\ Zero(r.value) <= 150)

\* get_fan_speeds: all entries of all fans, by name and label.
FanSpeeds(fans) ==
    LET rows == SelectSeq(fans, LAMBDA f : f.rpm # None /\ Zero(f.rpm) >= 0)
    IN  SortSeq(rows, LAMBDA f, g : f.name < g.name \/ (f.name = g.name /\ f.label < g.label))

\* get_disk_usage, get_disk_io_stats.
DiskUsage(partitions) == Readable(partitions)
DiskIO(devices) == SortSeq(Readable(devices), LAMBDA d, e : d.name < e.name)

\* get_network_connections_summary: a connection without a status is UNKNOWN.
Connections(table) ==
    LET Status(c) == IF c.status = None THEN "UNKNOWN" ELSE c.status
    IN  [total |-> Len(table),
         tcp |-> Cardinality({i \in DOMAIN table : table[i].type = "stream"}),
         udp |-> Cardinality({i \in DOMAIN table : table[i].type = "dgram"}),
         statuses |-> [s \in {Status(table[i]) : i \in DOMAIN table} |->
                         Cardinality({i \in DOMAIN table : Status(table[i]) = s})]]

\* get_users_info: the users before the one that cannot be read.
UsersInfo(users) ==
    LET bad == {i \in DOMAIN users : ~users[i].readable}
    IN  IF bad = {} THEN users ELSE SubSeq(users, 1, Min(bad) - 1)

----------------------------------------------------------------------------
(* The tables add up: what is shown of the processes is part of the total,   *)
(* the top list is sorted, leaves out no process above one it has, and never *)
(* shows one that cannot be measured; every connection, fan and device is    *)
(* counted once, and one row that cannot be read costs no other row, except  *)
(* that the users after it are lost.                                         *)
TablesAddUp(t, count) ==
    LET shown == ProcessCounts(t.processes)
        top   == TopProcesses(t.processes, count)
        rows  == Measured(t.processes)
        sums  == Connections(t.connections)
        Total(counts) == FoldSet(LAMBDA s, n : n + counts[s], 0, DOMAIN counts)
    IN  /\ Total(shown.counts) <= shown.total
        /\ \A i, j \in DOMAIN top : i < j => Load(top[i]) >= Load(top[j])
        /\ Len(top) = (IF Len(rows) < count THEN Len(rows) ELSE count)
        /\ ToSet(top) \subseteq ToSet(rows)
        /\ \A i \in DOMAIN rows : rows[i] \notin ToSet(top) =>
             \A k \in DOMAIN top : Load(top[k]) >= Load(rows[i])
        /\ Total(sums.statuses) = sums.total /\ sums.tcp + sums.udp <= sums.total
        /\ ToSet(FanSpeeds(t.fans)) = {f \in ToSet(t.fans) : f.rpm # None /\ Zero(f.rpm) >= 0}
        /\ \A r \in ToSet(Temperatures(t.sensors)) :
             \E s \in ToSet(t.sensors) : s.name = r.name /\ Head(s.entries) = r.value
        /\ ToSet(DiskIO(t.devices)) = ToSet(DiskUsage(t.devices))
        /\ IsPrefix(UsersInfo(t.users), t.users) /\ \A u \in ToSet(UsersInfo(t.users)) : u.readable
=============================================================================
