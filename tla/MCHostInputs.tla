---------------------------- MODULE MCHostInputs ----------------------------
(* Samples in which one section takes every combination of the values its  *)
(* checks tell apart, the other sections being good or absent.             *)
EXTENDS Integers, Sequences

CONSTANT Nil

Small   == {0, 1, 3, 7}            \* 7 cannot be stored, and 7 + 1 is 0
Pointer == {Nil, 0, 1, 7}

Epochs == {"", "good", "bad"}

SystemCPUs ==
  [counter_epoch : Epochs, total : Small, counters : [1..3 -> {0, 1, 2, 7}]]
CgroupCPUs ==
  [counter_epoch : {"", "good"}, usage_us : {Nil, 1}, gauges : {Nil, 7}, nr_periods : {Nil, 1},
   nr_throttled : {Nil, 0, 2}, throttled_us : {Nil, 1}, quota_us : Pointer, period_us : Pointer,
   effective_cpus : {Nil, 1}]
SystemMemories ==
  [total : Small, available : Pointer, swap_total : {0, 1, 7}, swap_free : {0, 2, 7}]
CgroupMemories ==
  [counter_epoch : Epochs, current_bytes : Small, limit_bytes : Pointer,
   oom_events : {Nil, 1}, oom_kill_events : {Nil, 1, 7}, gauges : {Nil, 7}]
Filesystems ==
  [total : Small, available : Small, total_inodes : Pointer, available_inodes : Pointer]
Interfaces ==
  [name : {"a", "b", ""}, index : 0..2, mtu : {"good"}, state : {"good", "bad"},
   link_speed : {Nil, 0, 1, 2, 3}, counters : {1, 7}]
GoodInterface == [name |-> "a", index |-> 1, mtu |-> "good", state |-> "good",
                  link_speed |-> Nil, counters |-> 1]
Networks ==
  [counter_epoch : Epochs, default_interface : {"", "a", "bad"},
   interfaces : {<<>>, <<GoodInterface, GoodInterface, GoodInterface>>}
                  \cup {<<GoodInterface, i>> : i \in Interfaces}]
Metrics ==
  [started_at_ms : {-1, 0, 1, 9}, counter_epoch : Epochs, cpu_time : Pointer,
   units_per_second : Pointer, fd_limit : {Nil, 7}, counters : {<<1>>, <<7>>}]
GoodMetrics == [started_at_ms |-> 1, counter_epoch |-> "good", cpu_time |-> 1,
                units_per_second |-> 1, fd_limit |-> Nil, counters |-> <<1>>]

GoodCPU    == [system |-> [counter_epoch |-> "good", total |-> 3, counters |-> <<1, 1, 1>>], cgroup |-> Nil]
GoodMemory == [system |-> [total |-> 3, available |-> 1, swap_total |-> 0, swap_free |-> 0], cgroup |-> Nil]

Values ==
  [ sample_id       |-> {"good", "bad"},
    collected_at_ms |-> {0, 1, 9},
    uptime_ms       |-> {-1, 0},
    boot_id         |-> Epochs,
    scope           |-> {"good", "bad"},
    platform        |-> {"good", "bad"},
    unavailable     |-> UNION {[1..n -> {"known", "unknown", "bad"}] : n \in 0..3},
    cpu             |-> {Nil, [system |-> Nil, cgroup |-> Nil]}
                          \cup {[system |-> s, cgroup |-> Nil] : s \in SystemCPUs}
                          \cup {[GoodCPU EXCEPT !.cgroup = c] : c \in CgroupCPUs},
    load            |-> {Nil, "good", "bad"},
    memory          |-> {Nil, [system |-> Nil, cgroup |-> Nil]}
                          \cup {[system |-> s, cgroup |-> Nil] : s \in SystemMemories}
                          \cup {[GoodMemory EXCEPT !.cgroup = c] : c \in CgroupMemories},
    filesystem      |-> {Nil} \cup Filesystems,
    network         |-> {Nil} \cup Networks,
    tcp             |-> {Nil} \cup [counter_epoch : Epochs, counters : {<<1>>, <<7>>}],
    sockets         |-> {Nil} \cup [counters : {<<1>>, <<7>>}, conntrack_current : Pointer,
                                    conntrack_limit : Pointer],
    processes       |-> {Nil} \cup {[agent |-> GoodMetrics, core |-> m] : m \in Metrics \cup {Nil}}
                          \cup {[agent |-> m, core |-> Nil] : m \in Metrics},
    runtime         |-> {Nil} \cup [started_at_ms : {0, 1, 9}, last_at_ms : {-1, 0, 1, 9},
                                    counters : {<<1>>, <<7>>}, gauges : Pointer],
    tuning          |-> {Nil} \cup [controls : UNION {[1..n -> {"known", "bad"}] : n \in 0..3},
                                    default_control : Epochs, default_qdisc : Epochs] ]

Good ==
  [ sample_id |-> "good", collected_at_ms |-> 1, uptime_ms |-> 0, boot_id |-> "",
    scope |-> "good", platform |-> "good", unavailable |-> <<"unknown">>, cpu |-> GoodCPU,
    load |-> "good", memory |-> Nil, filesystem |-> Nil, network |-> Nil, tcp |-> Nil,
    sockets |-> Nil, processes |-> Nil, runtime |-> Nil, tuning |-> Nil ]

HostSamples == UNION {{[Good EXCEPT ![f] = v] : v \in Values[f]} : f \in DOMAIN Values}
=============================================================================
