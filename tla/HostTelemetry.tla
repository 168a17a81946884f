---------------------------- MODULE HostTelemetry ----------------------------
(***************************************************************************)
(* ValidateHostObservation (protocol/validate.go): one telemetry sample of *)
(* an untrusted peer (protocol/host.go), judged check by check in the      *)
(* order of the code, since a later check relies on an earlier one: it     *)
(* dereferences a pointer the earlier one has paired with another, or adds *)
(* two unsigned words the earlier one has bounded.                         *)
(*                                                                         *)
(* A pointer is Nil or what it points to.  An unsigned field is a word, a  *)
(* number below Word, of which those above MaxInt64 cannot be stored.      *)
(* Text is "", "good" or "bad" (too long, or not UTF-8); what the code     *)
(* only compares with a list of names is good or bad as a whole.  Fields   *)
(* no check tells apart are one: "counters" stands for those that need     *)
(* only be storable, "gauges" for the optional ones.                       *)
(***************************************************************************)
EXTENDS Integers, Sequences, FiniteSets

CONSTANTS Samples,           \* samples a peer may send
          Nil,
          MaxInt64, MaxUnixMilli,
          MaxUnavailableTokens, MaxNetworkInterfaces, MaxCongestionControls,
          MaxLinkSpeedMbps

Word == 2 * (MaxInt64 + 1)

Plus(a, b) == (a + b) % Word

VARIABLES host,              \* the sample
          k,                 \* checks it has passed
          outcome            \* "checking", "accepted", "refused" or "panic"

vars == <<host, k, outcome>>

Elements(s) == {s[n] : n \in DOMAIN s}

-----------------------------------------------------------------------------
(* The types of the sections: a number is a word, or what a pointer is.    *)

Words    == 0..(Word - 1)
Pointers == Words \cup {Nil}

IsSystemCPU(c) ==
  /\ c.total \in Words
  /\ {1, 2} \subseteq DOMAIN c.counters /\ Elements(c.counters) \subseteq Words

IsCgroupCPU(c) ==
  {c.usage_us, c.nr_periods, c.nr_throttled, c.throttled_us, c.quota_us, c.period_us,
   c.effective_cpus, c.gauges} \subseteq Pointers

IsSystemMemory(m) == {m.total, m.swap_total, m.swap_free} \subseteq Words /\ m.available \in Pointers

IsCgroupMemory(m) ==
  /\ m.current_bytes \in Words
  /\ {m.limit_bytes, m.oom_events, m.oom_kill_events, m.gauges} \subseteq Pointers

IsFilesystem(f) ==
  {f.total, f.available} \subseteq Words /\ {f.total_inodes, f.available_inodes} \subseteq Pointers

IsProcess(p) ==
  /\ {p.cpu_time, p.units_per_second, p.fd_limit} \subseteq Pointers
  /\ Elements(p.counters) \subseteq Words

IsInterface(i) == i.counters \in Words /\ i.link_speed \in Pointers

IsSample(h) ==
  /\ h.cpu # Nil => /\ h.cpu.system # Nil => IsSystemCPU(h.cpu.system)
                    /\ h.cpu.cgroup # Nil => IsCgroupCPU(h.cpu.cgroup)
  /\ h.memory # Nil => /\ h.memory.system # Nil => IsSystemMemory(h.memory.system)
                       /\ h.memory.cgroup # Nil => IsCgroupMemory(h.memory.cgroup)
  /\ h.filesystem # Nil => IsFilesystem(h.filesystem)
  /\ h.network # Nil => \A i \in Elements(h.network.interfaces) : IsInterface(i)
  /\ h.processes # Nil => \A p \in {h.processes.agent, h.processes.core} \ {Nil} : IsProcess(p)

-----------------------------------------------------------------------------
(* The checks of one function each, in order, and those of a whole sample. *)

Of(checks, v) == [n \in DOMAIN checks |-> [check |-> checks[n], on |-> v]]

If(pointer, checks) == IF pointer = Nil THEN <<>> ELSE checks

(* Mutant: two words are added before either is known to be small. *)
SystemCPUChecksUnbounded == <<"epoch", "idle within total">>

SystemCPUChecks == <<"epoch", "total storable", "counters storable", "idle within total">>

(* Mutant: a pair is compared before it is known to be one. *)
CgroupCPUChecksUnpaired ==
  <<"states something", "epoch of counters", "epoch text", "quota positive", "quota paired",
    "throttle complete", "throttled within periods", "cgroup storable">>

CgroupCPUChecks ==
  <<"states something", "epoch of counters", "epoch text", "quota paired", "quota positive",
    "throttle complete", "throttled within periods", "cgroup storable">>

SystemMemoryChecks == <<"total storable", "swap storable", "available", "swap within total">>

CgroupMemoryChecks == <<"epoch", "memory storable", "limit positive", "oom paired">>

FilesystemChecks == <<"total storable", "available", "inodes paired", "inodes">>

NetworkChecks == <<"epoch", "default interface", "interface count", "interfaces", "distinct names">>

SocketChecks == <<"counters storable", "conntrack storable", "conntrack paired">>

ProcessChecks ==
  <<"started", "epoch", "process storable", "cpu time paired", "units positive",
    "counters storable">>

RuntimeChecks == <<"started", "last times", "counters storable", "gauges storable">>

TuningChecks == <<"control count", "controls", "default names">>

CPUChecks(cpu) ==
  Of(<<"one of two">>, cpu) \o If(cpu.system, Of(SystemCPUChecks, cpu.system))
                            \o If(cpu.cgroup, Of(CgroupCPUChecks, cpu.cgroup))

MemoryChecks(memory) ==
  Of(<<"one of two">>, memory) \o If(memory.system, Of(SystemMemoryChecks, memory.system))
                               \o If(memory.cgroup, Of(CgroupMemoryChecks, memory.cgroup))

Checks(h) ==
  Of(<<"identity", "scope and platform", "token count", "tokens", "distinct tokens">>, h)
    \o If(h.cpu, CPUChecks(h.cpu))
    \o If(h.load, Of(<<"load">>, h))
    \o If(h.memory, MemoryChecks(h.memory))
    \o If(h.filesystem, Of(FilesystemChecks, h.filesystem))
    \o If(h.network, Of(NetworkChecks, h.network))
    \o If(h.tcp, Of(<<"epoch", "counters storable">>, h.tcp))
    \o If(h.sockets, Of(SocketChecks, h.sockets))
    \o If(h.processes, Of(ProcessChecks, h.processes.agent)
                         \o If(h.processes.core, Of(ProcessChecks, h.processes.core)))
    \o If(h.runtime, Of(RuntimeChecks, h.runtime))
    \o If(h.tuning, Of(TuningChecks, h.tuning))

-----------------------------------------------------------------------------
(* What each check asks, and which pointers it follows.                    *)

WithinInt64(word) == word <= MaxInt64

Storable(pointers) == \A p \in pointers : p # Nil => WithinInt64(p)

Paired(p, q) == (p = Nil) <=> (q = Nil)

Throttle(c) == <<c.nr_periods, c.nr_throttled, c.throttled_us>>

ThrottleFields(c) == Cardinality({n \in 1..3 : Throttle(c)[n] # Nil})

ValidInterface(i) ==
  /\ i.name \notin {"", "bad"} /\ i.index > 0 /\ i.mtu = "good" /\ i.state = "good"
  /\ i.link_speed = Nil \/ i.link_speed \in 1..MaxLinkSpeedMbps
  /\ WithinInt64(i.counters)

Dereferences(check, v) ==
  CASE check = "quota positive" /\ v.quota_us # Nil /\ v.quota_us # 0 -> {v.period_us}
    [] check = "throttled within periods" /\ v.nr_periods # Nil        -> {v.nr_throttled}
    [] check = "inodes" /\ v.total_inodes # Nil                        -> {v.available_inodes}
    [] OTHER                                                           -> {}

Passes(check, v) ==
  CASE check = "identity"            -> /\ v.sample_id = "good" /\ v.collected_at_ms \in 1..MaxUnixMilli
                                        /\ v.uptime_ms >= 0 /\ v.boot_id # "bad"
    [] check = "scope and platform"  -> v.scope = "good" /\ v.platform = "good"
    [] check = "token count"         -> Len(v.unavailable) <= MaxUnavailableTokens
    [] check = "tokens"              -> \A t \in Elements(v.unavailable) : t # "bad"
    [] check = "distinct tokens"     -> Cardinality(Elements(v.unavailable)) = Len(v.unavailable)
    [] check = "one of two"          -> v.system # Nil \/ v.cgroup # Nil
    [] check = "epoch"               -> v.counter_epoch = "good"
    [] check = "epoch text"          -> v.counter_epoch # "bad"
    [] check = "total storable"      -> WithinInt64(v.total)
    [] check = "counters storable"   -> Storable(Elements(v.counters))
    [] check = "idle within total"   -> Plus(v.counters[1], v.counters[2]) <= v.total
    [] check = "states something"    -> \/ ThrottleFields(v) > 0
                                        \/ {v.usage_us, v.quota_us, v.period_us, v.effective_cpus} # {Nil}
    [] check = "epoch of counters"   -> v.usage_us # Nil \/ ThrottleFields(v) > 0 => v.counter_epoch # ""
    [] check = "quota paired"        -> Paired(v.quota_us, v.period_us)
    [] check = "quota positive"      -> v.quota_us # Nil => v.quota_us # 0 /\ v.period_us # 0
    [] check = "throttle complete"   -> ThrottleFields(v) \in {0, 3}
    [] check = "throttled within periods" -> v.nr_periods # Nil => v.nr_throttled <= v.nr_periods
    [] check = "cgroup storable"     -> Storable({v.usage_us, v.quota_us, v.period_us, v.effective_cpus,
                                                  v.gauges} \cup Elements(Throttle(v)))
    [] check = "load"                -> v.load = "good"
    [] check = "swap storable"       -> Storable({v.swap_total, v.swap_free})
    [] check = "available"           -> v.available # Nil => /\ WithinInt64(v.available)
                                                             /\ v.available <= v.total
    [] check = "swap within total"   -> v.swap_free <= v.swap_total
    [] check = "memory storable"     -> Storable({v.current_bytes, v.limit_bytes, v.oom_events,
                                                  v.oom_kill_events, v.gauges})
    [] check = "limit positive"      -> v.limit_bytes # 0
    [] check = "oom paired"          -> Paired(v.oom_events, v.oom_kill_events)
    [] check = "inodes paired"       -> Paired(v.total_inodes, v.available_inodes)
    [] check = "inodes"              -> v.total_inodes # Nil =>
                                          /\ Storable({v.total_inodes, v.available_inodes})
                                          /\ v.available_inodes <= v.total_inodes
    [] check = "default interface"   -> v.default_interface # "bad"
    [] check = "interface count"     -> Len(v.interfaces) <= MaxNetworkInterfaces
    [] check = "interfaces"          -> \A i \in Elements(v.interfaces) : ValidInterface(i)
    [] check = "distinct names"      -> \A m, n \in DOMAIN v.interfaces :
                                          \/ v.interfaces[m].name # v.interfaces[n].name
                                               /\ v.interfaces[m].index # v.interfaces[n].index
                                          \/ m = n
    [] check = "conntrack storable"  -> Storable({v.conntrack_current, v.conntrack_limit})
    [] check = "conntrack paired"    -> Paired(v.conntrack_current, v.conntrack_limit)
    [] check = "started"             -> v.started_at_ms \in 1..MaxUnixMilli
    [] check = "process storable"    -> Storable({v.cpu_time, v.units_per_second, v.fd_limit})
    [] check = "cpu time paired"     -> Paired(v.cpu_time, v.units_per_second)
    [] check = "units positive"      -> v.units_per_second # 0
    [] check = "last times"          -> v.last_at_ms \in 0..MaxUnixMilli
    [] check = "gauges storable"     -> Storable({v.gauges})
    [] check = "control count"       -> Len(v.controls) <= MaxCongestionControls
    [] check = "controls"            -> \A c \in Elements(v.controls) : c # "bad"
    [] check = "default names"       -> v.default_control # "bad" /\ v.default_qdisc # "bad"

-----------------------------------------------------------------------------
Init == host \in Samples /\ k = 0 /\ outcome = "checking"

Judge(c) ==
  IF Nil \in Dereferences(c.check, c.on) THEN "panic"
  ELSE IF Passes(c.check, c.on) THEN "checking" ELSE "refused"

Check ==
  /\ outcome = "checking" /\ k < Len(Checks(host))
  /\ outcome' = Judge(Checks(host)[k + 1])
  /\ k' = IF outcome' = "checking" THEN k + 1 ELSE k
  /\ UNCHANGED host

Accept ==
  /\ outcome = "checking" /\ k = Len(Checks(host))
  /\ outcome' = "accepted" /\ UNCHANGED <<host, k>>

Next == Check \/ Accept

Spec == Init /\ [][Next]_vars

-----------------------------------------------------------------------------
(* Properties *)

(* No sample makes the validator follow a pointer that is nil: each check  *)
(* comes after the ones it relies on (validateCgroupCPU,                   *)
(* validateFilesystemObservation).                                         *)
NoNilDereference == outcome # "panic"

(* What the panel takes one for a part of the other, over all sections.    *)
Fractions(h) ==
  LET SystemCPU  == h.cpu # Nil /\ h.cpu.system # Nil
      CgroupCPU  == h.cpu # Nil /\ h.cpu.cgroup # Nil
      SystemMem  == h.memory # Nil /\ h.memory.system # Nil
      Pair(a, b) == IF {a, b} = {Nil} THEN {} ELSE {<<a, b>>}
  IN  (IF SystemCPU THEN {<<h.cpu.system.counters[1] + h.cpu.system.counters[2],
                            h.cpu.system.total>>} ELSE {})
      \cup (IF CgroupCPU THEN Pair(h.cpu.cgroup.nr_throttled, h.cpu.cgroup.nr_periods) ELSE {})
      \cup (IF SystemMem THEN {<<h.memory.system.swap_free, h.memory.system.swap_total>>}
                                \cup IF h.memory.system.available = Nil THEN {}
                                     ELSE {<<h.memory.system.available, h.memory.system.total>>}
                         ELSE {})
      \cup (IF h.filesystem # Nil
              THEN {<<h.filesystem.available, h.filesystem.total>>}
                     \cup Pair(h.filesystem.available_inodes, h.filesystem.total_inodes)
              ELSE {})

(* What the panel divides by what, inodes and connection tracking apart.   *)
Ratios(h) ==
  LET Processes == IF h.processes = Nil THEN {}
                   ELSE {h.processes.agent, h.processes.core} \ {Nil}
      All ==
        {<<p.cpu_time, p.units_per_second>> : p \in Processes}
        \cup (IF h.cpu # Nil /\ h.cpu.cgroup # Nil
                THEN {<<h.cpu.cgroup.quota_us, h.cpu.cgroup.period_us>>} ELSE {})
        \cup (IF h.memory # Nil /\ h.memory.cgroup # Nil /\ h.memory.cgroup.limit_bytes # Nil
                THEN {<<h.memory.cgroup.current_bytes, h.memory.cgroup.limit_bytes>>} ELSE {})
        \cup (IF h.network = Nil THEN {}
              ELSE {<<i.counters, i.link_speed>> :
                      i \in {j \in Elements(h.network.interfaces) : j.link_speed # Nil}})
  IN  {r \in All : r # <<Nil, Nil>>}

(* In an accepted sample a part is never more than its whole, as numbers   *)
(* and not as words, both are there, and a divisor is there with its       *)
(* dividend and is not zero: "a pointer that is present must hold a value  *)
(* the panel can divide, compare or display" (ValidateHostObservation).    *)
AcceptedIsMeasurable ==
  outcome = "accepted" =>
    /\ \A f \in Fractions(host) :
         Nil \notin Elements(f) /\ f[1] <= f[2] /\ f[2] <= MaxInt64
    /\ \A r \in Ratios(host) : Nil \notin Elements(r) /\ r[2] > 0
=============================================================================
