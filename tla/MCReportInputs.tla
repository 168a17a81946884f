--------------------------- MODULE MCReportInputs ---------------------------
(* Reports that differ from a good full or partial one in at most two      *)
(* fields; every field takes each value the checks tell apart.             *)
EXTENDS Integers, Sequences

CONSTANT Nil

Streams == {"config", "roster", "directives"}

ListsAllowed == [list \in {"capabilities", "issues", "task_results"} |-> 2]

GoodStream == [etag |-> "canonical", applied |-> "committed"]
GoodHave   == [s \in Streams |-> GoodStream]

Object(s, k, shape) == [stream |-> s, key |-> k, shape |-> shape]
Counter(k, up)      == [key |-> k, up |-> up, down |-> 0]
Client(k, gate, ips) == [key |-> k, up |-> 0, down |-> 1, gate |-> gate, ips |-> ips]
Subject(k, n)       == [key |-> k, local |-> n, denied |-> 0]
AnIssue(c, k, d)    == [code |-> c, key |-> k, detail |-> d]
TaskResult(k, shape) == [key |-> k, shape |-> shape]

Values ==
  [ agent_id          |-> {"", "agent"},
    protocol_version  |-> {-1, 0, 1, 2},
    reported_at_ms    |-> {-1, 0, 1},
    agent_version     |-> {"v"},
    core_engine       |-> {"", "xray", "other"},
    core_version      |-> {"v"},
    core_state        |-> {"v"},
    capabilities      |-> {Nil, <<"host">>, <<"a", "host">>, <<"a", "a">>, <<"malformed">>,
                           <<"a", "b", "c">>},
    partial           |-> {FALSE, TRUE},
    have              |-> {GoodHave, <<>>, [s \in Streams \ {"roster"} |-> GoodStream],
                           [s \in Streams \cup {"other"} |-> GoodStream],
                           [GoodHave EXCEPT !["roster"] = [etag |-> "", applied |-> "zero"]],
                           [GoodHave EXCEPT !["config"] = [etag |-> "", applied |-> "committed"]],
                           [GoodHave EXCEPT !["config"] = [etag |-> "canonical", applied |-> "half"]],
                           [GoodHave EXCEPT !["config"] = [etag |-> "other", applied |-> "committed"]]},
    objects           |-> {Nil, <<>>, <<Object("config", "k", "good"), Object("roster", "k", "good")>>,
                           <<Object("config", "k", "good"), Object("config", "k", "good")>>,
                           <<Object("config", "k", "bad")>>, <<Object("other", "k", "good")>>,
                           <<Object("config", "k", "good"), Object("roster", "malformed", "good")>>},
    listener_counters |-> {Nil, <<>>, <<Counter("k", 1), Counter("l", 0)>>,
                           <<Counter("k", 1), Counter("k", 2)>>, <<Counter("k", -1)>>},
    clients           |-> {Nil, <<>>, <<Client("k", "armed", <<"1", "2">>), Client("l", "closed", Nil)>>,
                           <<Client("k", "armed", <<"1", "1">>)>>, <<Client("k", "armed", <<"malformed">>)>>,
                           <<Client("k", "armed", Nil), Client("k", "closed", Nil)>>,
                           <<Client("k", "", Nil)>>},
    subjects          |-> {Nil, <<>>, <<Subject("k", 1), Subject("l", 0)>>,
                           <<Subject("k", 1), Subject("k", 2)>>, <<Subject("k", -1)>>},
    host              |-> {Nil, "good", "bad"},
    issues            |-> {Nil, <<AnIssue("c", "k", "d"), AnIssue("c", "k", "e")>>,
                           <<AnIssue("c", "k", "d"), AnIssue("c", "k", "d")>>,
                           <<AnIssue("", "k", "d")>>, <<AnIssue("c", "oversized", "d")>>,
                           <<AnIssue("a", "", ""), AnIssue("b", "", ""), AnIssue("c", "", "")>>},
    task_results      |-> {Nil, <<TaskResult("s", "good"), TaskResult("t", "good")>>,
                           <<TaskResult("t", "good"), TaskResult("t", "good")>>,
                           <<TaskResult("t", "bad")>>} ]

Good(partial) ==
  [ agent_id |-> "agent", protocol_version |-> 1, reported_at_ms |-> 1, agent_version |-> "v",
    core_engine |-> "xray", core_version |-> "v", core_state |-> "v",
    capabilities |-> <<"host">>, partial |-> partial, have |-> GoodHave, objects |-> Nil,
    listener_counters |-> Nil, clients |-> Nil, subjects |-> Nil, host |-> "good",
    issues |-> Nil, task_results |-> Nil ]

One(reports) ==
  UNION {{[r EXCEPT ![f] = v] : v \in Values[f]} : <<r, f>> \in reports \X DOMAIN Values}

ReportsBuilt == One(One({Good(FALSE), Good(TRUE)}))
=============================================================================
