------------------------ MODULE MCDiagnosticsInputs -------------------------
(* Requests for none, some and all of the sections, valid or inexact; logs *)
(* of up to three events, with equal times and equal codes among them.     *)
EXTENDS Integers, Sequences

CONSTANTS Nil, Mistyped

Document(fields, trailing) == [fields |-> fields, trailing |-> trailing]
Field(key, value) == [key |-> key, value |-> value]

Request(version, sections, max) ==
  Document(<<Field("schema_version", version), Field("sections", sections),
             Field("max_events", max)>>, FALSE)

Good == Request(1, <<"host", "events">>, 2)

RequestsSent ==
  {Request(1, <<"events">>, m) : m \in 0..3}
  \cup {Request(1, s, 2) : s \in {<<>>, <<"host", "runtime">>, <<"state">>,
                                  <<"events", "state", "runtime", "host">>}}
  \cup {Request(v, <<"events">>, 1) : v \in {0, 2}}
  \cup {Request(1, s, m) : s \in {<<"other">>, <<"host", "host">>}, m \in {1}}
  \cup {Request(1, <<"events">>, m) : m \in {-1, 4}}
  \cup { Document(Good.fields, TRUE), Document(SubSeq(Good.fields, 1, 2), FALSE),
         Document(Good.fields \o <<Field("max_events", 3)>>, FALSE),
         Document(<<Field("paths", <<>>)>> \o Good.fields, FALSE),
         Document(<<Field("schema_version", 1), Field("sections", Nil), Field("max_events", 2)>>, FALSE),
         Document(<<Field("schema_version", 1), Field("sections", <<>>), Field("max_events", Mistyped)>>, FALSE) }

Event(code, at, summary) == [code |-> code, at |-> at, severity |-> "info", summary |-> summary]

Few == {Event(c, t, n) : c \in 1..2, t \in 1..2, n \in {1, 3}}

LogsKept == {<<>>} \cup [1..1 -> Few] \cup [1..2 -> Few]
          \cup [1..3 -> {e \in Few : e.summary = 1}]

Events == 1..2
Checks == <<1, 2>>
=============================================================================
