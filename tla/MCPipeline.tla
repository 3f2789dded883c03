----------------------------- MODULE MCPipeline -----------------------------
(* Pipeline on instances TLC can explore.                                  *)
EXTENDS Pipeline

CONSTANTS h1, h2, w1, w2, b1, b2, cpu, low, nan

mcHandlers == {h1, h2}
mcWriters  == {w1, w2}
mcBuffers  == {b1, b2}
mcNames    == {cpu}
mcGauges   == {low, nan}
mcNaN      == {nan}
Symmetry   == Permutations(mcHandlers) \cup Permutations(mcWriters)
                \cup Permutations(mcBuffers)

metric(t, d, v) == [id |-> cpu, mtype |-> t, delta |-> d, value |-> v]
gauge    == metric("gauge", Nil, low)
counter  == metric("counter", -1, Nil)
noValue  == metric("gauge", Nil, Nil)
unknown  == metric("other", Nil, Nil)

to(route, coding, accept, sum, items) ==
  [route |-> route, coding |-> coding, accept |-> accept, sum |-> sum, items |-> items]

mcRequests ==
  { \* as the agent sends them
    to("update", "gzip", TRUE, "ofBody", <<gauge>>),
    to("update", "gzip", FALSE, "ofBody", <<counter>>),
    to("updates", "gzip", TRUE, "none", <<counter, counter, gauge>>),
    \* signed by mistake after compression, or with another key
    to("updates", "gzip", FALSE, "ofWire", <<gauge>>),
    to("update", "plain", FALSE, "other", <<gauge>>),
    \* bad metrics, no JSON, no gzip stream
    to("update", "gzip", FALSE, "none", <<noValue>>),
    to("updates", "plain", TRUE, "none", <<gauge, unknown>>),
    to("update", "plain", TRUE, "none", Nil),
    to("update", "noGzip", TRUE, "none", <<gauge>>),
    \* streams that break off, or do not match their checksum
    to("update", "truncated", TRUE, "ofBody", <<gauge>>),
    to("updateURL", "truncated", FALSE, "none", <<gauge>>),
    to("updates", "checksum", FALSE, "none", <<gauge>>),
    \* what only a URL can store, and the questions
    to("updateURL", "plain", TRUE, "none", <<metric("gauge", Nil, nan)>>),
    to("value", "plain", TRUE, "none", <<noValue>>),
    to("valueURL", "plain", FALSE, "none", <<metric("counter", Nil, Nil)>>),
    to("valueURL", "plain", TRUE, "none", <<unknown>>),
    to("home", "plain", TRUE, "none", Nil),
    to("ping", "plain", TRUE, "none", Nil) }

mcConfigs == {[backend |-> "memory", key |-> TRUE],
              [backend |-> "memory", key |-> FALSE],
              [backend |-> "database", key |-> TRUE]}
=============================================================================
