-------------------------- MODULE MCSpiderPipeline --------------------------
EXTENDS SpiderPipeline

\* Two channels share an address, one has two, one has none.
MCEmails == {"a", "b", "c"}
MCChannels == {"c1", "c2", "c3", "c4"}
MCEmailsOf ==
    [c \in MCChannels |-> IF c = "c1" THEN {"a", "b"}
                          ELSE IF c = "c2" THEN {"b", "c"} ELSE {}]
=============================================================================
