--------------------------- MODULE MCHttpPipeline ---------------------------
\* The requests that can arrive in the runs on HttpPipeline.
EXTENDS HttpPipeline

At(a)    == [ip |-> a, form |-> "plain"]
Forged   == [ip |-> "b", form |-> "plain"]
Mapped   == [ip |-> "a", form |-> "mapped"]
Zoned    == [ip |-> "b", form |-> "zoned"]
Blank    == [ip |-> "", form |-> "empty"]
Page     == [scheme |-> "https", host |-> <<"app", "octo", "im">>]
Bare     == [scheme |-> "https", host |-> <<"octo", "im">>]
Listed   == {[scheme |-> "https", wild |-> TRUE, host |-> <<"octo", "im">>],
             [scheme |-> "", wild |-> FALSE, host |-> <<"octo", "im">>]}

\* A request through the proxy, which appends the address it sees.
Request(route, token, xff) ==
    [method |-> "GET", origin |-> Page, excluded |-> FALSE, route |-> route, plain |-> FALSE,
     token |-> token, xff |-> xff, real |-> <<>>, remote |-> At("proxy"), src |-> "a"]

\* A browser, and a client that posts, that were not redirected yet.
Plain == [Request("late", "", <<<<At("a")>>>>) EXCEPT !.plain = TRUE, !.excluded = TRUE]
PlainInputs == {Plain, [Plain EXCEPT !.method = "POST"]}

SomeInputs ==
    PlainInputs \cup
    {Request("user", "t1", <<<<Forged, At("a")>>>>),
     [Request("admin", "t1", <<>>) EXCEPT !.real = <<Mapped>>, !.origin = NoOrigin],
     [Request("user", "", <<<<Forged>>, <<Zoned>>>>) EXCEPT !.src = Unknown, !.excluded = TRUE],
     [Request("login", "", <<>>) EXCEPT !.real = <<Blank>>, !.src = "proxy", !.origin = Bare],
     [Request("late", "", <<>>) EXCEPT !.real = <<At("a"), At("b")>>, !.src = Unknown],
     [Request("login", "", <<<<At("a")>>>>) EXCEPT !.method = "OPTIONS"]}

SomeEntries == {<<"u1", "name">>, <<"u1", "name", "admin">>, <<"u1">>}
=============================================================================
