----------------------------- MODULE MCHttpRoute -----------------------------
(* Instances of HttpRoute for TLC.  Texts are short: "i" stands for the name  *)
(* "index.html".                                                              *)
EXTENDS HttpRoute

CONSTANTS MaxParams

IndexName == <<105>>

Routed == <<Slash, 104>>                \* a path with a route
Missing == <<Slash, 109>>               \* one with neither route nor file
MCPatterns == {{Routed}, {Routed, <<Slash>>}}

Names == {<<97>>, <<Equals>>}
Values == {<<Amp, Space>>, <<Plus, Percent>>}

MCIntended == UNION {[1 .. n -> Names \X Values] : n \in 0 .. MaxParams}

Sent(method, p, query, keep, body) ==
    [method |-> method, path |-> UrlEncode(p, FALSE), query |-> query, keep |-> keep, body |-> body]

\* Queries on one path, one of them wrong; an escape that is none; and other methods on every path.
MCRequests ==
    {Sent("GET", Routed, Query(ps), FALSE, <<>>) : ps \in MCIntended}
    \cup {Sent("GET", Routed, <<97, Equals, Amp, 97>>, TRUE, <<>>),
          [Sent("GET", <<>>, <<>>, FALSE, <<>>) EXCEPT !.path = <<Slash, Percent, 122, 122>>]}
    \cup {Sent(m, p, <<>>, TRUE, IF m = "PUT" THEN <<"data">> ELSE <<>>) :
             m \in {"GET", "HEAD", "POST", "PUT"}, p \in {Routed, <<Slash>>, Missing}}
=============================================================================
