---------------------------- MODULE MCHttpServer ----------------------------
(* Instances of HttpServer for TLC: a client sends up to MaxItems items of the list below. *)
EXTENDS HttpServer, SequencesExt

CONSTANTS get, MaxItems

Items ==
    {<<get, "eol", "eol">>,                                         \* closes
     <<get, "eol", "keep", "eol", "eol">>,                          \* keeps alive
     <<get, "eol", "length", "eol", "keep", "eol", "eol", "junk", "eol">>,  \* has a body
     <<get, "eol", "keep", "junk", "eol", "keep", "eol", "eol">>,   \* has two headers of a name
     <<get, "junk", get, "eol", "header", "eol", "eol">>,
     <<get, "eol", "junk", "eol">>,                                 \* has a wrong header,
     <<get, "eol", "header", "junk", "junk", "junk", "eol">>,       \* too long a line,
     <<"junk", "eol">>, <<"eol">>, <<"junk">>}

MCStreams ==
    UNION {{FlattenSeq(f) : f \in [1 .. n -> Items]} : n \in 1 .. MaxItems}
=============================================================================
