------------------------------- MODULE MCIgnore -------------------------------
(* A file of patterns that is moved away and back as it was. *)
EXTENDS Ignore, TLC
Line(include, rooted, segs) == [include |-> include, rooted |-> rooted, segs |-> segs, inside |-> FALSE]
MCPaths == {<<"a">>, <<"b">>, <<"a", "b">>}
MCContents == {<<Line(TRUE, TRUE, <<"a">>)>>, <<Line(FALSE, TRUE, <<"b">>), Line(TRUE, FALSE, <<"*">>)>>, Bad}
=============================================================================
