---------------------------- MODULE MCNodeHarness ----------------------------
(* Values of the constants of NodeHarness for TLC: up to two test files in *)
(* either order, titles and texts that a filter or the check takes offence *)
(* at, and a document that three tests fill: one long line among three, or *)
(* one in each of two, is too much.                                        *)
EXTENDS NodeHarness

Ending(status, thrown, title) == [status |-> status, thrown |-> thrown, title |-> title]

SomeEndings ==
    {Ending("pass", {}, {"word"}), Ending("pass", {}, {}), Ending("pass", {}, Long),
     Ending("assertion", {}, {"word"}), Ending("assertion", Long, {"word"})}
    \cup {Ending("throw", thrown, {"word"}) : thrown \in {{"private", "late"}, {"escape"}, {"next"}}}

Texts == {{"private", "late"}, {"escape", "next"}, Long}

\* Bound: at most three tests, writes and files with stderr in one run.  An event
\* counts from its emission on, so that the bound never keeps run.js from going on.
Complaining ==
    {f \in File : \/ stderrByFile[f] # {}
                 \/ \E i \in DOMAIN stream : stream[i].type = "test:stderr" /\ stream[i].file = f}
FewEvents == Cardinality(Reported) + Len(written) + Cardinality(Complaining) <= 3
=============================================================================
