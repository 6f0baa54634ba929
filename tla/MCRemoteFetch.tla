---------------------------- MODULE MCRemoteFetch ----------------------------
(* RemoteFetch with two connections, few trees and the frames an SSH client may send. *)
EXTENDS RemoteFetch

CONSTANTS Site, Elsewhere, Public, Private, Pinned, OtherHost, Chosen, OtherKey

MCAnswers == {{Public}, {Public, Private}, {}}

Header(name, value) == [name |-> name, value |-> value]

Connect(target, headers) == [sound |-> TRUE, target |-> target, headers |-> headers]

MCConnectRequests ==
    {Connect(Site, <<Header("host", Site)>>),
     Connect(Elsewhere, <<Header("host", Elsewhere)>>),
     Connect(Site, <<Header("host", Site), Header("host", Site)>>)}

ClientFrame(kind, key, whole) == [kind |-> kind, key |-> key, whole |-> whole]

MCClientFrames ==
    {ClientFrame("identities", None, TRUE), ClientFrame("query", None, TRUE),
     ClientFrame("session_bind", Pinned, TRUE), ClientFrame("session_bind", OtherHost, TRUE),
     ClientFrame("sign", Chosen, TRUE), ClientFrame("sign", OtherKey, TRUE),
     ClientFrame("sign", Chosen, FALSE), ClientFrame("add_identity", OtherKey, TRUE)}

Entry(path, folded, mode_, size, selected) ==
    [path |-> path, folded |-> folded, safe |-> TRUE, selected |-> selected, mode |-> mode_,
     size |-> size, meta |-> 2]

\* Two files next to a submodule and an unselected link; paths that differ in case; a file
\* that is too long; two that are too long together; a submodule alone; a bundle too long.
MCTrees ==
    LET a == Entry("a", "a", "100644", 1, TRUE)
        b == Entry("b", "b", "100755", 2, TRUE)
        m == Entry("m", "m", "160000", 0, TRUE)
        l == Entry("l", "l", "120000", 1, FALSE)
    IN {{a, b, m, l}, {a, Entry("A", "a", "100644", 1, TRUE)},
        {Entry("c", "c", "100644", 3, TRUE)}, {b, Entry("d", "d", "100644", 2, TRUE)}, {m},
        {[a EXCEPT !.meta = 20]}}
=============================================================================
