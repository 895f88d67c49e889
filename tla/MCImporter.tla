----------------------------- MODULE MCImporter -----------------------------
(* Importer with an allowed, a wildcarded, a denied and a local host.        *)
EXTENDS Importer

Url(scheme, host, path) == [scheme |-> scheme, host |-> host, path |-> path]

Listed == <<"listed">>
Apex == <<"wild", "net">>
Sub == <<"a", "wild", "net">>
Local == <<"localhost">>

MCUrls == {Url(s, h, <<"x">>) : s \in {"https", "http"}, h \in {Listed, Apex, Sub, Local}}

MCBases == {Url("http", Local, <<>>), Url("http", Local, <<"team">>), Url("http", Listed, <<"team">>)}

MCReferences ==
    {Unparsable, HostOnly}
    \cup {Absolute(u) : u \in MCUrls}
    \cup {Relative(r, p) : r \in BOOLEAN, p \in BoundedSeq({"team", "teamster", ".."}, 2)}

MCLoopback == {Local}

MCAllowedHosts == {[wild |-> FALSE, labels |-> Listed], [wild |-> TRUE, labels |-> Apex]}
=============================================================================
