--------------------------- MODULE MCLibraryFetch ---------------------------
(* Instances of LibraryFetch: a small release and the ways it is asked for. *)
EXTENDS LibraryFetch, TLC

Req(version, libc, dest, force) ==
    [version |-> version, goos |-> "linux", goarch |-> "amd64", libc |-> libc,
     dest |-> dest, force |-> force]

\* The default cache with and without libc auto-detection, one -dest, -force.
CacheRequests ==
    {Req("v2", "", None, FALSE), Req("v2", "glibc", None, FALSE),
     Req("v2", "musl", None, TRUE), Req("v2", "glibc", <<"out">>, FALSE)}

\* Two versions put into the same -dest.
SharedDestRequests == {Req("v1", "glibc", <<"out">>, FALSE), Req("v2", "glibc", <<"out">>, FALSE)}

Line(comment, fields, sum, path) ==
    [comment |-> comment, fields |-> fields, sum |-> sum, path |-> path]

\* The musl asset is listed first, under a path; a comment and a short line
\* name the glibc asset too.
SumsOf(v) ==
    LET glibc == <<v, "linux", "amd64">>
        musl  == glibc \o <<"musl">>
    IN  << Line(TRUE, 3, None, <<glibc>>),
           Line(FALSE, 1, None, <<glibc>>),
           Line(FALSE, 2, Sha256(musl), <<"dist", musl>>),
           Line(FALSE, 2, Sha256(glibc), <<glibc>>) >>

RunSymmetry == Permutations(Runs)

Sums == [v \in {"v1", "v2"} |-> SumsOf(v)]
=============================================================================
