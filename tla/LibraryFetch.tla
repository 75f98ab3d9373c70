---------------------------- MODULE LibraryFetch ----------------------------
(***************************************************************************)
(* cmd/imbhgo-fetch: runs of the fetch tool that share a file system.      *)
(* Each run resolves its target cell, asks the release for the checksum of *)
(* its asset, decides whether the cached archive will do, and otherwise    *)
(* downloads, verifies, unpacks through a temporary file and a rename, and *)
(* then records the checksum in a sidecar file. Runs interleave at every   *)
(* file operation, every operation may fail, and a run may be killed       *)
(* between any two of them.                                                *)
(*                                                                         *)
(* The bytes of a file are abstract: a published compressed asset is known *)
(* by its name, its digest and its unpacked form by a tag and that name.   *)
(***************************************************************************)
EXTENDS Integers, Sequences, FiniteSets

CONSTANTS
    Runs,       \* invocations of the tool
    Requests,   \* the options they may be given
    Manifest,   \* version -> the lines of the release's SHA256SUMS
    MuslHost    \* a musl loader is found under /lib

VARIABLES
    opt,       \* the options of each run
    pc,        \* the next operation of each run
    expected,  \* the checksum it read from the manifest
    body,      \* the compressed bytes it downloaded
    archive,   \* directory -> content of libimbhgo.a
    sidecar,   \* directory -> content of libimbhgo.a.sha256
    temps      \* the .libimbhgo-*.a.tmp files: run -> content

vars == <<opt, pc, expected, body, archive, sidecar, temps>>

-----------------------------------------------------------------------------
(* Names: internal/release, and where a run puts its archive. *)

None    == <<>>
Empty   == <<"empty">>   \* a file created or truncated, and not yet written
Corrupt == <<"corrupt">> \* bytes of an asset damaged or replaced on the way

Sha256(bytes) == <<"sha256", bytes>>
Unzstd(bytes) == <<"raw", bytes>>

DefaultLibc(goos, musl) ==
    IF goos # "linux" THEN "" ELSE IF musl THEN "musl" ELSE "glibc"

Libc(o) == IF o.libc = "" THEN DefaultLibc(o.goos, MuslHost) ELSE o.libc

LibcTag(o) == IF o.goos = "linux" /\ Libc(o) = "musl" THEN <<"musl">> ELSE <<>>

AssetName(o) == <<o.version, o.goos, o.goarch>> \o LibcTag(o)

DroppedLibcCacheSubdir(o) == <<o.version, o.goos, o.goarch>>  \* mutant

CacheSubdir(o) == <<o.version, o.goos, o.goarch>> \o LibcTag(o)

CacheDir(o) == IF o.dest = None THEN CacheSubdir(o) ELSE o.dest

Dirs   == {CacheDir(o) : o \in Requests}
Assets == {AssetName(o) : o \in Requests}

\* A line is [comment, fields, sum, path]: whether it starts with #, how many
\* fields it has, the first of them and the components of the last.
IsEntry(line) == ~line.comment /\ line.fields >= 2

BaseName(line) == line.path[Len(line.path)]

FirstSum(lines, hits) ==
    IF hits = {} THEN None
    ELSE lines[CHOOSE i \in hits : \A j \in hits : i <= j].sum

ParseSums(lines, name) ==
    FirstSum(lines, {i \in 1..Len(lines) : IsEntry(lines[i]) /\ BaseName(lines[i]) = name})

\* The manifest of a release gives the digests of its assets, and no -dest
\* points into the default cache.
ASSUME FetchAssumption ==
    /\ \A o \in Requests : \A i \in 1..Len(Manifest[o.version]) :
         LET line == Manifest[o.version][i]
         IN  IsEntry(line) => line.sum = Sha256(BaseName(line))
    /\ \A o, p \in Requests : o.dest # None => o.dest # CacheSubdir(p)

-----------------------------------------------------------------------------
NoRequest == [version |-> ""]

Pcs == {"new", "manifest", "offline", "stat", "readSidecar", "download", "unpack",
        "write", "rename", "truncate", "writeSidecar",
        "cached", "upToDate", "installed", "failed", "killed"}

\* emit was reached: the run printed CGO_LDFLAGS for its directory.
Emitted == {"cached", "upToDate", "installed"}
Ended   == Emitted \union {"failed", "killed"}

Contents == {None, Empty} \union {Unzstd(b) : b \in Assets \union {Corrupt}}

TypeOK ==
    /\ opt \in [Runs -> Requests \union {NoRequest}]
    /\ pc \in [Runs -> Pcs]
    /\ expected \in [Runs -> {None} \union {Sha256(b) : b \in Assets}]
    /\ body \in [Runs -> {None, Corrupt} \union Assets]
    /\ archive \in [Dirs -> Contents]
    /\ sidecar \in [Dirs -> {None, Empty} \union {Sha256(b) : b \in Assets}]
    /\ temps \in [Runs -> Contents]

Init ==
    /\ opt = [r \in Runs |-> NoRequest]
    /\ pc = [r \in Runs |-> "new"]
    /\ expected = [r \in Runs |-> None]
    /\ body = [r \in Runs |-> None]
    /\ archive = [d \in Dirs |-> None]
    /\ sidecar = [d \in Dirs |-> None]
    /\ temps = [r \in Runs |-> None]

Goto(r, label) == pc' = [pc EXCEPT ![r] = label]
Dir(r) == CacheDir(opt[r])
files  == <<archive, sidecar>>

-----------------------------------------------------------------------------
(* run and fetch *)

Start(r) ==
    /\ pc[r] = "new"
    /\ \E o \in Requests : opt' = [opt EXCEPT ![r] = o]
    /\ Goto(r, "manifest")
    /\ UNCHANGED <<expected, body, files, temps>>

\* expectedSum: the manifest is read and names the asset, or it cannot be had.
ExpectedSum(r) ==
    /\ pc[r] = "manifest"
    /\ \E sum \in {None, ParseSums(Manifest[opt[r].version], AssetName(opt[r]))} :
         /\ expected' = [expected EXCEPT ![r] = sum]
         /\ Goto(r, CASE sum = None /\ opt[r].force -> "failed"
                      [] sum = None /\ ~opt[r].force -> "offline"
                      [] sum # None /\ opt[r].force -> "download"
                      [] OTHER -> "stat")
    /\ UNCHANGED <<opt, body, files, temps>>

UseOffline(r) ==
    /\ pc[r] = "offline"
    /\ Goto(r, IF archive[Dir(r)] = None THEN "failed" ELSE "cached")
    /\ UNCHANGED <<opt, expected, body, files, temps>>

\* cachedMatches stats the archive, then reads the sidecar.
StatArchive(r) ==
    /\ pc[r] = "stat"
    /\ Goto(r, IF archive[Dir(r)] = None THEN "download" ELSE "readSidecar")
    /\ UNCHANGED <<opt, expected, body, files, temps>>

CachedMatches(r) ==
    /\ pc[r] = "readSidecar"
    /\ Goto(r, IF sidecar[Dir(r)] = expected[r] THEN "upToDate" ELSE "download")
    /\ UNCHANGED <<opt, expected, body, files, temps>>

\* The GET fails, or brings bytes that are verified against the manifest.
Download(r) ==
    /\ pc[r] = "download"
    /\ \/ Goto(r, "failed") /\ UNCHANGED body
       \/ \E bytes \in {Corrupt, AssetName(opt[r])} :
            /\ body' = [body EXCEPT ![r] = bytes]
            /\ Goto(r, IF Sha256(bytes) = expected[r] THEN "unpack" ELSE "failed")
    /\ UNCHANGED <<opt, expected, files, temps>>

-----------------------------------------------------------------------------
(* decompressToFile, after MkdirAll *)

\* The directory and an empty temporary file are made, or one of MkdirAll,
\* NewReader, DecodeAll and CreateTemp fails and no file is left.
CreateTemp(r) ==
    /\ pc[r] = "unpack"
    /\ \/ temps' = [temps EXCEPT ![r] = Empty] /\ Goto(r, "write")
       \/ UNCHANGED temps /\ Goto(r, "failed")
    /\ UNCHANGED <<opt, expected, body, files>>

InPlaceWrite(r) ==                                          \* mutant
    /\ pc[r] = "write"
    /\ temps' = [temps EXCEPT ![r] = Unzstd(body[r])]
    /\ archive' = [archive EXCEPT ![Dir(r)] = Empty]
    /\ Goto(r, "rename")
    /\ UNCHANGED <<opt, expected, body, sidecar>>

LeakyWrite(r) ==                                            \* mutant
    /\ pc[r] = "write"
    /\ \/ temps' = [temps EXCEPT ![r] = Unzstd(body[r])] /\ Goto(r, "rename")
       \/ UNCHANGED temps /\ Goto(r, "failed")
    /\ UNCHANGED <<opt, expected, body, files>>

EarlySidecar(r) ==                                          \* mutant
    /\ pc[r] = "write"
    /\ temps' = [temps EXCEPT ![r] = Unzstd(body[r])]
    /\ sidecar' = [sidecar EXCEPT ![Dir(r)] = expected[r]]
    /\ Goto(r, "rename")
    /\ UNCHANGED <<opt, expected, body, archive>>

\* Write and Close; when one fails the deferred Remove takes the file away.
WriteTemp(r) ==
    /\ pc[r] = "write"
    /\ \/ temps' = [temps EXCEPT ![r] = Unzstd(body[r])] /\ Goto(r, "rename")
       \/ temps' = [temps EXCEPT ![r] = None] /\ Goto(r, "failed")
    /\ UNCHANGED <<opt, expected, body, files>>

\* The rename replaces whatever archive is there in one step.
Rename(r) ==
    /\ pc[r] = "rename"
    /\ temps' = [temps EXCEPT ![r] = None]
    /\ \/ archive' = [archive EXCEPT ![Dir(r)] = temps[r]] /\ Goto(r, "truncate")
       \/ UNCHANGED archive /\ Goto(r, "failed")
    /\ UNCHANGED <<opt, expected, body, sidecar>>

\* os.WriteFile opens the sidecar with O_TRUNC, then writes it.
TruncateSidecar(r) ==
    /\ pc[r] = "truncate"
    /\ \/ sidecar' = [sidecar EXCEPT ![Dir(r)] = Empty] /\ Goto(r, "writeSidecar")
       \/ UNCHANGED sidecar /\ Goto(r, "failed")
    /\ UNCHANGED <<opt, expected, body, archive, temps>>

WriteSidecar(r) ==
    /\ pc[r] = "writeSidecar"
    /\ \/ sidecar' = [sidecar EXCEPT ![Dir(r)] = expected[r]] /\ Goto(r, "installed")
       \/ UNCHANGED sidecar /\ Goto(r, "failed")
    /\ UNCHANGED <<opt, expected, body, archive, temps>>

\* The process dies: its files stay as they are.
Kill(r) ==
    /\ pc[r] \notin Ended \union {"new"}
    /\ Goto(r, "killed")
    /\ UNCHANGED <<opt, expected, body, files, temps>>

Step(r) ==
    \/ Start(r) \/ ExpectedSum(r) \/ UseOffline(r) \/ StatArchive(r) \/ CachedMatches(r)
    \/ Download(r) \/ CreateTemp(r) \/ WriteTemp(r) \/ Rename(r)
    \/ TruncateSidecar(r) \/ WriteSidecar(r) \/ Kill(r)

Done == (\A r \in Runs : pc[r] \in Ended) /\ UNCHANGED vars

Next == (\E r \in Runs : Step(r)) \/ Done

Spec == Init /\ [][Next]_vars

-----------------------------------------------------------------------------
(* Properties *)

\* Every run that uses r's directory asks for r's asset: always so for the
\* default cache, and for a -dest that is kept to one version and target.
Unmixed(r) ==
    \A s \in Runs : (pc[s] # "new" /\ Dir(s) = Dir(r))
                        => AssetName(opt[s]) = AssetName(opt[r])

\* A directory's archive is absent or a complete unpacked asset, verified
\* against the checksum published for it, whatever runs were killed, failed or
\* overlapped (checksum test in fetch, temporary file and rename in
\* decompressToFile). The checksum is that of the run's own cell, not that of
\* its musl sibling, whose name starts with it, nor what a comment or a short
\* line says (parseSums).
InstalledIsVerified ==
    /\ \A r \in Runs : expected[r] # None => expected[r] = Sha256(AssetName(opt[r]))
    /\ \A d \in Dirs : archive[d] # None => \E o \in Requests : archive[d] = Unzstd(AssetName(o))

\* Once a run has printed the flags for its directory, the archive in it is
\* the one asked for, also on the offline path, which never looks at the
\* sidecar, and also while another run replaces it. For the default cache
\* this rests on CacheSubdir telling apart whatever AssetName tells apart.
EmitsAskedArchive ==
    \A r \in Runs :
        pc[r] \in Emitted /\ (opt[r].dest = None \/ Unmixed(r))
            => archive[Dir(r)] = Unzstd(AssetName(opt[r]))

\* In a directory of one asset a written sidecar vouches for an archive that
\* is there: it is written last, so a kill in between costs a download only.
SidecarComesLast ==
    \A r \in Runs :
        pc[r] # "new" /\ Unmixed(r) /\ sidecar[Dir(r)] = Sha256(AssetName(opt[r]))
            => archive[Dir(r)] = Unzstd(AssetName(opt[r]))

\* Only a killed run leaves a temporary file (the deferred Remove).
NoTempLeftBehind ==
    \A r \in Runs : temps[r] # None => pc[r] \in {"write", "rename", "killed"}

\* What the tool says of its cache: a run that reports "up to date" has found
\* a matching archive, whatever directory it was pointed at.
UpToDateMatches ==
    \A r \in Runs : pc[r] = "upToDate"
        => \/ archive[Dir(r)] = Unzstd(AssetName(opt[r]))
           \/ \E s \in Runs \ {r} : pc[s] \notin Ended \union {"new"}
=============================================================================
