--------------------------- MODULE FetchToolProofs ---------------------------
(***************************************************************************)
(* Proofs of the safety properties of LibraryFetch for any number of runs, *)
(* any release and any set of requests that satisfy FetchAssumption, and   *)
(* of EnvLine for directory names of any length.                           *)
(***************************************************************************)
EXTENDS LibraryFetch, EnvLine, WellFoundedInduction, TLAPS

-----------------------------------------------------------------------------
(* The inductive invariant *)

\* What holds of a run at its place in fetch.
RunInv(r) ==
    /\ pc[r] # "new" => opt[r] \in Requests
    /\ pc[r] = "new" => expected[r] = None
    /\ expected[r] # None => expected[r] = Sha256(AssetName(opt[r]))
    /\ pc[r] \in {"unpack", "write"} => body[r] = AssetName(opt[r])
    /\ temps[r] # None => pc[r] \in {"write", "rename", "killed"}
    /\ pc[r] = "rename" => temps[r] = Unzstd(AssetName(opt[r]))
    /\ pc[r] \in {"readSidecar", "truncate", "writeSidecar"} \union Emitted
         => archive[Dir(r)] # None

\* An archive was put where it is by a run that was asked for it.
Provenance(d) ==
    archive[d] # None =>
        \E s \in Runs : /\ pc[s] # "new"
                        /\ CacheDir(opt[s]) = d
                        /\ archive[d] = Unzstd(AssetName(opt[s]))

\* There is no sidecar without an archive.
SidecarInv(d) == sidecar[d] # None => archive[d] # None

IInv ==
    /\ TypeOK
    /\ \A r \in Runs : RunInv(r)
    /\ \A d \in Dirs : Provenance(d) /\ SidecarInv(d)

-----------------------------------------------------------------------------
(* Facts about contents and names *)

\* Digests and unpacked bytes are no special content and tell bytes apart.
LEMMA Tokens ==
    /\ \A x : Sha256(x) # None /\ Sha256(x) # Empty /\ Unzstd(x) # None /\ Unzstd(x) # Empty
    /\ \A x, y : Sha256(x) = Sha256(y) => x = y
    /\ None # Empty
  BY DEF Sha256, Unzstd, None, Empty

\* A non-empty set of positions has a first one.
LEMMA FirstPosition ==
    ASSUME NEW S \in SUBSET Nat, S # {}
    PROVE  \E i \in S : \A j \in S : i <= j
  <1> DEFINE R == {ss \in Nat \X Nat : ss[1] < ss[2]}
  <1>1. IsWellFoundedOn(R, Nat) BY NatLessThanWellFounded DEF OpToRel
  <1>2. \E i \in S : \A j \in S : ~(<<j, i>> \in R)
    <2> HIDE DEF R
    <2> QED BY <1>1, WFMin
  <1>3. PICK i \in S : \A j \in S : ~(<<j, i>> \in R) BY <1>2
  <1>4. ASSUME NEW j \in S PROVE i <= j
    <2>1. i \in Nat /\ j \in Nat OBVIOUS
    <2>2. j < i => <<j, i>> \in R BY <2>1
    <2> QED BY <1>3, <2>1, <2>2
  <1> QED BY <1>4

\* parseSums gives the digest of the asset it is asked for, or nothing.
LEMMA ParseSumsIsOwn ==
    ASSUME NEW o \in Requests
    PROVE  ParseSums(Manifest[o.version], AssetName(o)) \in {None, Sha256(AssetName(o))}
  <1> DEFINE lines == Manifest[o.version]
             hits  == {i \in 1..Len(lines) : IsEntry(lines[i]) /\ BaseName(lines[i]) = AssetName(o)}
  <1>1. CASE hits = {}
    BY <1>1 DEF ParseSums, FirstSum
  <1>2. CASE hits # {}
    <2>1. hits \in SUBSET Nat OBVIOUS
    <2>2. \E i \in hits : \A j \in hits : i <= j
      BY ONLY <1>2, <2>1, FirstPosition
    <2> DEFINE i == CHOOSE k \in hits : \A j \in hits : k <= j
    <2>3. i \in hits BY <2>2
    <2>4. lines[i].sum = Sha256(AssetName(o))
      BY <2>3, FetchAssumption
    <2> QED BY <1>2, <2>4 DEF ParseSums, FirstSum
  <1> QED BY <1>1, <1>2

-----------------------------------------------------------------------------
(* The invariant is inductive: one lemma per operation *)

LEMMA InitInv == Init => IInv
  BY Tokens DEF Init, IInv, TypeOK, RunInv, Provenance, SidecarInv, Contents, Pcs, Emitted

\* Directories of runs are known ones.
LEMMA DirKnown ==
    ASSUME NEW r \in Runs, opt[r] \in Requests
    PROVE  Dir(r) \in Dirs /\ AssetName(opt[r]) \in Assets
  BY DEF Dir, Dirs, Assets

\* A step of run r that takes no archive away keeps what is known of the others.
LEMMA OthersKeep ==
    ASSUME IInv, NEW r \in Runs,
           \A s \in Runs \ {r} :
               /\ pc'[s] = pc[s] /\ opt'[s] = opt[s] /\ expected'[s] = expected[s]
               /\ body'[s] = body[s] /\ temps'[s] = temps[s],
           \A d \in Dirs : archive[d] # None => archive'[d] # None
    PROVE  \A s \in Runs \ {r} : RunInv(s)'
  <1> SUFFICES ASSUME NEW s \in Runs \ {r} PROVE RunInv(s)'
    OBVIOUS
  <1>1. RunInv(s) BY DEF IInv
  <1>2. pc[s] # "new" => Dir(s) \in Dirs BY <1>1, DirKnown DEF RunInv
  <1>3. Dir(s)' = CacheDir(opt'[s]) /\ Dir(s) = CacheDir(opt[s]) BY DEF Dir
  <1> QED BY <1>1, <1>2, <1>3 DEF RunInv, Emitted

\* A step that leaves the files alone keeps what is known of them.
LEMMA FilesKeep ==
    ASSUME IInv, UNCHANGED files,
           \A s \in Runs : pc[s] # "new" => pc'[s] # "new" /\ opt'[s] = opt[s]
    PROVE  \A d \in Dirs : Provenance(d)' /\ SidecarInv(d)'
  BY DEF IInv, Provenance, SidecarInv, files

LEMMA StartKeeps == ASSUME IInv, NEW r \in Runs, Start(r) PROVE IInv'
  <1>1. PICK o \in Requests : opt' = [opt EXCEPT ![r] = o] BY DEF Start
  <1>2. TypeOK' BY <1>1 DEF IInv, TypeOK, Start, Goto, Pcs, files
  <1>3. \A s \in Runs \ {r} : RunInv(s)'
    BY <1>1, OthersKeep DEF IInv, TypeOK, Start, Goto, files
  <1>4. RunInv(r)' BY <1>1 DEF IInv, TypeOK, RunInv, Start, Goto, files, Emitted
  <1>5. \A d \in Dirs : Provenance(d)' /\ SidecarInv(d)'
    BY <1>1, FilesKeep DEF IInv, TypeOK, Start, Goto, files
  <1> QED BY <1>2, <1>3, <1>4, <1>5 DEF IInv

LEMMA ExpectedSumKeeps == ASSUME IInv, NEW r \in Runs, ExpectedSum(r) PROVE IInv'
  <1>0. opt[r] \in Requests BY DEF IInv, RunInv, ExpectedSum
  <1>1. PICK sum \in {None, Sha256(AssetName(opt[r]))} :
          /\ expected' = [expected EXCEPT ![r] = sum]
          /\ \E l \in {"failed", "offline", "download", "stat"} : pc' = [pc EXCEPT ![r] = l]
    BY <1>0, ParseSumsIsOwn DEF ExpectedSum, Goto
  <1>2. TypeOK' BY <1>0, <1>1, DirKnown DEF IInv, TypeOK, ExpectedSum, Pcs, files
  <1>3. \A s \in Runs \ {r} : RunInv(s)'
    BY <1>1, OthersKeep DEF IInv, TypeOK, ExpectedSum, files
  <1>4. RunInv(r)' BY <1>0, <1>1 DEF IInv, TypeOK, RunInv, ExpectedSum, files, Emitted
  <1>5. \A d \in Dirs : Provenance(d)' /\ SidecarInv(d)'
    BY <1>1, FilesKeep DEF IInv, TypeOK, ExpectedSum, files
  <1> QED BY <1>2, <1>3, <1>4, <1>5 DEF IInv

\* The steps that only look at the file system.
LEMMA ReadingKeeps ==
    ASSUME IInv, NEW r \in Runs, UseOffline(r) \/ StatArchive(r) \/ CachedMatches(r) \/ Kill(r)
    PROVE  IInv'
  <1>1. PICK l \in {"failed", "cached", "download", "readSidecar", "upToDate", "killed"} :
          /\ pc' = [pc EXCEPT ![r] = l]
          /\ l \in {"cached", "readSidecar", "upToDate"} => archive[Dir(r)] # None
    BY DEF UseOffline, StatArchive, CachedMatches, Kill, Goto, IInv, RunInv
  <1>2. UNCHANGED <<opt, expected, body, files, temps>> /\ pc[r] # "new"
    BY DEF UseOffline, StatArchive, CachedMatches, Kill, Ended
  <1>3. l # "killed" => temps[r] = None
    BY <1>1 DEF UseOffline, StatArchive, CachedMatches, Kill, Goto, IInv, RunInv, TypeOK
  <1>4. TypeOK' BY <1>1, <1>2 DEF IInv, TypeOK, Pcs, files
  <1>5. \A s \in Runs \ {r} : RunInv(s)'
    BY <1>1, <1>2, OthersKeep DEF IInv, TypeOK, files
  <1>6. RunInv(r)'
    <2>1. Dir(r)' = Dir(r) BY <1>2 DEF Dir
    <2> QED BY <1>1, <1>2, <1>3, <2>1 DEF IInv, TypeOK, RunInv, files, Emitted
  <1>7. \A d \in Dirs : Provenance(d)' /\ SidecarInv(d)'
    BY <1>1, <1>2, FilesKeep DEF IInv, TypeOK, files
  <1> QED BY <1>4, <1>5, <1>6, <1>7 DEF IInv

LEMMA DownloadKeeps == ASSUME IInv, NEW r \in Runs, Download(r) PROVE IInv'
  <1>0. opt[r] \in Requests /\ temps[r] = None BY DEF IInv, RunInv, TypeOK, Download
  <1>1. PICK l \in {"failed", "unpack"}, b \in {body[r], Corrupt, AssetName(opt[r])} :
          /\ pc' = [pc EXCEPT ![r] = l] /\ body' = [body EXCEPT ![r] = b]
          /\ l = "unpack" => Sha256(b) = expected[r]
    BY DEF Download, Goto, IInv, TypeOK
  <1>2. l = "unpack" => b = AssetName(opt[r])
    BY <1>1, Tokens DEF IInv, RunInv
  <1>3. TypeOK' BY <1>0, <1>1, DirKnown DEF IInv, TypeOK, Download, Pcs, files
  <1>4. \A s \in Runs \ {r} : RunInv(s)'
    BY <1>1, OthersKeep DEF IInv, TypeOK, Download, files
  <1>5. RunInv(r)'
    BY <1>0, <1>1, <1>2 DEF IInv, TypeOK, RunInv, Download, files, Emitted
  <1>6. \A d \in Dirs : Provenance(d)' /\ SidecarInv(d)'
    BY <1>1, FilesKeep DEF IInv, TypeOK, Download, files
  <1> QED BY <1>3, <1>4, <1>5, <1>6 DEF IInv

\* The steps on the temporary file.
LEMMA TempKeeps ==
    ASSUME IInv, NEW r \in Runs, CreateTemp(r) \/ WriteTemp(r)
    PROVE  IInv'
  <1>1. PICK l \in {"failed", "write", "rename"}, t \in {None, Empty, Unzstd(body[r])} :
          /\ pc' = [pc EXCEPT ![r] = l] /\ temps' = [temps EXCEPT ![r] = t]
          /\ l = "rename" => t = Unzstd(body[r])
          /\ l = "failed" => t = None
    BY DEF CreateTemp, WriteTemp, Goto, IInv, TypeOK, RunInv
  <1>2. UNCHANGED <<opt, expected, body, files>> /\ pc[r] \in {"unpack", "write"}
    BY DEF CreateTemp, WriteTemp
  <1>3. opt[r] \in Requests /\ body[r] = AssetName(opt[r])
    BY <1>2 DEF IInv, RunInv
  <1>4. TypeOK' BY <1>1, <1>2, <1>3, DirKnown DEF IInv, TypeOK, Pcs, files, Contents
  <1>5. \A s \in Runs \ {r} : RunInv(s)'
    BY <1>1, <1>2, OthersKeep DEF IInv, TypeOK, files
  <1>6. RunInv(r)'
    BY <1>1, <1>2, <1>3 DEF IInv, TypeOK, RunInv, files, Emitted
  <1>7. \A d \in Dirs : Provenance(d)' /\ SidecarInv(d)'
    BY <1>1, <1>2, FilesKeep DEF IInv, TypeOK, files
  <1> QED BY <1>4, <1>5, <1>6, <1>7 DEF IInv

LEMMA RenameKeeps == ASSUME IInv, NEW r \in Runs, Rename(r) PROVE IInv'
  <1>0. opt[r] \in Requests /\ temps[r] = Unzstd(AssetName(opt[r]))
    BY DEF IInv, RunInv, Rename
  <1>1. CASE UNCHANGED archive
    <2>1. pc' = [pc EXCEPT ![r] = pc'[r]] /\ pc'[r] \in {"truncate", "failed"}
      BY DEF Rename, Goto, IInv, TypeOK
    <2>2. pc'[r] = "truncate" => archive[Dir(r)] # None
      BY <1>0, <1>1, <2>1, DirKnown, Tokens DEF Rename, Goto, IInv, TypeOK
    <2>3. TypeOK' BY <1>1, <2>1 DEF IInv, TypeOK, Rename, Pcs, Contents
    <2>4. \A s \in Runs \ {r} : RunInv(s)'
      BY <1>1, <2>1, OthersKeep DEF IInv, TypeOK, Rename
    <2>5. RunInv(r)'
      <3>1. Dir(r)' = Dir(r) BY DEF Dir, Rename
      <3> QED BY <1>0, <1>1, <2>1, <2>2, <3>1 DEF IInv, TypeOK, RunInv, Rename, Emitted
    <2>6. \A d \in Dirs : Provenance(d)' /\ SidecarInv(d)'
      BY <1>1, <2>1, FilesKeep DEF IInv, TypeOK, Rename, files
    <2> QED BY <2>3, <2>4, <2>5, <2>6 DEF IInv
  <1>2. CASE /\ archive' = [archive EXCEPT ![Dir(r)] = temps[r]]
             /\ pc' = [pc EXCEPT ![r] = "truncate"]
    <2>1. Dir(r) \in Dirs /\ AssetName(opt[r]) \in Assets BY <1>0, DirKnown
    <2>2. TypeOK' BY <1>2, <2>1 DEF IInv, TypeOK, Rename, Pcs, Contents
    <2>3. \A d \in Dirs : archive[d] # None => archive'[d] # None
      BY <1>0, <1>2, Tokens DEF IInv, TypeOK
    <2>4. \A s \in Runs \ {r} : RunInv(s)'
      BY <1>2, <2>3, OthersKeep DEF IInv, TypeOK, Rename
    <2>5. RunInv(r)'
      <3>1. Dir(r)' = Dir(r) BY DEF Dir, Rename
      <3>2. archive'[Dir(r)] # None BY <1>0, <1>2, <2>1, Tokens DEF IInv, TypeOK
      <3> QED BY <1>0, <1>2, <3>1, <3>2 DEF IInv, TypeOK, RunInv, Rename, Emitted
    <2>6. \A d \in Dirs : Provenance(d)'
      <3> SUFFICES ASSUME NEW d \in Dirs PROVE Provenance(d)' OBVIOUS
      <3>1. CASE d = Dir(r)
        <4>1. CacheDir(opt'[r]) = d /\ pc'[r] # "new"
          BY <1>2, <3>1 DEF Dir, Rename, IInv, TypeOK
        <4>2. archive'[d] = Unzstd(AssetName(opt'[r]))
          BY <1>0, <1>2, <2>1, <3>1 DEF Rename, IInv, TypeOK
        <4> QED BY <4>1, <4>2 DEF Provenance
      <3>2. CASE d # Dir(r)
        <4>1. archive'[d] = archive[d] BY <1>2, <3>2 DEF IInv, TypeOK
        <4> QED BY <1>2, <4>1 DEF Provenance, Rename, IInv, TypeOK
      <3> QED BY <3>1, <3>2
    <2>7. \A d \in Dirs : SidecarInv(d)'
      BY <2>3 DEF SidecarInv, Rename, IInv
    <2> QED BY <2>2, <2>4, <2>5, <2>6, <2>7 DEF IInv
  <1> QED BY <1>1, <1>2 DEF Rename, Goto

\* The two steps of os.WriteFile on the sidecar.
LEMMA SidecarKeeps ==
    ASSUME IInv, NEW r \in Runs, TruncateSidecar(r) \/ WriteSidecar(r)
    PROVE  IInv'
  <1>0. opt[r] \in Requests /\ archive[Dir(r)] # None /\ pc[r] # "new" /\ temps[r] = None
    BY DEF IInv, RunInv, TruncateSidecar, WriteSidecar
  <1>1. PICK l \in {"writeSidecar", "installed", "failed"}, c \in {sidecar[Dir(r)], Empty, expected[r]} :
          pc' = [pc EXCEPT ![r] = l] /\ sidecar' = [sidecar EXCEPT ![Dir(r)] = c]
    BY DEF TruncateSidecar, WriteSidecar, Goto, IInv, TypeOK
  <1>2. UNCHANGED <<opt, expected, body, archive, temps>>
    BY DEF TruncateSidecar, WriteSidecar
  <1>3. Dir(r) \in Dirs BY <1>0, DirKnown
  <1>4. TypeOK' BY <1>1, <1>2, <1>3 DEF IInv, TypeOK, Pcs
  <1>5. \A s \in Runs \ {r} : RunInv(s)'
    BY <1>1, <1>2, OthersKeep DEF IInv, TypeOK
  <1>6. RunInv(r)'
    <2>1. Dir(r)' = Dir(r) BY <1>2 DEF Dir
    <2> QED BY <1>0, <1>1, <1>2, <2>1 DEF IInv, TypeOK, RunInv, Emitted
  <1>7. \A d \in Dirs : Provenance(d)'
    BY <1>1, <1>2 DEF IInv, TypeOK, Provenance
  <1>8. \A d \in Dirs : SidecarInv(d)'
    BY <1>0, <1>1, <1>2, <1>3 DEF IInv, TypeOK, SidecarInv
  <1> QED BY <1>4, <1>5, <1>6, <1>7, <1>8 DEF IInv

LEMMA NextKeeps == IInv /\ [Next]_vars => IInv'
  <1> SUFFICES ASSUME IInv, [Next]_vars PROVE IInv' OBVIOUS
  <1>1. CASE UNCHANGED vars
    BY <1>1 DEF vars, IInv, TypeOK, RunInv, Provenance, SidecarInv, Dir
  <1>2. ASSUME NEW r \in Runs, Step(r) PROVE IInv'
    BY <1>2, StartKeeps, ExpectedSumKeeps, ReadingKeeps, DownloadKeeps, TempKeeps,
       RenameKeeps, SidecarKeeps DEF Step
  <1> QED BY <1>1, <1>2 DEF Next, Done

\* The inductive invariant holds in every state.
THEOREM Inductive == Spec => []IInv
  BY InitInv, NextKeeps, PTL DEF Spec

-----------------------------------------------------------------------------
(* What follows from it *)

\* The state of every run and of the two files of every directory is well
\* formed (fetch, decompressToFile).
THEOREM TypeCorrect == Spec => []TypeOK
  <1>1. IInv => TypeOK BY DEF IInv
  <1> QED BY <1>1, Inductive, PTL

\* However many runs overlap, fail or are killed, an archive is absent or a whole
\* asset that was verified against its own line of the manifest (fetch).
THEOREM InstalledIsVerifiedHolds == Spec => []InstalledIsVerified
  <1>1. ASSUME IInv PROVE InstalledIsVerified
    <2>1. \A d \in Dirs : archive[d] # None => \E o \in Requests : archive[d] = Unzstd(AssetName(o))
      BY <1>1 DEF IInv, Provenance, RunInv
    <2> QED BY <1>1, <2>1 DEF InstalledIsVerified, IInv, RunInv
  <1> QED BY <1>1, Inductive, PTL

\* A directory of one asset holds that asset or nothing.
LEMMA UnmixedArchive ==
    ASSUME IInv, NEW r \in Runs, pc[r] # "new", Unmixed(r), archive[Dir(r)] # None
    PROVE  archive[Dir(r)] = Unzstd(AssetName(opt[r]))
  <1>1. Dir(r) \in Dirs BY DirKnown DEF IInv, RunInv
  <1>2. PICK s \in Runs : /\ pc[s] # "new" /\ CacheDir(opt[s]) = Dir(r)
                          /\ archive[Dir(r)] = Unzstd(AssetName(opt[s]))
    BY <1>1 DEF IInv, Provenance
  <1>3. AssetName(opt[s]) = AssetName(opt[r]) BY <1>2 DEF Unmixed, Dir
  <1> QED BY <1>2, <1>3

\* The directories of the default cache are such directories.
LEMMA DefaultCacheUnmixed ==
    ASSUME IInv, NEW r \in Runs, pc[r] # "new", opt[r].dest = None
    PROVE  Unmixed(r)
  <1> SUFFICES ASSUME NEW s \in Runs, pc[s] # "new", Dir(s) = Dir(r)
               PROVE  AssetName(opt[s]) = AssetName(opt[r])
    BY DEF Unmixed
  <1>1. opt[r] \in Requests /\ opt[s] \in Requests BY DEF IInv, RunInv
  <1>2. CacheDir(opt[r]) = CacheSubdir(opt[r]) BY DEF CacheDir
  <1>3. opt[s].dest = None
    BY <1>1, <1>2, FetchAssumption DEF Dir, CacheDir
  <1>4. CacheSubdir(opt[s]) = CacheSubdir(opt[r]) BY <1>2, <1>3 DEF Dir, CacheDir
  <1> QED BY <1>4 DEF CacheSubdir, AssetName

\* A run that has printed its flags has its own archive behind them, in the
\* default cache always and in a -dest that is kept to one asset (emit).
THEOREM EmitsAskedArchiveHolds == Spec => []EmitsAskedArchive
  <1>1. ASSUME IInv PROVE EmitsAskedArchive
    <2> SUFFICES ASSUME NEW r \in Runs, pc[r] \in Emitted, opt[r].dest = None \/ Unmixed(r)
                 PROVE  archive[Dir(r)] = Unzstd(AssetName(opt[r]))
      BY DEF EmitsAskedArchive
    <2>1. pc[r] # "new" BY DEF Emitted
    <2>2. archive[Dir(r)] # None BY <1>1 DEF IInv, RunInv
    <2>3. Unmixed(r) BY <1>1, <2>1, DefaultCacheUnmixed
    <2> QED BY <1>1, <2>1, <2>2, <2>3, UnmixedArchive
  <1> QED BY <1>1, Inductive, PTL

\* A sidecar vouches for an archive that is there (fetch writes it last).
THEOREM SidecarComesLastHolds == Spec => []SidecarComesLast
  <1>1. ASSUME IInv PROVE SidecarComesLast
    <2> SUFFICES ASSUME NEW r \in Runs, pc[r] # "new", Unmixed(r),
                        sidecar[Dir(r)] = Sha256(AssetName(opt[r]))
                 PROVE  archive[Dir(r)] = Unzstd(AssetName(opt[r]))
      BY DEF SidecarComesLast
    <2>1. Dir(r) \in Dirs BY <1>1, DirKnown DEF IInv, RunInv
    <2>2. archive[Dir(r)] # None BY <1>1, <2>1, Tokens DEF IInv, SidecarInv
    <2> QED BY <1>1, <2>2, UnmixedArchive
  <1> QED BY <1>1, Inductive, PTL

\* Only a killed run leaves a temporary file (decompressToFile).
THEOREM NoTempLeftBehindHolds == Spec => []NoTempLeftBehind
  <1>1. IInv => NoTempLeftBehind BY DEF IInv, RunInv, NoTempLeftBehind
  <1> QED BY <1>1, Inductive, PTL

-----------------------------------------------------------------------------
(***************************************************************************)
(* EnvLine: readers and replacements, character by character.              *)
(***************************************************************************)

\* A proof by induction on the numbers up to n, with a set for a predicate.
LEMMA Upto ==
    ASSUME NEW n \in Nat, NEW S, \A m \in 0..n : (\A l \in 0..n : l < m => l \in S) => m \in S
    PROVE  \A m \in 0..n : m \in S
<1> DEFINE N == {m \in 0..n : m \notin S}
<1> SUFFICES ASSUME N # {} PROVE FALSE
  OBVIOUS
<1>1. N \in SUBSET Nat
  OBVIOUS
<1>2. PICK m \in N : \A l \in N : m <= l
  <2> HIDE DEF N
  <2> QED
    BY <1>1, FirstPosition
<1> QED
  BY <1>2

\* The states that a reader goes through.
Scans(st, reader, start, text) ==
    /\ st[0] = start
    /\ \A i \in 1..Len(text) : st[i] = Advance(reader, st[i - 1], text[i])

\* The reader's states exist, so that Scan is the last of them.
LEMMA ScanIsScanned ==
    ASSUME NEW reader, NEW start, NEW text, Len(text) \in Nat
    PROVE  \E st : Scans(st, reader, start, text) /\ Scan(reader, start, text) = st[Len(text)]
<1> DEFINE n == Len(text)
           Rec(g, m) == g = [i \in 0..m |-> IF i = 0 THEN start ELSE Advance(reader, g[i - 1], text[i])]
           S == {m \in 0..n : \E g : Rec(g, m)}
<1>1. \A m \in 0..n : m \in S
  <2>1. ASSUME NEW m \in 0..n, \A l \in 0..n : l < m => l \in S PROVE m \in S
    <3>1. CASE m = 0
      <4> DEFINE h == [i \in 0..0 |-> start]
      <4>1. Rec(h, 0)
        OBVIOUS
      <4> HIDE DEF h, Rec
      <4> QED
        BY <3>1, <4>1
    <3>2. CASE m # 0
      <4>1. m - 1 \in 0..n /\ m - 1 < m
        BY <3>2
      <4>2. PICK g : Rec(g, m - 1)
        <5> HIDE DEF Rec
        <5> QED
          BY <2>1, <4>1
      <4> DEFINE h == [i \in 0..m |-> IF i = m THEN Advance(reader, g[m - 1], text[m]) ELSE g[i]]
      <4>3. ASSUME NEW i \in 0..m
            PROVE  h[i] = IF i = 0 THEN start ELSE Advance(reader, h[i - 1], text[i])
        <5>1. CASE i = m
          <6>1. m - 1 \in 0..m /\ m - 1 # m /\ m \in 0..m
            BY <3>2
          <6>2. h[m] = Advance(reader, g[m - 1], text[m]) /\ h[m - 1] = g[m - 1]
            BY <6>1
          <6> HIDE DEF h
          <6> QED
            BY <3>2, <5>1, <6>2
        <5>2. CASE i # m
          <6>1. i \in 0..(m - 1) /\ h[i] = g[i]
            BY <5>2
          <6>2. g[i] = IF i = 0 THEN start ELSE Advance(reader, g[i - 1], text[i])
            BY <4>2, <6>1
          <6>3. i # 0 => i - 1 \in 0..m /\ i - 1 # m /\ h[i - 1] = g[i - 1]
            BY <6>1
          <6> HIDE DEF h
          <6> QED
            BY <6>1, <6>2, <6>3
        <5> QED
          BY <5>1, <5>2
      <4>4. DOMAIN h = 0..m /\ h = [i \in 0..m |-> h[i]]
        OBVIOUS
      <4> HIDE DEF h
      <4>5. Rec(h, m)
        BY <4>3, <4>4
      <4> HIDE DEF Rec
      <4> QED
        BY <4>5
    <3> QED
      BY <3>1, <3>2
  <2> HIDE DEF S
  <2> QED
    BY <2>1, Upto
<1> DEFINE B == CHOOSE g : Rec(g, n)
<1>2. Rec(B, n)
  <2>1. n \in S
    <3> HIDE DEF S
    <3> QED
      BY <1>1
  <2> HIDE DEF Rec
  <2> QED
    BY <2>1
<1>3. Scan(reader, start, text) = B[n]
  BY DEF Scan
<1> HIDE DEF B
<1>4. Scans(B, reader, start, text)
  BY <1>2 DEF Scans
<1> QED
  BY <1>3, <1>4

\* What a character becomes.
Piece(c, by) == IF c = "'" THEN by ELSE <<c>>

Replaces(b, s, by) ==
    /\ b[0] = <<>>
    /\ \A i \in 1..Len(s) : b[i] = b[i - 1] \o Piece(s[i], by)

\* So do the replacer's.
LEMMA ReplacedIsReplaced ==
    ASSUME NEW s, NEW by, Len(s) \in Nat
    PROVE  \E b : Replaces(b, s, by) /\ ReplaceQuotes(s, by) = b[Len(s)]
<1> DEFINE n == Len(s)
           Rec(g, m) == g = [i \in 0..m |-> IF i = 0 THEN <<>> ELSE g[i - 1] \o Piece(s[i], by)]
           S == {m \in 0..n : \E g : Rec(g, m)}
<1>1. \A m \in 0..n : m \in S
  <2>1. ASSUME NEW m \in 0..n, \A l \in 0..n : l < m => l \in S PROVE m \in S
    <3>1. CASE m = 0
      <4> DEFINE h == [i \in 0..0 |-> <<>>]
      <4>1. Rec(h, 0)
        OBVIOUS
      <4> HIDE DEF h, Rec
      <4> QED
        BY <3>1, <4>1
    <3>2. CASE m # 0
      <4>1. m - 1 \in 0..n /\ m - 1 < m
        BY <3>2
      <4>2. PICK g : Rec(g, m - 1)
        <5> HIDE DEF Rec
        <5> QED
          BY <2>1, <4>1
      <4> DEFINE h == [i \in 0..m |-> IF i = m THEN g[m - 1] \o Piece(s[m], by) ELSE g[i]]
      <4>3. ASSUME NEW i \in 0..m
            PROVE  h[i] = IF i = 0 THEN <<>> ELSE h[i - 1] \o Piece(s[i], by)
        <5>1. CASE i = m
          <6>1. m - 1 \in 0..m /\ m - 1 # m /\ m \in 0..m
            BY <3>2
          <6>2. h[m] = g[m - 1] \o Piece(s[m], by) /\ h[m - 1] = g[m - 1]
            BY <6>1
          <6> HIDE DEF h
          <6> QED
            BY <3>2, <5>1, <6>2
        <5>2. CASE i # m
          <6>1. i \in 0..(m - 1) /\ h[i] = g[i]
            BY <5>2
          <6>2. g[i] = IF i = 0 THEN <<>> ELSE g[i - 1] \o Piece(s[i], by)
            BY <4>2, <6>1
          <6>3. i # 0 => i - 1 \in 0..m /\ i - 1 # m /\ h[i - 1] = g[i - 1]
            BY <6>1
          <6> HIDE DEF h
          <6> QED
            BY <6>1, <6>2, <6>3
        <5> QED
          BY <5>1, <5>2
      <4>4. DOMAIN h = 0..m /\ h = [i \in 0..m |-> h[i]]
        OBVIOUS
      <4> HIDE DEF h
      <4>5. Rec(h, m)
        BY <4>3, <4>4
      <4> HIDE DEF Rec
      <4> QED
        BY <4>5
    <3> QED
      BY <3>1, <3>2
  <2> HIDE DEF S
  <2> QED
    BY <2>1, Upto
<1> DEFINE B == CHOOSE g : Rec(g, n)
<1>2. Rec(B, n)
  <2>1. n \in S
    <3> HIDE DEF S
    <3> QED
      BY <1>1
  <2> HIDE DEF Rec
  <2> QED
    BY <2>1
<1>3. ReplaceQuotes(s, by) = B[n]
  BY DEF ReplaceQuotes, Piece
<1> HIDE DEF B
<1>4. Replaces(B, s, by)
  <2>1. \A i \in 0..n : B[i] = IF i = 0 THEN <<>> ELSE B[i - 1] \o Piece(s[i], by)
    BY <1>2
  <2>2. 0 \in 0..n /\ \A i \in 1..n : i \in 0..n /\ i # 0
    OBVIOUS
  <2> QED
    BY <2>1, <2>2 DEF Replaces
<1> QED
  BY <1>3, <1>4

\* A reader that has read nothing.
LEMMA ScanEmpty ==
    ASSUME NEW reader, NEW start PROVE Scan(reader, start, <<>>) = start
<1>1. PICK st : Scans(st, reader, start, <<>>) /\ Scan(reader, start, <<>>) = st[Len(<<>>)]
  <2>1. Len(<<>>) \in Nat
    OBVIOUS
  <2> QED
    BY <2>1, ScanIsScanned
<1>2. Len(<<>>) = 0
  OBVIOUS
<1> QED
  BY <1>1, <1>2 DEF Scans

\* A reader that reads one character more.
LEMMA ScanAppend ==
    ASSUME NEW reader, NEW start, NEW U, NEW x \in Seq(U), NEW c \in U
    PROVE  Scan(reader, start, Append(x, c)) = Advance(reader, Scan(reader, start, x), c)
<1> DEFINE n == Len(x)
<1>1. PICK y : y = Append(x, c)
  OBVIOUS
<1>2. n \in Nat /\ Len(y) = n + 1 /\ y[n + 1] = c /\ \A i \in 1..n : y[i] = x[i]
  BY <1>1
<1>3. PICK f : Scans(f, reader, start, x) /\ Scan(reader, start, x) = f[n]
  BY <1>2, ScanIsScanned
<1>4. PICK g : Scans(g, reader, start, y) /\ Scan(reader, start, y) = g[n + 1]
  BY <1>2, ScanIsScanned
<1> DEFINE S == {i \in 0..n : f[i] = g[i]}
<1>5. ASSUME NEW m \in 0..n, \A l \in 0..n : l < m => l \in S PROVE m \in S
  <2>1. CASE m = 0
    BY <1>3, <1>4, <2>1 DEF Scans
  <2>2. CASE m # 0
    <3>1. m \in 1..n /\ m - 1 \in 0..n /\ m - 1 < m /\ m \in 1..(n + 1)
      BY <1>2, <2>2
    <3>2. f[m - 1] = g[m - 1] /\ y[m] = x[m]
      BY <1>2, <1>5, <3>1
    <3>3. f[m] = Advance(reader, f[m - 1], x[m]) /\ g[m] = Advance(reader, g[m - 1], y[m])
      BY <1>2, <1>3, <1>4, <3>1 DEF Scans
    <3> QED
      BY <3>2, <3>3
  <2> QED
    BY <2>1, <2>2
<1>6. n \in S
  <2> HIDE DEF S
  <2>1. \A i \in 0..n : i \in S
    BY <1>2, <1>5, Upto
  <2> QED
    BY <1>2, <2>1
<1>7. g[n + 1] = Advance(reader, g[n], c)
  <2>1. n + 1 \in 1..Len(y) /\ (n + 1) - 1 = n
    BY <1>2
  <2> QED
    BY <1>2, <1>4, <2>1 DEF Scans
<1> QED
  BY <1>1, <1>3, <1>4, <1>6, <1>7

Prefix(s, i) == [k \in 1..i |-> s[k]]

\* The part of a text that was read.
LEMMA PrefixFacts ==
    ASSUME NEW U, NEW s \in Seq(U)
    PROVE  /\ Len(s) \in Nat /\ Prefix(s, 0) = <<>> /\ Prefix(s, Len(s)) = s
           /\ \A i \in 0..Len(s) : Prefix(s, i) \in Seq(U)
           /\ \A i \in 1..Len(s) : s[i] \in U /\ Append(Prefix(s, i - 1), s[i]) = Prefix(s, i)
<1>1. Len(s) \in Nat /\ \A i \in 1..Len(s) : s[i] \in U
  OBVIOUS
<1>2. Prefix(s, 0) = <<>> /\ Prefix(s, Len(s)) = s
  BY DEF Prefix
<1>3. \A i \in 0..Len(s) : Prefix(s, i) \in Seq(U) /\ Len(Prefix(s, i)) = i
  BY <1>1 DEF Prefix
<1>4. ASSUME NEW i \in 1..Len(s) PROVE Append(Prefix(s, i - 1), s[i]) = Prefix(s, i)
  <2>1. i - 1 \in 0..Len(s) /\ i \in 0..Len(s)
    BY <1>1
  <2>2. PICK p : p = Prefix(s, i - 1)
    OBVIOUS
  <2>3. p \in Seq(U) /\ Len(p) = i - 1 /\ \A k \in 1..(i - 1) : p[k] = s[k]
    BY <1>3, <2>1, <2>2 DEF Prefix
  <2>4. /\ Append(p, s[i]) \in Seq(U) /\ Len(Append(p, s[i])) = i
        /\ \A k \in 1..(i - 1) : Append(p, s[i])[k] = p[k]
        /\ Append(p, s[i])[i] = s[i]
    BY <1>1, <2>3
  <2>5. Append(p, s[i]) = [k \in 1..i |-> Append(p, s[i])[k]]
    BY <2>4
  <2>6. \A k \in 1..i : k \in 1..(i - 1) \/ k = i
    BY <1>1
  <2>7. \A k \in 1..i : Append(p, s[i])[k] = s[k]
    BY <2>3, <2>4, <2>6
  <2> QED
    BY <2>2, <2>5, <2>7 DEF Prefix
<1> QED
  BY <1>1, <1>2, <1>3, <1>4

-----------------------------------------------------------------------------
(***************************************************************************)
(* EnvLine: the quoted line, as the shells read it.                        *)
(***************************************************************************)

\* The characters of the flags and of the lines.
Symbols == Chars \union {"-L", "-limbhgo"}

\* A character added.
LEMMA GlueOne ==
    ASSUME NEW x \in Seq(Symbols), NEW a \in Symbols
    PROVE  x \o <<a>> = Append(x, a) /\ Append(x, a) \in Seq(Symbols)
OBVIOUS

\* Characters added one by one.
LEMMA GlueMore ==
    ASSUME NEW x \in Seq(Symbols), NEW a \in Symbols, NEW b \in Symbols
    PROVE  /\ x \o <<a, a>> = Append(Append(x, a), a)
           /\ x \o <<a, b, a, a>> = Append(Append(Append(Append(x, a), b), a), a)
<1>1. x \o <<a, a>> = Append(Append(x, a), a)
  OBVIOUS
<1>2. x \o <<a, b, a, a>> = Append(Append(Append(Append(x, a), b), a), a)
  OBVIOUS
<1> QED
  BY <1>1, <1>2

\* Adding two texts in one go or in two.
LEMMA InTwoGoes ==
    ASSUME NEW x \in Seq(Symbols), NEW y \in Seq(Symbols), NEW z \in Seq(Symbols)
    PROVE  x \o (y \o z) = (x \o y) \o z
OBVIOUS

\* The states of a shell.
In(mode, out) == [mode |-> mode, out |-> out]

\* A POSIX shell, one character.
LEMMA PosixSteps ==
    ASSUME NEW p
    PROVE  /\ \A c : c # "'" => Advance("posix", In("quoted", p), c) = In("quoted", Append(p, c))
           /\ Advance("posix", In("quoted", p), "'") = In("plain", p)
           /\ Advance("posix", In("plain", p), "\\") = In("escape", p)
           /\ Advance("posix", In("escape", p), "'") = In("plain", Append(p, "'"))
           /\ Advance("posix", In("plain", p), "'") = In("quoted", p)
<1>1. ASSUME NEW c, c # "'" PROVE Advance("posix", In("quoted", p), c) = In("quoted", Append(p, c))
  BY <1>1 DEF Advance, PosixStep, In, Blank
<1>2. Advance("posix", In("quoted", p), "'") = In("plain", p)
  BY DEF Advance, PosixStep, In, Blank
<1>3. Advance("posix", In("plain", p), "\\") = In("escape", p)
  BY DEF Advance, PosixStep, In, Blank
<1>4. Advance("posix", In("escape", p), "'") = In("plain", Append(p, "'"))
  BY DEF Advance, PosixStep, In, Blank
<1>5. Advance("posix", In("plain", p), "'") = In("quoted", p)
  BY DEF Advance, PosixStep, In, Blank
<1> QED
  BY <1>1, <1>2, <1>3, <1>4, <1>5

\* PowerShell, one character.
LEMMA PowerShellSteps ==
    ASSUME NEW p
    PROVE  /\ \A c : c # "'" => Advance("powershell", In("quoted", p), c) = In("quoted", Append(p, c))
           /\ Advance("powershell", In("start", p), "'") = In("quoted", p)
           /\ Advance("powershell", In("quoted", p), "'") = In("quote", p)
           /\ Advance("powershell", In("quote", p), "'") = In("quoted", Append(p, "'"))
<1>1. ASSUME NEW c, c # "'"
      PROVE  Advance("powershell", In("quoted", p), c) = In("quoted", Append(p, c))
  BY <1>1 DEF Advance, PowerShellStep, In
<1>2. Advance("powershell", In("start", p), "'") = In("quoted", p)
  BY DEF Advance, PowerShellStep, In
<1>3. Advance("powershell", In("quoted", p), "'") = In("quote", p)
  BY DEF Advance, PowerShellStep, In
<1>4. Advance("powershell", In("quote", p), "'") = In("quoted", Append(p, "'"))
  BY DEF Advance, PowerShellStep, In
<1> QED
  BY <1>1, <1>2, <1>3, <1>4

\* A POSIX shell reads what posixQuote quoted.
LEMMA PosixReadsQuoted ==
    ASSUME NEW s \in Seq(Symbols) PROVE PosixWord(PosixQuote(s)) = s
<1> DEFINE n == Len(s)
           by == <<"'", "\\", "'", "'">>
           start == In("plain", <<>>)
           Read(x) == Scan("posix", start, x)
<1>1. n \in Nat /\ Prefix(s, 0) = <<>> /\ Prefix(s, n) = s
      /\ \A i \in 1..n : s[i] \in Symbols /\ Append(Prefix(s, i - 1), s[i]) = Prefix(s, i)
  BY PrefixFacts
<1>2. "'" \in Symbols /\ "\\" \in Symbols
  BY DEF Symbols, Chars
<1>3. PICK b : Replaces(b, s, by) /\ ReplaceQuotes(s, by) = b[n]
  BY <1>1, ReplacedIsReplaced
<1>4. <<"'">> \in Seq(Symbols) /\ by \in Seq(Symbols)
  BY <1>2
<1>5. \A x \in Seq(Symbols), c \in Symbols :
         Append(x, c) \in Seq(Symbols) /\ Read(Append(x, c)) = Advance("posix", Read(x), c)
  BY ScanAppend
<1>6. Read(<<"'">>) = In("quoted", <<>>)
  <2>1. <<>> \in Seq(Symbols) /\ <<"'">> = Append(<<>>, "'")
    OBVIOUS
  <2>2. Read(<<>>) = start
    BY ScanEmpty
  <2>3. Advance("posix", start, "'") = In("quoted", <<>>)
    BY PosixSteps
  <2> HIDE DEF Read, start
  <2> QED
    BY <1>2, <1>5, <2>1, <2>2, <2>3
\* The state after each character of the text.
<1> DEFINE T(i) == <<"'">> \o b[i]
           S == {i \in 0..n : b[i] \in Seq(Symbols) /\ Read(T(i)) = In("quoted", Prefix(s, i))}
<1>7. ASSUME NEW m \in 0..n, \A l \in 0..n : l < m => l \in S PROVE m \in S
  <2>1. CASE m = 0
    <3>1. b[m] = <<>> /\ <<>> \in Seq(Symbols) /\ <<"'">> \o <<>> = <<"'">>
      BY <1>3, <2>1 DEF Replaces
    <3> HIDE DEF Read
    <3> QED
      BY <1>1, <1>6, <2>1, <3>1
  <2>2. CASE m # 0
    <3>1. m \in 1..n /\ m - 1 \in 0..n /\ m - 1 < m
      BY <1>1, <2>2
    <3>2. PICK x, p, c, t : x = b[m - 1] /\ p = Prefix(s, m - 1) /\ c = s[m] /\ t = <<"'">> \o x
      OBVIOUS
    <3>3. x \in Seq(Symbols) /\ Read(t) = In("quoted", p) /\ c \in Symbols
      <4> HIDE DEF Read
      <4> QED
        BY <1>1, <1>7, <3>1, <3>2
    <3>4. b[m] = x \o Piece(c, by) /\ Append(p, c) = Prefix(s, m)
      BY <1>1, <1>3, <3>1, <3>2 DEF Replaces
    <3>5. Piece(c, by) \in Seq(Symbols)
      BY <1>4, <3>3 DEF Piece
    <3>6. PICK w : w = Piece(c, by)
      OBVIOUS
    <3>7. t \in Seq(Symbols) /\ x \o w \in Seq(Symbols) /\ <<"'">> \o (x \o w) = t \o w
      <4>1. \A u, v \in Seq(Symbols) : u \o v \in Seq(Symbols)
        OBVIOUS
      <4>2. w \in Seq(Symbols)
        BY <3>5, <3>6
      <4>3. PICK z : z = <<"'">>
        OBVIOUS
      <4>4. z \in Seq(Symbols)
        BY <1>4, <4>3
      <4>5. z \o (x \o w) = (z \o x) \o w
        BY <3>3, <4>2, <4>4, InTwoGoes
      <4>6. z \o x \in Seq(Symbols) /\ x \o w \in Seq(Symbols)
        BY <3>3, <4>1, <4>2, <4>4
      <4> QED
        BY <3>2, <4>3, <4>5, <4>6
    <3>8. Read(t \o w) = In("quoted", Append(p, c))
      <4>1. CASE c # "'"
        <5>1. w = <<c>>
          BY <3>6, <4>1 DEF Piece
        <5>2. t \o w = Append(t, c)
          BY <3>3, <3>7, <5>1, GlueOne
        <5> HIDE DEF Read
        <5> QED
          BY <1>5, <3>3, <3>7, <4>1, <5>2, PosixSteps
      <4>2. CASE c = "'"
        <5>1. t \o w = Append(Append(Append(Append(t, "'"), "\\"), "'"), "'")
          BY <1>2, <3>6, <3>7, <4>2, GlueMore DEF Piece
        <5> HIDE DEF Read
        <5>2. Append(t, "'") \in Seq(Symbols) /\ Read(Append(t, "'")) = In("plain", p)
          BY <1>2, <1>5, <3>3, <3>7, PosixSteps
        <5>3. PICK t2 : t2 = Append(Append(t, "'"), "\\")
          OBVIOUS
        <5>4. t2 \in Seq(Symbols) /\ Read(t2) = In("escape", p)
          BY <1>2, <1>5, <5>2, <5>3, PosixSteps
        <5>5. PICK t3 : t3 = Append(t2, "'")
          OBVIOUS
        <5>6. t3 \in Seq(Symbols) /\ Read(t3) = In("plain", Append(p, "'"))
          BY <1>2, <1>5, <5>4, <5>5, PosixSteps
        <5>7. Read(Append(t3, "'")) = In("quoted", Append(p, "'"))
          BY <1>2, <1>5, <5>6, PosixSteps
        <5> QED
          BY <4>2, <5>1, <5>3, <5>5, <5>7
      <4> QED
        BY <4>1, <4>2
    <3> HIDE DEF Read, by
    <3> QED
      BY <3>4, <3>6, <3>7, <3>8
  <2> QED
    BY <2>1, <2>2
<1>8. n \in S
  <2> HIDE DEF S
  <2>1. \A i \in 0..n : i \in S
    BY <1>1, <1>7, Upto
  <2> QED
    BY <1>1, <2>1
<1>9. T(n) \in Seq(Symbols) /\ Read(T(n)) = In("quoted", s)
  <2>1. b[n] \in Seq(Symbols) /\ Read(T(n)) = In("quoted", s)
    <3> HIDE DEF Read
    <3> QED
      BY <1>1, <1>8
  <2>2. \A u, v \in Seq(Symbols) : u \o v \in Seq(Symbols)
    OBVIOUS
  <2> HIDE DEF Read
  <2> QED
    BY <1>4, <2>1, <2>2
<1>10. PosixQuote(s) = Append(T(n), "'")
  <2>1. PosixQuote(s) = T(n) \o <<"'">>
    BY <1>3 DEF PosixQuote
  <2> HIDE DEF T
  <2> QED
    BY <1>2, <1>9, <2>1, GlueOne
<1>11. Read(PosixQuote(s)) = In("plain", s)
  <2> HIDE DEF Read, T
  <2> QED
    BY <1>2, <1>5, <1>9, <1>10, PosixSteps
<1>12. PICK q : q = PosixQuote(s)
  OBVIOUS
<1>13. Scan("posix", [mode |-> "plain", out |-> <<>>], q) = [mode |-> "plain", out |-> s]
  BY <1>11, <1>12 DEF In
<1> QED
  BY <1>12, <1>13 DEF PosixWord

\* PowerShell reads what powerShellQuote quoted.
LEMMA PowerShellReadsQuoted ==
    ASSUME NEW s \in Seq(Symbols) PROVE PowerShellString(PowerShellQuote(s)) = s
<1> DEFINE n == Len(s)
           by == <<"'", "'">>
           start == In("start", <<>>)
           Read(x) == Scan("powershell", start, x)
<1>1. n \in Nat /\ Prefix(s, 0) = <<>> /\ Prefix(s, n) = s
      /\ \A i \in 1..n : s[i] \in Symbols /\ Append(Prefix(s, i - 1), s[i]) = Prefix(s, i)
  BY PrefixFacts
<1>2. "'" \in Symbols /\ "\\" \in Symbols
  BY DEF Symbols, Chars
<1>3. PICK b : Replaces(b, s, by) /\ ReplaceQuotes(s, by) = b[n]
  BY <1>1, ReplacedIsReplaced
<1>4. <<"'">> \in Seq(Symbols) /\ by \in Seq(Symbols)
  BY <1>2
<1>5. \A x \in Seq(Symbols), c \in Symbols :
         Append(x, c) \in Seq(Symbols) /\ Read(Append(x, c)) = Advance("powershell", Read(x), c)
  BY ScanAppend
<1>6. Read(<<"'">>) = In("quoted", <<>>)
  <2>1. <<>> \in Seq(Symbols) /\ <<"'">> = Append(<<>>, "'")
    OBVIOUS
  <2>2. Read(<<>>) = start
    BY ScanEmpty
  <2>3. Advance("powershell", start, "'") = In("quoted", <<>>)
    BY PowerShellSteps
  <2> HIDE DEF Read, start
  <2> QED
    BY <1>2, <1>5, <2>1, <2>2, <2>3
\* The state after each character of the text.
<1> DEFINE T(i) == <<"'">> \o b[i]
           S == {i \in 0..n : b[i] \in Seq(Symbols) /\ Read(T(i)) = In("quoted", Prefix(s, i))}
<1>7. ASSUME NEW m \in 0..n, \A l \in 0..n : l < m => l \in S PROVE m \in S
  <2>1. CASE m = 0
    <3>1. b[m] = <<>> /\ <<>> \in Seq(Symbols) /\ <<"'">> \o <<>> = <<"'">>
      BY <1>3, <2>1 DEF Replaces
    <3> HIDE DEF Read
    <3> QED
      BY <1>1, <1>6, <2>1, <3>1
  <2>2. CASE m # 0
    <3>1. m \in 1..n /\ m - 1 \in 0..n /\ m - 1 < m
      BY <1>1, <2>2
    <3>2. PICK x, p, c, t : x = b[m - 1] /\ p = Prefix(s, m - 1) /\ c = s[m] /\ t = <<"'">> \o x
      OBVIOUS
    <3>3. x \in Seq(Symbols) /\ Read(t) = In("quoted", p) /\ c \in Symbols
      <4> HIDE DEF Read
      <4> QED
        BY <1>1, <1>7, <3>1, <3>2
    <3>4. b[m] = x \o Piece(c, by) /\ Append(p, c) = Prefix(s, m)
      BY <1>1, <1>3, <3>1, <3>2 DEF Replaces
    <3>5. Piece(c, by) \in Seq(Symbols)
      BY <1>4, <3>3 DEF Piece
    <3>6. PICK w : w = Piece(c, by)
      OBVIOUS
    <3>7. t \in Seq(Symbols) /\ x \o w \in Seq(Symbols) /\ <<"'">> \o (x \o w) = t \o w
      <4>1. \A u, v \in Seq(Symbols) : u \o v \in Seq(Symbols)
        OBVIOUS
      <4>2. w \in Seq(Symbols)
        BY <3>5, <3>6
      <4>3. PICK z : z = <<"'">>
        OBVIOUS
      <4>4. z \in Seq(Symbols)
        BY <1>4, <4>3
      <4>5. z \o (x \o w) = (z \o x) \o w
        BY <3>3, <4>2, <4>4, InTwoGoes
      <4>6. z \o x \in Seq(Symbols) /\ x \o w \in Seq(Symbols)
        BY <3>3, <4>1, <4>2, <4>4
      <4> QED
        BY <3>2, <4>3, <4>5, <4>6
    <3>8. Read(t \o w) = In("quoted", Append(p, c))
      <4>1. CASE c # "'"
        <5>1. w = <<c>>
          BY <3>6, <4>1 DEF Piece
        <5>2. t \o w = Append(t, c)
          BY <3>3, <3>7, <5>1, GlueOne
        <5> HIDE DEF Read
        <5> QED
          BY <1>5, <3>3, <3>7, <4>1, <5>2, PowerShellSteps
      <4>2. CASE c = "'"
        <5>1. t \o w = Append(Append(t, "'"), "'")
          BY <1>2, <3>6, <3>7, <4>2, GlueMore DEF Piece
        <5> HIDE DEF Read
        <5>2. PICK t2 : t2 = Append(t, "'")
          OBVIOUS
        <5>3. t2 \in Seq(Symbols) /\ Read(t2) = In("quote", p)
          BY <1>2, <1>5, <3>3, <3>7, <5>2, PowerShellSteps
        <5>4. Read(Append(t2, "'")) = In("quoted", Append(p, "'"))
          BY <1>2, <1>5, <5>3, PowerShellSteps
        <5> QED
          BY <4>2, <5>1, <5>2, <5>4
      <4> QED
        BY <4>1, <4>2
    <3> HIDE DEF Read, by
    <3> QED
      BY <3>4, <3>6, <3>7, <3>8
  <2> QED
    BY <2>1, <2>2
<1>8. n \in S
  <2> HIDE DEF S
  <2>1. \A i \in 0..n : i \in S
    BY <1>1, <1>7, Upto
  <2> QED
    BY <1>1, <2>1
<1>9. T(n) \in Seq(Symbols) /\ Read(T(n)) = In("quoted", s)
  <2>1. b[n] \in Seq(Symbols) /\ Read(T(n)) = In("quoted", s)
    <3> HIDE DEF Read
    <3> QED
      BY <1>1, <1>8
  <2>2. \A u, v \in Seq(Symbols) : u \o v \in Seq(Symbols)
    OBVIOUS
  <2> HIDE DEF Read
  <2> QED
    BY <1>4, <2>1, <2>2
<1>10. PowerShellQuote(s) = Append(T(n), "'")
  <2>1. PowerShellQuote(s) = T(n) \o <<"'">>
    BY <1>3 DEF PowerShellQuote
  <2> HIDE DEF T
  <2> QED
    BY <1>2, <1>9, <2>1, GlueOne
<1>11. Read(PowerShellQuote(s)) = In("quote", s)
  <2> HIDE DEF Read, T
  <2> QED
    BY <1>2, <1>5, <1>9, <1>10, PowerShellSteps
<1>12. PICK q : q = PowerShellQuote(s)
  OBVIOUS
<1>13. Scan("powershell", [mode |-> "start", out |-> <<>>], q) = [mode |-> "quote", out |-> s]
  BY <1>11, <1>12 DEF In
<1> QED
  BY <1>12, <1>13 DEF PowerShellString

-----------------------------------------------------------------------------
(***************************************************************************)
(* EnvLine: the flags, as cmd/go splits them.                              *)
(***************************************************************************)

\* The states of the splitter.
At(mode, cur, out) == [mode |-> mode, cur |-> cur, out |-> out]

\* The splitter, one character.
LEMMA FieldSteps ==
    ASSUME NEW p, NEW o
    PROVE  /\ Advance("fields", At("gap", p, o), "'") = At("'", p, o)
           /\ Advance("fields", At("'", p, o), "'") = At("gap", <<>>, Append(o, p))
           /\ Advance("fields", At("gap", p, o), " ") = At("gap", p, o)
           /\ Advance("fields", At("gap", p, o), "-L") = At("word", <<"-L">>, o)
           /\ Advance("fields", At("gap", p, o), "-limbhgo") = At("word", <<"-limbhgo">>, o)
           /\ Advance("fields", At("word", p, o), " ") = At("gap", <<>>, Append(o, p))
<1>1. Advance("fields", At("gap", p, o), "'") = At("'", p, o)
  BY DEF Advance, FieldStep, At, Blank
<1>2. Advance("fields", At("'", p, o), "'") = At("gap", <<>>, Append(o, p))
  BY DEF Advance, FieldStep, At, Blank
<1>3. Advance("fields", At("gap", p, o), " ") = At("gap", p, o)
  BY DEF Advance, FieldStep, At, Blank
<1>4. Advance("fields", At("gap", p, o), "-L") = At("word", <<"-L">>, o)
  BY DEF Advance, FieldStep, At, Blank
<1>5. Advance("fields", At("gap", p, o), "-limbhgo") = At("word", <<"-limbhgo">>, o)
  BY DEF Advance, FieldStep, At, Blank
<1>6. Advance("fields", At("word", p, o), " ") = At("gap", <<>>, Append(o, p))
  BY DEF Advance, FieldStep, At, Blank
<1> QED
  BY <1>1, <1>2, <1>3, <1>4, <1>5, <1>6

\* Inside a field.
LEMMA FieldGrows ==
    ASSUME NEW p, NEW o, NEW c
    PROVE  /\ c # "'" => Advance("fields", At("'", p, o), c) = At("'", Append(p, c), o)
           /\ c \notin Blank => Advance("fields", At("word", p, o), c) = At("word", Append(p, c), o)
<1>1. ASSUME c # "'" PROVE Advance("fields", At("'", p, o), c) = At("'", Append(p, c), o)
  BY <1>1 DEF Advance, FieldStep, At, Blank
<1>2. ASSUME c \notin Blank
      PROVE  Advance("fields", At("word", p, o), c) = At("word", Append(p, c), o)
  BY <1>2 DEF Advance, FieldStep, At, Blank
<1> QED
  BY <1>1, <1>2

\* The splitter's state after a text.
Fields(x) == Scan("fields", At("gap", <<>>, <<>>), x)

\* One character more.
LEMMA FieldsAppend ==
    /\ Fields(<<>>) = At("gap", <<>>, <<>>)
    /\ \A x \in Seq(Symbols), c \in Symbols :
          Append(x, c) \in Seq(Symbols) /\ Fields(Append(x, c)) = Advance("fields", Fields(x), c)
<1>1. Fields(<<>>) = At("gap", <<>>, <<>>)
  BY ScanEmpty DEF Fields
<1>2. \A x \in Seq(Symbols), c \in Symbols :
         Append(x, c) \in Seq(Symbols) /\ Fields(Append(x, c)) = Advance("fields", Fields(x), c)
  BY ScanAppend DEF Fields
<1> QED
  BY <1>1, <1>2

\* One character more, from a known state.
LEMMA FieldsStep ==
    ASSUME NEW x \in Seq(Symbols), NEW c \in Symbols, NEW st, NEW nx,
           Fields(x) = st, Advance("fields", st, c) = nx
    PROVE  Append(x, c) \in Seq(Symbols) /\ Fields(Append(x, c)) = nx
BY FieldsAppend

\* A search path in quotes is one field, if it has no apostrophe.
LEMMA QuotedIsOneField ==
    ASSUME NEW q \in Seq(Symbols), \A i \in 1..Len(q) : q[i] # "'"
    PROVE  /\ <<"'">> \o q \o <<"'">> \in Seq(Symbols)
           /\ Fields(<<"'">> \o q \o <<"'">>) = At("gap", <<>>, <<q>>)
<1> DEFINE n == Len(q)
<1>1. /\ n \in Nat /\ Prefix(q, 0) = <<>> /\ Prefix(q, n) = q
      /\ \A i \in 0..n : Prefix(q, i) \in Seq(Symbols)
      /\ \A i \in 1..n : q[i] \in Symbols /\ Append(Prefix(q, i - 1), q[i]) = Prefix(q, i)
  BY PrefixFacts
<1>2. "'" \in Symbols /\ <<"'">> \in Seq(Symbols) /\ <<>> \in Seq(Symbols)
  <2>1. "'" \in Symbols
    BY DEF Symbols, Chars
  <2> QED
    BY <2>1
<1>3. Fields(<<"'">>) = At("'", <<>>, <<>>)
  <2>1. <<"'">> = Append(<<>>, "'")
    OBVIOUS
  <2>2. Fields(Append(<<>>, "'")) = Advance("fields", At("gap", <<>>, <<>>), "'")
    BY <1>2, FieldsAppend
  <2>3. Advance("fields", At("gap", <<>>, <<>>), "'") = At("'", <<>>, <<>>)
    BY FieldSteps
  <2> QED
    BY <2>1, <2>2, <2>3
<1> DEFINE T(i) == <<"'">> \o Prefix(q, i)
           S == {i \in 0..n : T(i) \in Seq(Symbols) /\ Fields(T(i)) = At("'", Prefix(q, i), <<>>)}
<1>4. ASSUME NEW m \in 0..n, \A l \in 0..n : l < m => l \in S PROVE m \in S
  <2>1. CASE m = 0
    <3>1. <<"'">> \o <<>> = <<"'">>
      OBVIOUS
    <3> QED
      BY <1>1, <1>2, <1>3, <2>1, <3>1
  <2>2. CASE m # 0
    <3>1. m \in 1..n /\ m - 1 \in 0..n /\ m - 1 < m
      BY <1>1, <2>2
    <3>2. PICK p, c, t : p = Prefix(q, m - 1) /\ c = q[m] /\ t = <<"'">> \o p
      OBVIOUS
    <3>3. /\ p \in Seq(Symbols) /\ c \in Symbols /\ c # "'" /\ Append(p, c) = Prefix(q, m)
          /\ t \in Seq(Symbols) /\ Fields(t) = At("'", p, <<>>)
      BY <1>1, <1>4, <3>1, <3>2
    <3>4. <<"'">> \o Append(p, c) = Append(t, c)
      <4>1. ASSUME NEW U, NEW z \in Seq(U), NEW x \in Seq(U), NEW y \in U
            PROVE  z \o Append(x, y) = Append(z \o x, y)
        OBVIOUS
      <4> QED
        BY <1>2, <3>2, <3>3, <4>1
    <3>5. Append(t, c) \in Seq(Symbols) /\ Fields(Append(t, c)) = At("'", Append(p, c), <<>>)
      <4>1. Advance("fields", At("'", p, <<>>), c) = At("'", Append(p, c), <<>>)
        BY <3>3, FieldGrows
      <4>2. Append(t, c) \in Seq(Symbols) /\ Fields(Append(t, c)) = Advance("fields", Fields(t), c)
        BY <3>3, FieldsAppend
      <4> QED
        BY <3>3, <4>1, <4>2
    <3> QED
      BY <3>3, <3>4, <3>5
  <2> QED
    BY <2>1, <2>2
<1>5. n \in S
  <2> HIDE DEF S
  <2>1. \A i \in 0..n : i \in S
    BY <1>1, <1>4, Upto
  <2> QED
    BY <1>1, <2>1
<1>6. PICK t : t = <<"'">> \o q
  OBVIOUS
<1>7. t \in Seq(Symbols) /\ Fields(t) = At("'", q, <<>>)
  BY <1>1, <1>5, <1>6
<1>8. t \o <<"'">> = Append(t, "'")
  BY <1>2, <1>7, GlueOne
<1>9. Append(t, "'") \in Seq(Symbols) /\ Fields(Append(t, "'")) = At("gap", <<>>, Append(<<>>, q))
  <2>1. Advance("fields", At("'", q, <<>>), "'") = At("gap", <<>>, Append(<<>>, q))
    BY FieldSteps
  <2> QED
    BY <1>2, <1>7, <2>1, FieldsStep
<1>10. Append(<<>>, q) = <<q>>
  OBVIOUS
<1> QED
  BY <1>6, <1>8, <1>9, <1>10

\* A search path without a blank is one word, apostrophes and all.
LEMMA PlainIsOneWord ==
    ASSUME NEW q \in Seq(Symbols), Len(q) >= 1, q[1] = "-L", \A i \in 1..Len(q) : q[i] \notin Blank
    PROVE  Fields(q) = At("word", q, <<>>)
<1> DEFINE n == Len(q)
<1>1. /\ n \in Nat /\ Prefix(q, 0) = <<>> /\ Prefix(q, n) = q
      /\ \A i \in 0..n : Prefix(q, i) \in Seq(Symbols)
      /\ \A i \in 1..n : q[i] \in Symbols /\ Append(Prefix(q, i - 1), q[i]) = Prefix(q, i)
  BY PrefixFacts
<1> DEFINE S == {i \in 0..n : i # 0 => Fields(Prefix(q, i)) = At("word", Prefix(q, i), <<>>)}
<1>2. ASSUME NEW m \in 0..n, \A l \in 0..n : l < m => l \in S PROVE m \in S
  <2>1. CASE m = 0
    BY <2>1
  <2>2. CASE m = 1
    <3>1. 1 \in 1..n /\ 1 - 1 = 0
      BY <1>1
    <3>2. <<>> \in Seq(Symbols) /\ "-L" \in Symbols
      BY DEF Symbols
    <3>3. Append(<<>>, "-L") = <<"-L">>
      OBVIOUS
    <3>4. Prefix(q, 1) = Append(<<>>, "-L")
      <4>1. Append(Prefix(q, 1 - 1), q[1]) = Prefix(q, 1)
        BY <1>1, <3>1
      <4> QED
        BY <1>1, <3>1, <4>1
    <3>5. Advance("fields", At("gap", <<>>, <<>>), "-L") = At("word", <<"-L">>, <<>>)
      BY FieldSteps
    <3>6. Fields(Append(<<>>, "-L")) = At("word", <<"-L">>, <<>>)
      BY <3>2, <3>5, FieldsAppend, FieldsStep
    <3> QED
      BY <2>2, <3>3, <3>4, <3>6
  <2>3. CASE m > 1
    <3>1. m \in 1..n /\ m - 1 \in 0..n /\ m - 1 < m /\ m - 1 # 0
      BY <1>1, <2>3
    <3>2. PICK p, c : p = Prefix(q, m - 1) /\ c = q[m]
      OBVIOUS
    <3>3. /\ p \in Seq(Symbols) /\ c \in Symbols /\ c \notin Blank /\ Append(p, c) = Prefix(q, m)
          /\ Fields(p) = At("word", p, <<>>)
      BY <1>1, <1>2, <3>1, <3>2
    <3>4. Fields(Append(p, c)) = At("word", Append(p, c), <<>>)
      <4>1. Advance("fields", At("word", p, <<>>), c) = At("word", Append(p, c), <<>>)
        BY <3>3, FieldGrows
      <4>2. Append(p, c) \in Seq(Symbols) /\ Fields(Append(p, c)) = Advance("fields", Fields(p), c)
        BY <3>3, FieldsAppend
      <4> QED
        BY <3>3, <4>1, <4>2
    <3> QED
      BY <3>3, <3>4
  <2> QED
    BY <1>1, <2>1, <2>2, <2>3
<1>3. n \in S
  <2> HIDE DEF S
  <2>1. \A i \in 0..n : i \in S
    BY <1>1, <1>2, Upto
  <2> QED
    BY <1>1, <2>1
<1>4. n # 0
  BY <1>1
<1> QED
  BY <1>1, <1>3, <1>4

\* cmd/go splits the rendered flags into the search path and the library.
LEMMA FlagsAreSplit ==
    ASSUME NEW d \in Seq(Chars), ~(Has(d, Blank) /\ Has(d, {"'"}))
    PROVE  SplitFields(LdflagsFor(d)) = <<DashL \o d, DashLib>>
<1>1. PICK q : q = DashL \o d
  OBVIOUS
<1>2. /\ q \in Seq(Symbols) /\ Len(d) \in Nat /\ Len(q) = Len(d) + 1 /\ q[1] = "-L"
      /\ \A i \in 1..Len(d) : q[i + 1] = d[i]
  <2>1. d \in Seq(Symbols) /\ "-L" \in Symbols
    <3>1. Chars \subseteq Symbols /\ "-L" \in Symbols
      BY DEF Symbols
    <3>2. ASSUME NEW U, NEW V, U \subseteq V, d \in Seq(U) PROVE d \in Seq(V)
      BY <3>2
    <3> QED
      BY <3>1, <3>2
  <2>2. ASSUME NEW U, NEW a \in U, d \in Seq(U)
        PROVE  /\ <<a>> \o d \in Seq(U) /\ Len(d) \in Nat /\ Len(<<a>> \o d) = Len(d) + 1
               /\ (<<a>> \o d)[1] = a /\ \A i \in 1..Len(d) : (<<a>> \o d)[i + 1] = d[i]
    BY <2>2
  <2> QED
    BY <1>1, <2>1, <2>2 DEF DashL
<1>3. \A i \in 1..Len(q) : q[i] = "-L" \/ (i - 1 \in 1..Len(d) /\ q[i] = d[i - 1])
  <2> SUFFICES ASSUME NEW i \in 1..Len(q), i # 1 PROVE i - 1 \in 1..Len(d) /\ q[i] = d[i - 1]
    BY <1>2
  <2>1. i - 1 \in 1..Len(d) /\ (i - 1) + 1 = i
    BY <1>2
  <2> QED
    BY <1>2, <2>1
<1>4. " " \in Symbols /\ "-limbhgo" \in Symbols
  BY DEF Symbols, Chars
<1>5. ASSUME NEW x \in Seq(Symbols), Fields(Append(x, " ")) = At("gap", <<>>, <<q>>)
      PROVE  SplitFields(x \o <<" ">> \o DashLib) = <<q, DashLib>>
  <2>1. x \o <<" ">> = Append(x, " ") /\ Append(x, " ") \in Seq(Symbols)
    BY <1>4, GlueOne
  <2>2. PICK y : y = Append(x, " ")
    OBVIOUS
  <2>3. y \o <<"-limbhgo">> = Append(y, "-limbhgo")
    BY <1>4, <2>1, <2>2, GlueOne
  <2>4. Fields(Append(y, "-limbhgo")) = At("word", <<"-limbhgo">>, <<q>>)
    <3>1. Advance("fields", At("gap", <<>>, <<q>>), "-limbhgo") = At("word", <<"-limbhgo">>, <<q>>)
      BY FieldSteps
    <3>2. Fields(Append(y, "-limbhgo")) = Advance("fields", Fields(y), "-limbhgo")
      BY <1>4, <2>1, <2>2, FieldsAppend
    <3> QED
      BY <1>5, <2>2, <3>1, <3>2
  <2>5. PICK z : z = x \o <<" ">> \o DashLib
    OBVIOUS
  <2>6. Scan("fields", [mode |-> "gap", cur |-> <<>>, out |-> <<>>], z)
           = [mode |-> "word", cur |-> DashLib, out |-> <<q>>]
    BY <2>1, <2>2, <2>3, <2>4, <2>5 DEF Fields, At, DashLib
  <2>7. SplitFields(z) = Append(<<q>>, DashLib)
    <3>1. PICK end : end = [mode |-> "word", cur |-> DashLib, out |-> <<q>>]
      OBVIOUS
    <3>2. end.mode = "word" /\ end.cur = DashLib /\ end.out = <<q>>
      BY <3>1
    <3>3. Scan("fields", [mode |-> "gap", cur |-> <<>>, out |-> <<>>], z) = end
      BY <2>6, <3>1
    <3> QED
      BY <3>2, <3>3 DEF SplitFields
  <2>8. Append(<<q>>, DashLib) = <<q, DashLib>>
    <3>1. PICK U : U = {q, DashLib}
      OBVIOUS
    <3>2. PICK y2 : y2 = DashLib
      OBVIOUS
    <3>3. q \in U /\ y2 \in U
      BY <3>1, <3>2
    <3>4. PICK v, w : v = Append(<<q>>, y2) /\ w = <<q, y2>>
      OBVIOUS
    <3>5. v \in Seq(U) /\ Len(v) = 2 /\ v[1] = q /\ v[2] = y2
      BY <3>3, <3>4
    <3>6. w \in Seq(U) /\ Len(w) = 2 /\ w[1] = q /\ w[2] = y2
      BY <3>3, <3>4
    <3>7. \A i \in 1..2 : v[i] = w[i]
      <4>1. \A i \in 1..2 : i = 1 \/ i = 2
        OBVIOUS
      <4> QED
        BY <3>5, <3>6, <4>1
    <3>8. ASSUME NEW V, NEW l \in Seq(V), NEW r \in Seq(V), Len(l) = Len(r),
                 \A i \in 1..Len(l) : l[i] = r[i]
          PROVE  l = r
      BY <3>8
    <3>9. v = w
      BY <3>5, <3>6, <3>7, <3>8
    <3> QED
      BY <3>2, <3>4, <3>9
  <2> QED
    BY <2>5, <2>7, <2>8
<1>6. CASE Has(q, Blank)
  <2>1. LdflagsFor(d) = (<<"'">> \o q \o <<"'">>) \o <<" ">> \o DashLib
    BY <1>1, <1>6 DEF LdflagsFor
  <2>2. Has(d, Blank)
    BY <1>3, <1>6 DEF Has, Blank
  <2>3. \A i \in 1..Len(q) : q[i] # "'"
    BY <1>3, <2>2 DEF Has
  <2>4. PICK x : x = <<"'">> \o q \o <<"'">>
    OBVIOUS
  <2>5. x \in Seq(Symbols) /\ Fields(x) = At("gap", <<>>, <<q>>)
    BY <1>2, <2>3, <2>4, QuotedIsOneField
  <2>6. Fields(Append(x, " ")) = At("gap", <<>>, <<q>>)
    <3>1. Advance("fields", At("gap", <<>>, <<q>>), " ") = At("gap", <<>>, <<q>>)
      BY FieldSteps
    <3> QED
      BY <1>4, <2>5, <3>1, FieldsStep
  <2> QED
    BY <1>1, <1>5, <2>1, <2>4, <2>5, <2>6
<1>7. CASE ~Has(q, Blank)
  <2>1. LdflagsFor(d) = q \o <<" ">> \o DashLib
    BY <1>1, <1>7 DEF LdflagsFor
  <2>2. Fields(q) = At("word", q, <<>>)
    BY <1>2, <1>7, PlainIsOneWord DEF Has
  <2>3. Fields(Append(q, " ")) = At("gap", <<>>, Append(<<>>, q))
    <3>1. Advance("fields", At("word", q, <<>>), " ") = At("gap", <<>>, Append(<<>>, q))
      BY FieldSteps
    <3>2. Fields(Append(q, " ")) = Advance("fields", Fields(q), " ")
      BY <1>2, <1>4, FieldsAppend
    <3> QED
      BY <2>2, <3>1, <3>2
  <2>4. Append(<<>>, q) = <<q>>
    OBVIOUS
  <2> QED
    BY <1>1, <1>2, <1>5, <2>1, <2>3, <2>4
<1> QED
  BY <1>6, <1>7

-----------------------------------------------------------------------------
(***************************************************************************)
(* EnvLine: from the tool to the linker.                                   *)
(***************************************************************************)

\* The flags are a text.
LEMMA FlagsType == ASSUME NEW d \in Seq(Chars) PROVE LdflagsFor(d) \in Seq(Symbols)
<1>1. d \in Seq(Symbols)
  <2>1. Chars \subseteq Symbols
    BY DEF Symbols
  <2>2. ASSUME NEW U, NEW V, U \subseteq V, d \in Seq(U) PROVE d \in Seq(V)
    BY <2>2
  <2> QED
    BY <2>1, <2>2
<1>2. DashL \in Seq(Symbols) /\ DashLib \in Seq(Symbols) /\ <<" ">> \in Seq(Symbols)
      /\ <<"'">> \in Seq(Symbols)
  <2>1. "-L" \in Symbols /\ "-limbhgo" \in Symbols /\ " " \in Symbols /\ "'" \in Symbols
    BY DEF Symbols, Chars
  <2>2. \A a \in Symbols : <<a>> \in Seq(Symbols)
    OBVIOUS
  <2> QED
    BY <2>1, <2>2 DEF DashL, DashLib
<1>3. \A x, y \in Seq(Symbols) : x \o y \in Seq(Symbols)
  OBVIOUS
<1>4. PICK q : q = DashL \o d
  OBVIOUS
<1>5. q \in Seq(Symbols)
  BY <1>1, <1>2, <1>3, <1>4
<1>6. <<"'">> \o q \o <<"'">> \in Seq(Symbols)
  BY <1>2, <1>3, <1>5
<1>7. PICK x : x = IF Has(q, Blank) THEN <<"'">> \o q \o <<"'">> ELSE q
  OBVIOUS
<1>8. x \in Seq(Symbols) /\ LdflagsFor(d) = x \o <<" ">> \o DashLib
  BY <1>4, <1>5, <1>6, <1>7 DEF LdflagsFor
<1>9. x \o <<" ">> \in Seq(Symbols)
  BY <1>2, <1>3, <1>8
<1> QED
  BY <1>2, <1>3, <1>8, <1>9

\* Every shell assigns the flags that were rendered.
LEMMA ShellsReadTheLine ==
    ASSUME NEW s \in Seq(Symbols), NEW sh \in Shells
    PROVE  ShellValue(sh, EnvLineFor(sh, s)) = s
<1>1. CASE sh = "cmd"
  BY <1>1 DEF ShellValue, EnvLineFor
<1>2. CASE sh = "powershell"
  BY <1>2, PowerShellReadsQuoted DEF ShellValue, EnvLineFor
<1>3. CASE sh = "sh"
  BY <1>3, PosixReadsQuoted DEF ShellValue, EnvLineFor
<1> QED
  BY <1>1, <1>2, <1>3 DEF Shells

\* What was printed, assigned and split so far.
EnvInv ==
    /\ shell \in Shells /\ dir \in Seq(Chars)
    /\ line # Unset => line = EnvLineFor(shell, LdflagsFor(dir))
    /\ value # Unset => value = LdflagsFor(dir)
    /\ args # Unset => value = LdflagsFor(dir) /\ args = SplitFields(value)

\* The tool is run.
LEMMA EnvInitInv == EnvInit => EnvInv
<1> SUFFICES ASSUME EnvInit PROVE EnvInv
  OBVIOUS
<1>1. PICK n \in 1..MaxDir : dir \in [1..n -> Chars]
  BY DEF EnvInit
<1>2. n \in Nat
  BY <1>1, DirAssumption
<1>3. dir \in Seq(Chars)
  BY <1>1, <1>2
<1> QED
  BY <1>3 DEF EnvInit, EnvInv

\* Each step makes the next text of the one before.
LEMMA EnvNextInv == EnvInv /\ [EnvNext]_envVars => EnvInv'
<1> SUFFICES ASSUME EnvInv, [EnvNext]_envVars PROVE EnvInv'
  OBVIOUS
<1>1. CASE Emit
  BY <1>1 DEF Emit, EnvInv
<1>2. CASE Eval
  <2>1. /\ line = EnvLineFor(shell, LdflagsFor(dir)) /\ value' = ShellValue(shell, line)
        /\ UNCHANGED <<shell, dir, line, args>> /\ value = Unset
    BY <1>2 DEF Eval, EnvInv
  <2>2. value' = LdflagsFor(dir)
    BY <2>1, FlagsType, ShellsReadTheLine DEF EnvInv
  <2>3. args # Unset => value' = value
    BY <2>2 DEF EnvInv
  <2> QED
    BY <2>1, <2>2, <2>3 DEF EnvInv
<1>3. CASE GoBuild
  BY <1>3 DEF GoBuild, EnvInv
<1>4. CASE UNCHANGED envVars
  BY <1>4 DEF envVars, EnvInv
<1> QED
  BY <1>1, <1>2, <1>3, <1>4 DEF EnvNext, EnvDone

\* For every directory name the line that -print-env prints gives, in each shell,
\* the flags that ldflagsFor rendered, and cmd/go splits them into the directory
\* as one -L argument and the library, unless the name has both a blank and an
\* apostrophe.
THEOREM DirectoryIsOneArgumentHolds == EnvSpec => []DirectoryIsOneArgument
<1>1. EnvSpec => []EnvInv
  BY EnvInitInv, EnvNextInv, PTL DEF EnvSpec
<1>2. ASSUME EnvInv PROVE DirectoryIsOneArgument
  <2>1. ASSUME args # Unset, ~(Has(dir, Blank) /\ Has(dir, {"'"})) PROVE Linked
    BY <1>2, <2>1, FlagsAreSplit DEF EnvInv, Linked
  <2> QED
    BY <1>2, <2>1 DEF EnvInv, DirectoryIsOneArgument
<1> QED
  BY <1>1, <1>2, PTL
=============================================================================
