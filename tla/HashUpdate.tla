----------------------------- MODULE HashUpdate -----------------------------
(***************************************************************************)
(* The update of the checksums of the downloads,                           *)
(* scripts/component_hash_update: a run reads checksums.yml, asks GitHub   *)
(* for the published versions, fetches the checksums of the new versions   *)
(* and of those a maintainer entered with a 0, and writes the whole file   *)
(* back.  Upstream publishes and the maintainer edits at any time.         *)
(***************************************************************************)
EXTENDS Integers

CONSTANTS
  Infos,         \* components.infos: what the script knows of each component
  Archs,         \* component -> architecture keys of the file
  First,         \* component -> the first of these keys
  Versions,      \* versions, numbered in the order of packaging.version
  Line,          \* component -> version -> its (major, minor)
  Numbers,       \* component -> versions YAML reads as numbers if unquoted
  None, Zero,    \* no entry, and the entry 0
  InitialFiles,  \* contents of the file to start from
  MaxEdits,      \* bound: entries the maintainer adds
  MaxReleases    \* bound: steps of the upstream projects

Components == DOMAIN Infos

(* What an entry of infos decides: whether the versions are tags, whether   *)
(* one upstream file holds the sums of all architectures, and whether the   *)
(* versions are dates.                                                      *)
Info == [tags : BOOLEAN, multi : BOOLEAN, dated : BOOLEAN]

(* The dictionaries of checksums.yml are keyed by text or, for a version    *)
(* such as 1.17 or 20260209.1 that is not quoted, by a number; the script   *)
(* takes either for the version but writes text.  An architecture may so    *)
(* have two entries of one version.                                         *)
Keys == {"text", "number"}
Entries ==
  UNION {{<<c, a, v, k>> : a \in Archs[c], v \in Versions, k \in Keys} :
           c \in Components}

ASSUME InfosAssumption == Infos \in [Components -> Info]
ASSUME FirstAssumption == \A c \in Components : First[c] \in Archs[c]
ASSUME VersionsAssumption ==
  /\ Versions \subseteq Nat
  /\ \A S \in SUBSET Versions : S # {} => \E m \in S : \A v \in S : v <= m
ASSUME BoundsAssumption == MaxEdits \in Nat /\ MaxReleases \in Nat

VARIABLES
  file,      \* entry -> None, Zero or a sum: the last whole contents
  torn,      \* the file was truncated and not written out
  release,   \* component -> version -> "none", "pre" or "final"
  build,     \* component -> version -> the build the upstream files are of
  pc,        \* "idle", "opened", "fetching" or "writing"
  selected,  \* the components of the running call
  data,      \* its contents of the file
  seen,      \* component -> the versions GitHub listed to it
  todo,      \* the requests it still has to make
  edits, releases

vars == <<file, torn, release, build, pc, selected, data, seen, todo,
          edits, releases>>
run == <<pc, selected, data, seen, todo>>
upstream == <<release, build, releases>>

Builds == 1 .. MaxReleases + 1
Values(e) ==
  {None, Zero} \cup
    (IF e[4] = "text" THEN {<<e[2], e[3], b>> : b \in Builds} ELSE {})
IsSum(x) == x \notin {None, Zero}

ASSUME ValuesAssumption ==
  /\ None # Zero
  /\ \A e \in Entries, b \in Builds : IsSum(<<e[2], e[3], b>>)

Contents == {f \in [Entries -> UNION {Values(e) : e \in Entries}] :
               \A e \in Entries : f[e] \in Values(e)}

ASSUME FilesAssumption ==
  \A f \in InitialFiles :
    /\ DOMAIN f = Entries
    /\ \A e \in Entries :
         f[e] \in {None, Zero} \cup
                    (IF e[4] = "text" THEN {<<e[2], e[3], 1>>} ELSE {})

-----------------------------------------------------------------------------
(* The versions of the first architecture, and the last of each line.       *)
Known(f, c) ==
  {v \in Versions : \E k \in Keys : f[<<c, First[c], v, k>>] # None}
LineMax(f, c) ==
  {w \in Known(f, c) :
     \A x \in Known(f, c) : Line[c][x] = Line[c][w] => x <= w}

\* Faults of NewVersions: the known ones are not left out, nor other lines.
NewVersionsKnown(f, c, listed) ==
  {v \in listed : \E w \in LineMax(f, c) :
     v > w /\ (Line[c][v] = Line[c][w] \/ Infos[c].dated)}
NewVersionsAnyLine(f, c, listed) ==
  {v \in listed \ Known(f, c) : \E w \in LineMax(f, c) : v > w}

NewVersions(f, c, listed) ==
  {v \in listed \ Known(f, c) :
     \E w \in LineMax(f, c) :
        v > w /\ (Line[c][v] = Line[c][w] \/ Infos[c].dated)}

\* A fault of ZeroVersions: only the first architecture is looked at.
ZeroVersionsFirst(f, c) ==
  {v \in Versions : \E k \in Keys : f[<<c, First[c], v, k>>] = Zero}

ZeroVersions(f, c) ==
  {v \in Versions : \E a \in Archs[c], k \in Keys : f[<<c, a, v, k>>] = Zero}

(* A request names the entries its answer fills: those of every             *)
(* architecture when the sums come in one (cached) file.                    *)
\* A fault: no cache, every architecture asks for the file.
RequestsUncached(c, v) ==
  {[comp |-> c, archs |-> {a}, ver |-> v] : a \in Archs[c]}

Requests(c, v) ==
  IF Infos[c].multi THEN {[comp |-> c, archs |-> Archs[c], ver |-> v]}
  ELSE {[comp |-> c, archs |-> {a}, ver |-> v] : a \in Archs[c]}

Published(c) ==
  {v \in Versions :
     release[c][v] \in {"final"} \cup (IF Infos[c].tags THEN {"pre"} ELSE {})}

-----------------------------------------------------------------------------
Empty == [e \in Entries |-> None]
Unseen == [c \in Components |-> {}]

Init ==
  /\ file \in InitialFiles
  /\ torn = FALSE
  /\ release = [c \in Components |-> [v \in Versions |->
       IF \E a \in Archs[c] : IsSum(file[<<c, a, v, "text">>])
         THEN "final" ELSE "none"]]
  /\ build = [c \in Components |-> [v \in Versions |-> 1]]
  /\ pc = "idle" /\ selected = {} /\ todo = {}
  /\ data = Empty /\ seen = Unseen
  /\ edits = 0 /\ releases = 0

(* update-hashes [only ...] [--exclude ...]: the components and the file.   *)
Open(only) ==
  /\ pc = "idle" /\ ~torn
  /\ pc' = "opened"
  /\ selected' = only
  /\ data' = file
  /\ UNCHANGED <<file, torn, upstream, seen, todo, edits>>

(* One question to GitHub for all components; the page it answers with is   *)
(* limited (list_releases.graphql), so it may leave versions out.           *)
Query ==
  /\ pc = "opened"
  /\ \E listed \in [selected -> SUBSET Versions] :
       /\ \A c \in selected : listed[c] \subseteq Published(c)
       /\ seen' = [c \in Components |-> IF c \in selected THEN listed[c] ELSE {}]
  /\ todo' = UNION {Requests(p[1], p[2]) :
       p \in {q \in selected \X Versions :
                q[2] \in NewVersions(data, q[1], seen'[q[1]])
                         \cup ZeroVersions(data, q[1])}}
  /\ pc' = "fetching"
  /\ UNCHANGED <<file, torn, upstream, selected, data, edits>>

\* A fault: the sum of the first architecture of the answer is taken for all.
FilledFirst(d, r) ==
  [e \in Entries |->
     IF e[1] = r.comp /\ e[2] \in r.archs /\ e[3] = r.ver /\ e[4] = "text"
     THEN <<First[r.comp], e[3], build[r.comp][r.ver]>> ELSE d[e]]

(* The sums go to data[c][arch][str(version)]: a 0 under a number stays.     *)
Filled(d, r) ==
  [e \in Entries |->
     IF e[1] = r.comp /\ e[2] \in r.archs /\ e[3] = r.ver /\ e[4] = "text"
     THEN <<e[2], e[3], build[r.comp][r.ver]>> ELSE d[e]]

Fetch(r) ==
  /\ pc = "fetching"
  /\ r \in todo
  /\ release[r.comp][r.ver] # "none"
  /\ data' = Filled(data, r)
  /\ todo' = todo \ {r}
  /\ UNCHANGED <<file, torn, upstream, pc, selected, seen, edits>>

(* The end of the process.                                                  *)
Exit ==
  /\ pc' = "idle"
  /\ selected' = {} /\ todo' = {}
  /\ data' = Empty /\ seen' = Unseen

(* Any request that fails ends the run before the file is touched.          *)
Fail ==
  /\ \/ pc = "opened"
     \/ pc = "fetching" /\ todo # {}
  /\ Exit
  /\ UNCHANGED <<file, torn, upstream, edits>>

Truncate ==
  /\ pc = "fetching" /\ todo = {}
  /\ pc' = "writing"
  /\ torn' = TRUE
  /\ UNCHANGED <<file, upstream, selected, data, seen, todo, edits>>

Dump ==
  /\ pc = "writing"
  /\ file' = data
  /\ torn' = FALSE
  /\ Exit
  /\ UNCHANGED <<upstream, edits>>

(* The process is stopped, or the disk is full, before the dump is done.    *)
Interrupt ==
  /\ pc = "writing"
  /\ Exit
  /\ UNCHANGED <<file, torn, upstream, edits>>

-----------------------------------------------------------------------------
(* The maintainer: adds a version with the value 0, quoted or not, and      *)
(* takes a torn file back from git.                                         *)
Edit(e) ==
  /\ edits < MaxEdits /\ ~torn
  /\ \A k \in Keys : file[<<e[1], e[2], e[3], k>>] = None
  /\ e[4] = "number" => e[3] \in Numbers[e[1]]
  /\ file' = [file EXCEPT ![e] = Zero]
  /\ edits' = edits + 1
  /\ UNCHANGED <<torn, upstream, run>>

Restore ==
  /\ pc = "idle" /\ torn
  /\ torn' = FALSE
  /\ UNCHANGED <<file, upstream, run, edits>>

(* Upstream: a version appears, as a pre-release or at once, a pre-release  *)
(* becomes final, the files of a version are built anew.                    *)
Publish(c, v) ==
  /\ releases < MaxReleases
  /\ releases' = releases + 1
  /\ \/ /\ release[c][v] = "none"
        /\ \E s \in {"pre", "final"} : release' = [release EXCEPT ![c][v] = s]
        /\ UNCHANGED build
     \/ /\ release[c][v] = "pre"
        /\ release' = [release EXCEPT ![c][v] = "final"]
        /\ UNCHANGED build
     \/ /\ release[c][v] # "none"
        /\ build' = [build EXCEPT ![c][v] = @ + 1]
        /\ UNCHANGED release
  /\ UNCHANGED <<file, torn, run, edits>>

Script ==
  \/ \E only \in SUBSET Components \ {{}} : Open(only)
  \/ Query
  \/ \E r \in todo : Fetch(r)
  \/ Fail \/ Truncate \/ Dump \/ Interrupt

Next ==
  \/ Script
  \/ \E e \in Entries : Edit(e)
  \/ Restore
  \/ \E c \in Components, v \in Versions : Publish(c, v)

Spec == Init /\ [][Next]_vars

-----------------------------------------------------------------------------
AllRequests == UNION {Requests(c, v) : c \in Components, v \in Versions}

TypeOK ==
  /\ DOMAIN file = Entries /\ \A e \in Entries : file[e] \in Values(e)
  /\ DOMAIN data = Entries /\ \A e \in Entries : data[e] \in Values(e)
  /\ torn \in BOOLEAN
  /\ release \in [Components -> [Versions -> {"none", "pre", "final"}]]
  /\ build \in [Components -> [Versions -> Builds]]
  /\ \A c \in Components, v \in Versions : build[c][v] <= releases + 1
  /\ pc \in {"idle", "opened", "fetching", "writing"}
  /\ selected \subseteq Components
  /\ seen \in [Components -> SUBSET Versions]
  /\ todo \subseteq AllRequests
  /\ edits \in 0 .. MaxEdits /\ releases \in 0 .. MaxReleases

(* The sums of a component whose sums come in one upstream file are of one  *)
(* build of each version in all architectures, even when upstream builds    *)
(* the version anew between two requests or two runs: the file is asked     *)
(* once in a run (functools.cache) and a version is asked for as a whole.   *)
OneBuild ==
  \A e, f \in Entries :
    /\ Infos[e[1]].multi /\ e[1] = f[1] /\ e[3] = f[3]
    /\ IsSum(file[e]) /\ IsSum(file[f])
    => file[e][3] = file[f][3]

HasSums(f, c, v) == \A a \in Archs[c] : IsSum(f[<<c, a, v, "text">>])
Complete(f, c, v) ==
  HasSums(f, c, v) /\ \A a \in Archs[c] : f[<<c, a, v, "number">>] = None

(* The sums of a version that has them all, and no 0 beside them under a    *)
(* number, never change again, whatever upstream serves for it later and    *)
(* whatever else is updated.                                                *)
CompletePinned ==
  [][\A c \in Components, v \in Versions :
       Complete(file, c, v) =>
         \A a \in Archs[c] :
           file'[<<c, a, v, "text">>] = file[<<c, a, v, "text">>]]_vars

(* A version the script adds by itself, dated components aside, is a final  *)
(* release (or a tag) of a line the file had, and later than every version  *)
(* of that line that had a sum before; what the maintainer adds to the line *)
(* during the run does not count.                                           *)
HadSum(c, w) == IsSum(file[<<c, First[c], w, "text">>])
OnlyLaterPatches ==
  [][\A c \in Components, v \in Versions :
       /\ Complete(file', c, v) /\ ~Infos[c].dated
       /\ \A a \in Archs[c], k \in Keys : file[<<c, a, v, k>>] = None
       => /\ v \in Published(c)
          /\ \E w \in Known(file, c) \cap Known(file', c) :
               Line[c][w] = Line[c][v] /\ w < v
          /\ \A w \in Versions :
               HadSum(c, w) /\ Line[c][w] = Line[c][v] => w < v]_vars

(* A run that wrote the file has done all there was to do for its           *)
(* components: a 0 is left only under a number, and then the sums of that   *)
(* version stand beside it for every architecture; every listed version     *)
(* that it left out is older than a version of each line that could have    *)
(* called for it; and a version it added has a sum for every architecture.  *)
LeftOut(c, v, f) ==
  \A w \in Versions :
    HadSum(c, w) /\ (Line[c][w] = Line[c][v] \/ Infos[c].dated) =>
      \E x \in Known(f, c) : Line[c][x] = Line[c][w] /\ x > v

WrittenMeansFilled ==
  [][pc = "writing" /\ pc' = "idle" /\ ~torn' =>
       \A c \in selected :
         /\ \A a \in Archs[c], v \in Versions, k \in Keys :
              file'[<<c, a, v, k>>] = Zero => k = "number" /\ HasSums(file', c, v)
         /\ \A v \in seen[c] \ Known(file', c) : LeftOut(c, v, file')
         /\ \A v \in Known(file', c) \ Known(file, c) : HasSums(file', c, v)]_vars
=============================================================================
