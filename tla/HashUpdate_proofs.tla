-------------------------- MODULE HashUpdate_proofs --------------------------
(* Theorems about HashUpdate, for every set of components, architectures    *)
(* and versions, and every number of edits and releases.                    *)
EXTENDS HashUpdate, TLAPS

\* The entries of a file.
LEMMA EntryFacts ==
  /\ \A c \in Components, v \in Versions, k \in Keys : \A a \in Archs[c] : <<c, a, v, k>> \in Entries
  /\ \A e \in Entries : \E c \in Components, v \in Versions, k \in Keys :
       \E a \in Archs[c] : e = <<c, a, v, k>>
BY DEF Entries

\* A sum is neither None nor Zero, and these differ.
LEMMA SumFacts ==
  /\ None # Zero /\ ~IsSum(None) /\ ~IsSum(Zero)
  /\ \A e \in Entries, b \in Builds : IsSum(<<e[2], e[3], b>>)
BY ValuesAssumption DEF IsSum

\* The requests for a version cover its architectures, in one request when
\* one upstream file has them all.
LEMMA RequestFacts ==
  ASSUME NEW c \in Components, NEW v \in Versions
  PROVE  /\ \A r \in Requests(c, v) :
              /\ r.comp = c /\ r.ver = v /\ r.archs \subseteq Archs[c]
              /\ Infos[c].multi => r.archs = Archs[c]
         /\ \A a \in Archs[c] : \E r \in Requests(c, v) : a \in r.archs
<1>1. CASE Infos[c].multi
  <2>1. Requests(c, v) = {[comp |-> c, archs |-> Archs[c], ver |-> v]}
    BY <1>1 DEF Requests
  <2> QED
    BY <2>1
<1>2. CASE ~Infos[c].multi
  <2>1. Requests(c, v) = {[comp |-> c, archs |-> {a}, ver |-> v] : a \in Archs[c]}
    BY <1>2 DEF Requests
  <2>2. \A a \in Archs[c] : \E r \in Requests(c, v) : a \in r.archs
    <3>1. ASSUME NEW a \in Archs[c]
          PROVE  /\ [comp |-> c, archs |-> {a}, ver |-> v] \in Requests(c, v)
                 /\ a \in [comp |-> c, archs |-> {a}, ver |-> v].archs
      BY <2>1
    <3> QED
      BY <3>1
  <2>3. \A r \in Requests(c, v) : r.comp = c /\ r.ver = v /\ r.archs \subseteq Archs[c]
    BY <2>1
  <2> QED
    BY <1>2, <2>2, <2>3
<1> QED
  BY <1>1, <1>2

\* The answer to a request fills its entries under text and no other.
LEMMA FilledFacts ==
  ASSUME NEW d, NEW r, NEW c \in Components, NEW v \in Versions, NEW a \in Archs[c],
         NEW k \in Keys
  PROVE  Filled(d, r)[<<c, a, v, k>>] =
           IF c = r.comp /\ a \in r.archs /\ v = r.ver /\ k = "text"
           THEN <<a, v, build[c][v]>> ELSE d[<<c, a, v, k>>]
<1>1. <<c, a, v, k>> \in Entries
  BY EntryFacts
<1> QED
  BY <1>1 DEF Filled

-----------------------------------------------------------------------------
Sane(d) == DOMAIN d = Entries /\ \A e \in Entries : d[e] \in Values(e)

\* What a request of the run is about.
LEMMA TodoFacts ==
  ASSUME TypeOK, NEW r \in todo
  PROVE  /\ r.comp \in Components /\ r.ver \in Versions
         /\ r.archs \subseteq Archs[r.comp]
         /\ Infos[r.comp].multi => r.archs = Archs[r.comp]
<1>1. PICK c \in Components, v \in Versions : r \in Requests(c, v)
  BY DEF TypeOK, AllRequests
<1> QED
  BY <1>1, RequestFacts

\* Type correctness of the file, of the contents a run works on, and of the
\* requests it makes.
THEOREM TypeCorrect == Spec => []TypeOK
<1>1. Init => TypeOK
  <2> SUFFICES ASSUME Init PROVE TypeOK
    OBVIOUS
  <2>1. 1 \in Builds /\ 0 \in 0 .. MaxEdits /\ 0 \in 0 .. MaxReleases
    BY BoundsAssumption DEF Builds
  <2>2. Sane(file) /\ Sane(data)
    BY <2>1, FilesAssumption DEF Init, Sane, Values, Empty
  <2>3. release \in [Components -> [Versions -> {"none", "pre", "final"}]]
    BY DEF Init
  <2>4. build \in [Components -> [Versions -> Builds]]
        /\ \A c \in Components, v \in Versions : build[c][v] <= releases + 1
    BY <2>1 DEF Init
  <2> QED
    BY <2>1, <2>2, <2>3, <2>4 DEF Init, TypeOK, Sane, Unseen
<1>2. TypeOK /\ [Next]_vars => TypeOK'
  <2> SUFFICES ASSUME TypeOK, [Next]_vars PROVE TypeOK'
    OBVIOUS
  <2> USE DEF TypeOK, run, upstream
  <2>1. ASSUME NEW only \in SUBSET Components, Open(only) PROVE TypeOK'
    BY <2>1 DEF Open
  <2>2. CASE Query
    <3>1. seen' \in [Components -> SUBSET Versions]
      BY <2>2 DEF Query, Published
    <3>2. todo' \subseteq AllRequests
      BY <2>2 DEF Query, AllRequests
    <3> QED
      BY <2>2, <3>1, <3>2 DEF Query
  <2>3. ASSUME NEW r \in todo, Fetch(r) PROVE TypeOK'
    <3>1. data' = Filled(data, r)
      BY <2>3 DEF Fetch
    <3>2. DOMAIN data' = Entries
      BY <3>1 DEF Filled
    <3>3. ASSUME NEW e \in Entries PROVE data'[e] \in Values(e)
      <4>1. data'[e] = IF e[1] = r.comp /\ e[2] \in r.archs /\ e[3] = r.ver /\ e[4] = "text"
                       THEN <<e[2], e[3], build[r.comp][r.ver]>> ELSE data[e]
        BY <3>1 DEF Filled
      <4>2. build[r.comp][r.ver] \in Builds
        BY TodoFacts
      <4> QED
        BY <4>1, <4>2 DEF Values
    <3> QED
      BY <2>3, <3>2, <3>3 DEF Fetch
  <2>4. CASE Fail \/ Dump \/ Interrupt
    <3>1. \A e \in Entries : Empty[e] \in Values(e)
      BY DEF Empty, Values
    <3> QED
      BY <2>4, <3>1 DEF Fail, Dump, Interrupt, Exit, Empty, Unseen
  <2>5. CASE Truncate
    BY <2>5 DEF Truncate
  <2>6. ASSUME NEW e \in Entries, Edit(e) PROVE TypeOK'
    <3>1. DOMAIN file' = Entries /\ \A f \in Entries : file'[f] \in Values(f)
      BY <2>6 DEF Edit, Values
    <3>2. edits' \in 0 .. MaxEdits
      BY <2>6, BoundsAssumption DEF Edit
    <3> QED
      BY <2>6, <3>1, <3>2 DEF Edit
  <2>7. CASE Restore
    BY <2>7 DEF Restore
  <2>8. ASSUME NEW c \in Components, NEW v \in Versions, Publish(c, v) PROVE TypeOK'
    <3>1. releases' = releases + 1 /\ releases' \in 0 .. MaxReleases /\ releases \in Nat
      BY <2>8, BoundsAssumption DEF Publish
    <3>2. release' \in [Components -> [Versions -> {"none", "pre", "final"}]]
      BY <2>8 DEF Publish
    <3>3. /\ build' \in [Components -> [Versions -> Builds]]
          /\ \A d \in Components, w \in Versions : build'[d][w] <= releases' + 1
      <4>1. \A d \in Components, w \in Versions : build[d][w] \in Nat /\ build[d][w] <= releases + 1
        BY DEF Builds
      <4>2. CASE build' = build
        BY <3>1, <4>1, <4>2
      <4>3. CASE build' = [build EXCEPT ![c][v] = @ + 1]
        <5>1. build[c][v] + 1 \in Builds /\ build[c][v] + 1 <= releases' + 1
          BY <3>1, <4>1, BoundsAssumption DEF Builds
        <5>2. build' \in [Components -> [Versions -> Builds]]
          BY <4>3, <5>1
        <5>3. ASSUME NEW d \in Components, NEW w \in Versions PROVE build'[d][w] <= releases' + 1
          <6>1. CASE d = c /\ w = v
            BY <4>3, <5>1, <6>1
          <6>2. CASE ~(d = c /\ w = v)
            <7>1. build'[d][w] = build[d][w]
              BY <4>3, <6>2
            <7> QED
              BY <3>1, <4>1, <7>1
          <6> QED
            BY <6>1, <6>2
        <5> QED
          BY <5>2, <5>3
      <4> QED
        BY <2>8, <4>2, <4>3 DEF Publish
    <3> QED
      BY <2>8, <3>1, <3>2, <3>3 DEF Publish
  <2>9. CASE UNCHANGED vars
    BY <2>9 DEF vars
  <2> QED
    BY <2>1, <2>2, <2>3, <2>4, <2>5, <2>6, <2>7, <2>8, <2>9 DEF Next, Script
<1> QED
  BY <1>1, <1>2, PTL DEF Spec

-----------------------------------------------------------------------------
\* What the steps do to the file and to the contents a run works on.
LEMMA FetchFacts ==
  ASSUME TypeOK, NEW r \in todo, Fetch(r),
         NEW c \in Components, NEW v \in Versions, NEW a \in Archs[c], NEW k \in Keys
  PROVE  IF c = r.comp /\ a \in r.archs /\ v = r.ver /\ k = "text"
         THEN /\ data'[<<c, a, v, k>>] = <<a, v, build[c][v]>>
              /\ IsSum(data'[<<c, a, v, k>>])
         ELSE data'[<<c, a, v, k>>] = data[<<c, a, v, k>>]
<1>1. data'[<<c, a, v, k>>] = IF c = r.comp /\ a \in r.archs /\ v = r.ver /\ k = "text"
                              THEN <<a, v, build[c][v]>> ELSE data[<<c, a, v, k>>]
  BY FilledFacts DEF Fetch
<1>2. <<c, a, v, k>> \in Entries /\ build[c][v] \in Builds
  BY EntryFacts DEF TypeOK
<1>3. IsSum(<<a, v, build[c][v]>>)
  BY <1>2, SumFacts
<1> QED
  BY <1>1, <1>3

LEMMA EditFacts ==
  ASSUME TypeOK, NEW e \in Entries, Edit(e),
         NEW c \in Components, NEW v \in Versions, NEW a \in Archs[c], NEW k \in Keys
  PROVE  \/ file'[<<c, a, v, k>>] = file[<<c, a, v, k>>]
         \/ file[<<c, a, v, k>>] = None /\ file'[<<c, a, v, k>>] = Zero
<1>1. PICK d \in Components, w \in Versions, l \in Keys : \E b \in Archs[d] : e = <<d, b, w, l>>
  BY EntryFacts
<1>2. file[e] = None /\ file' = [file EXCEPT ![e] = Zero]
  BY <1>1 DEF Edit
<1> QED
  BY <1>2, EntryFacts DEF TypeOK

\* An edit completes no version.
LEMMA EditCompletesNone ==
  ASSUME TypeOK, NEW e \in Entries, Edit(e),
         NEW c \in Components, NEW v \in Versions, Complete(file', c, v)
  PROVE  /\ Complete(file, c, v)
         /\ \A a \in Archs[c], k \in Keys : file'[<<c, a, v, k>>] = file[<<c, a, v, k>>]
<1>1. ASSUME NEW a \in Archs[c], NEW k \in Keys
      PROVE  file'[<<c, a, v, k>>] = file[<<c, a, v, k>>]
  <2>1. file'[<<c, a, v, "number">>] = None /\ IsSum(file'[<<c, a, v, "text">>])
    BY DEF Complete, HasSums
  <2>2. file'[<<c, a, v, k>>] # Zero
    BY <2>1, SumFacts DEF Keys
  <2> QED
    BY <2>2, EditFacts
<1> QED
  BY <1>1 DEF Complete, HasSums, Keys

\* The requests of a run are for its new versions and its zeros.
LEMMA QueryFacts ==
  ASSUME TypeOK, Query
  PROVE  /\ \A r \in todo' :
              /\ r.comp \in selected /\ r.ver \in Versions
              /\ r.ver \in NewVersions(data, r.comp, seen'[r.comp])
                            \cup ZeroVersions(data, r.comp)
         /\ \A c \in selected, v \in Versions :
              v \in NewVersions(data, c, seen'[c]) \cup ZeroVersions(data, c) =>
                Requests(c, v) \subseteq todo'
         /\ \A c \in selected : seen'[c] \subseteq Published(c)
<1> DEFINE P == {q \in selected \X Versions :
                   q[2] \in NewVersions(data, q[1], seen'[q[1]]) \cup ZeroVersions(data, q[1])}
<1>1. todo' = UNION {Requests(p[1], p[2]) : p \in P}
  BY DEF Query
<1>2. selected \subseteq Components
  BY DEF TypeOK
<1>3. ASSUME NEW r \in todo'
      PROVE  /\ r.comp \in selected /\ r.ver \in Versions
             /\ r.ver \in NewVersions(data, r.comp, seen'[r.comp]) \cup ZeroVersions(data, r.comp)
  <2>1. PICK p \in P : r \in Requests(p[1], p[2])
    BY <1>1
  <2>2. p[1] \in selected /\ p[2] \in Versions
    OBVIOUS
  <2>3. r.comp = p[1] /\ r.ver = p[2]
    BY <1>2, <2>1, <2>2, RequestFacts
  <2> QED
    BY <2>2, <2>3
<1>4. ASSUME NEW c \in selected, NEW v \in Versions,
             v \in NewVersions(data, c, seen'[c]) \cup ZeroVersions(data, c)
      PROVE  Requests(c, v) \subseteq todo'
  <2>1. <<c, v>> \in P
    BY <1>4
  <2> QED
    BY <1>1, <2>1
<1>5. \A c \in selected : seen'[c] \subseteq Published(c)
  BY <1>2 DEF Query
<1> QED
  BY <1>3, <1>4, <1>5

-----------------------------------------------------------------------------
(* One build of each version whose sums come in one file.                   *)
OneBuildOf(d) ==
  \A c \in Components, v \in Versions : \A a, b \in Archs[c] :
    Infos[c].multi /\ IsSum(d[<<c, a, v, "text">>]) /\ IsSum(d[<<c, b, v, "text">>]) =>
      d[<<c, a, v, "text">>][3] = d[<<c, b, v, "text">>][3]

\* A file without entries has no sums.
LEMMA EmptyIsOneBuild == OneBuildOf(Empty)
BY EntryFacts, SumFacts DEF OneBuildOf, Empty, Keys

LEMMA OneBuildInvariant == Spec => [](OneBuildOf(file) /\ OneBuildOf(data))
<1>1. Init => OneBuildOf(file) /\ OneBuildOf(data)
  <2> SUFFICES ASSUME Init PROVE OneBuildOf(file) /\ OneBuildOf(data)
    OBVIOUS
  <2>1. \A e \in Entries : IsSum(file[e]) => file[e][3] = 1
    BY FilesAssumption, SumFacts DEF Init
  <2> QED
    BY <2>1, EntryFacts, EmptyIsOneBuild DEF Init, OneBuildOf, Keys
<1>2. TypeOK /\ OneBuildOf(file) /\ OneBuildOf(data) /\ [Next]_vars
        => OneBuildOf(file)' /\ OneBuildOf(data)'
  <2> SUFFICES ASSUME TypeOK, OneBuildOf(file), OneBuildOf(data), [Next]_vars
               PROVE  OneBuildOf(file)' /\ OneBuildOf(data)'
    OBVIOUS
  <2>1. ASSUME NEW r \in todo, Fetch(r) PROVE OneBuildOf(file)' /\ OneBuildOf(data)'
    <3>1. file' = file
      BY <2>1 DEF Fetch
    <3>2. ASSUME NEW c \in Components, NEW v \in Versions, NEW a \in Archs[c], NEW b \in Archs[c],
                 Infos[c].multi, IsSum(data'[<<c, a, v, "text">>]), IsSum(data'[<<c, b, v, "text">>])
          PROVE  data'[<<c, a, v, "text">>][3] = data'[<<c, b, v, "text">>][3]
      <4>1. CASE c = r.comp /\ v = r.ver
        <5>1. a \in r.archs /\ b \in r.archs
          BY <3>2, <4>1, TodoFacts
        <5>2. "text" \in Keys
          BY DEF Keys
        <5>3. /\ data'[<<c, a, v, "text">>] = <<a, v, build[c][v]>>
              /\ data'[<<c, b, v, "text">>] = <<b, v, build[c][v]>>
          BY <2>1, <4>1, <5>1, <5>2, FetchFacts
        <5> QED
          BY <5>3
      <4>2. CASE ~(c = r.comp /\ v = r.ver)
        <5>1. /\ data'[<<c, a, v, "text">>] = data[<<c, a, v, "text">>]
              /\ data'[<<c, b, v, "text">>] = data[<<c, b, v, "text">>]
          <6>1. "text" \in Keys
            BY DEF Keys
          <6> QED
            BY <2>1, <4>2, <6>1, FetchFacts
        <5> QED
          BY <3>2, <5>1 DEF OneBuildOf
      <4> QED
        BY <4>1, <4>2
    <3> QED
      BY <3>1, <3>2 DEF OneBuildOf
  <2>2. ASSUME NEW e \in Entries, Edit(e) PROVE OneBuildOf(file)' /\ OneBuildOf(data)'
    <3>1. \A c \in Components, v \in Versions : \A a \in Archs[c] :
            IsSum(file'[<<c, a, v, "text">>]) =>
              file'[<<c, a, v, "text">>] = file[<<c, a, v, "text">>]
      BY <2>2, EditFacts, SumFacts DEF Keys
    <3>2. data' = data
      BY <2>2 DEF Edit, run
    <3> QED
      BY <3>1, <3>2 DEF OneBuildOf
  <2>3. ASSUME NEW only \in SUBSET Components, Open(only)
        PROVE  OneBuildOf(file)' /\ OneBuildOf(data)'
    BY <2>3 DEF Open, OneBuildOf
  <2>4. CASE Fail \/ Dump \/ Interrupt
    <3>1. data' = Empty /\ (file' = file \/ file' = data)
      BY <2>4 DEF Fail, Dump, Interrupt, Exit
    <3> QED
      BY <3>1, EmptyIsOneBuild DEF OneBuildOf
  <2>5. CASE Query \/ Truncate \/ Restore
    BY <2>5 DEF Query, Truncate, Restore, OneBuildOf, run
  <2>6. ASSUME NEW c \in Components, NEW v \in Versions, Publish(c, v)
        PROVE  OneBuildOf(file)' /\ OneBuildOf(data)'
    BY <2>6 DEF Publish, OneBuildOf, run
  <2>7. CASE UNCHANGED vars
    BY <2>7 DEF OneBuildOf, vars, run
  <2> QED
    BY <2>1, <2>2, <2>3, <2>4, <2>5, <2>6, <2>7 DEF Next, Script
<1> QED
  BY <1>1, <1>2, TypeCorrect, PTL DEF Spec

\* The sums of a version that come in one upstream file are of one build.
THEOREM SumsOfOneBuild == Spec => []OneBuild
<1>1. TypeOK /\ OneBuildOf(file) => OneBuild
  <2> SUFFICES ASSUME TypeOK, OneBuildOf(file), NEW e \in Entries, NEW f \in Entries,
                      Infos[e[1]].multi, e[1] = f[1], e[3] = f[3],
                      IsSum(file[e]), IsSum(file[f])
               PROVE  file[e][3] = file[f][3]
    BY DEF OneBuild
  <2>1. ASSUME NEW g \in Entries, IsSum(file[g])
        PROVE  \E c \in Components, v \in Versions : \E a \in Archs[c] : g = <<c, a, v, "text">>
    <3>1. g[4] = "text"
      BY <2>1, SumFacts DEF TypeOK, Values, IsSum
    <3> QED
      BY <3>1, EntryFacts
  <2>2. PICK c \in Components, v \in Versions : \E a \in Archs[c] : e = <<c, a, v, "text">>
    BY <2>1
  <2>3. PICK a \in Archs[c] : e = <<c, a, v, "text">>
    BY <2>2
  <2>4. PICK d \in Components, w \in Versions : \E b \in Archs[d] : f = <<d, b, w, "text">>
    BY <2>1
  <2>5. PICK b \in Archs[d] : f = <<d, b, w, "text">>
    BY <2>4
  <2>6. d = c /\ w = v
    BY <2>3, <2>5
  <2> QED
    BY <2>3, <2>5, <2>6 DEF OneBuildOf
<1> QED
  BY <1>1, TypeCorrect, OneBuildInvariant, PTL

-----------------------------------------------------------------------------
(* A run asks for no version that is complete, and keeps those.             *)
Untouched ==
  /\ pc # "fetching" => todo = {}
  /\ pc # "idle" =>
       \A c \in Components, v \in Versions : Complete(file, c, v) =>
         /\ \A a \in Archs[c], k \in Keys : data[<<c, a, v, k>>] = file[<<c, a, v, k>>]
         /\ \A r \in todo : ~(r.comp = c /\ r.ver = v)

LEMMA UntouchedInvariant == Spec => []Untouched
<1>1. Init => Untouched
  BY DEF Init, Untouched
<1>2. TypeOK /\ Untouched /\ [Next]_vars => Untouched'
  <2> SUFFICES ASSUME TypeOK, Untouched, [Next]_vars PROVE Untouched'
    OBVIOUS
  <2>1. ASSUME NEW only \in SUBSET Components, Open(only) PROVE Untouched'
    BY <2>1 DEF Open, Untouched
  <2>2. CASE Query
    <3>1. pc = "opened" /\ pc' = "fetching" /\ file' = file /\ data' = data
      BY <2>2 DEF Query
    <3>2. ASSUME NEW c \in Components, NEW v \in Versions, Complete(file, c, v),
                 NEW r \in todo', r.comp = c, r.ver = v
          PROVE  FALSE
      <4>1. \A a \in Archs[c] :
              IsSum(data[<<c, a, v, "text">>]) /\ data[<<c, a, v, "number">>] = None
        BY <3>1, <3>2 DEF Untouched, Complete, HasSums, Keys
      <4>2. v \in NewVersions(data, c, seen'[c]) \cup ZeroVersions(data, c)
        BY <2>2, <3>2, QueryFacts
      <4>3. v \in Known(data, c)
        BY <4>1, FirstAssumption, SumFacts DEF Known, Keys
      <4>4. v \notin ZeroVersions(data, c)
        BY <4>1, SumFacts DEF ZeroVersions, Keys
      <4> QED
        BY <4>2, <4>3, <4>4 DEF NewVersions
    <3> QED
      BY <3>1, <3>2 DEF Untouched
  <2>3. ASSUME NEW r \in todo, Fetch(r) PROVE Untouched'
    <3>1. pc' = "fetching" /\ pc = "fetching" /\ file' = file /\ todo' \subseteq todo
      BY <2>3 DEF Fetch
    <3>2. ASSUME NEW c \in Components, NEW v \in Versions, Complete(file, c, v),
                 NEW a \in Archs[c], NEW k \in Keys
          PROVE  data'[<<c, a, v, k>>] = file[<<c, a, v, k>>]
      BY <2>3, <3>1, <3>2, FetchFacts DEF Untouched
    <3> QED
      BY <3>1, <3>2 DEF Untouched
  <2>4. CASE Fail \/ Truncate \/ Interrupt \/ Dump \/ Restore
    BY <2>4 DEF Fail, Truncate, Interrupt, Dump, Exit, Restore, Untouched, run
  <2>5. ASSUME NEW e \in Entries, Edit(e) PROVE Untouched'
    <3>1. pc' = pc /\ data' = data /\ todo' = todo
      BY <2>5 DEF Edit, run
    <3>2. \A c \in Components, v \in Versions : Complete(file', c, v) =>
            /\ Complete(file, c, v)
            /\ \A a \in Archs[c], k \in Keys : file'[<<c, a, v, k>>] = file[<<c, a, v, k>>]
      BY <2>5, EditCompletesNone
    <3> QED
      BY <3>1, <3>2 DEF Untouched
  <2>6. ASSUME NEW c \in Components, NEW v \in Versions, Publish(c, v) PROVE Untouched'
    BY <2>6 DEF Publish, Untouched, run
  <2>7. CASE UNCHANGED vars
    BY <2>7 DEF Untouched, vars, run
  <2> QED
    BY <2>1, <2>2, <2>3, <2>4, <2>5, <2>6, <2>7 DEF Next, Script
<1> QED
  BY <1>1, <1>2, TypeCorrect, PTL DEF Spec

\* What writes the file: the dump of a run, and the maintainer.
LEMMA WhoWrites ==
  ASSUME [Next]_vars
  PROVE  file' = file \/ Dump \/ \E e \in Entries : Edit(e)
BY DEF Next, Script, Open, Query, Fetch, Fail, Truncate, Interrupt, Restore, Publish, vars

\* The sums of a complete version never change.
THEOREM CompleteStays == Spec => CompletePinned
<1> DEFINE Pinned == \A c \in Components, v \in Versions : Complete(file, c, v) =>
                       \A a \in Archs[c] :
                         file'[<<c, a, v, "text">>] = file[<<c, a, v, "text">>]
<1>1. TypeOK /\ Untouched /\ [Next]_vars => [Pinned]_vars
  <2> SUFFICES ASSUME TypeOK, Untouched, [Next]_vars PROVE Pinned
    OBVIOUS
  <2>1. CASE Dump
    BY <2>1 DEF Dump, Untouched, Keys
  <2>2. ASSUME NEW e \in Entries, Edit(e) PROVE Pinned
    BY <2>2, EditFacts, SumFacts DEF Complete, HasSums, Keys
  <2> QED
    BY <2>1, <2>2, WhoWrites
<1> QED
  BY <1>1, TypeCorrect, UntouchedInvariant, PTL DEF Spec, CompletePinned

-----------------------------------------------------------------------------
(* What a run may add by itself, seen from the file it has not written yet. *)
Later(c, v) ==
  /\ v \in Published(c)
  /\ \E w \in Known(file, c) \cap Known(data, c) : Line[c][w] = Line[c][v] /\ w < v
  /\ \A w \in Versions : HadSum(c, w) /\ Line[c][w] = Line[c][v] => w < v

Unknown(c, v) == \A a \in Archs[c], k \in Keys : file[<<c, a, v, k>>] = None
Asked(c, v) ==
  \/ \E r \in todo : r.comp = c /\ r.ver = v
  \/ \E a \in Archs[c], k \in Keys : data[<<c, a, v, k>>] # None

(* While a run has only read the file, its contents are those of the file,  *)
(* edits aside.                                                             *)
Fresh ==
  pc = "opened" =>
    \A c \in Components, v \in Versions, k \in Keys : \A a \in Archs[c] :
      \/ data[<<c, a, v, k>>] = file[<<c, a, v, k>>]
      \/ data[<<c, a, v, k>>] = None /\ file[<<c, a, v, k>>] = Zero

AddsLater ==
  pc # "idle" =>
    \A c \in Components, v \in Versions :
      ~Infos[c].dated /\ Unknown(c, v) /\ Asked(c, v) => Later(c, v)

LEMMA FreshInvariant == Spec => []Fresh
<1>1. Init => Fresh
  BY DEF Init, Fresh
<1>2. TypeOK /\ Fresh /\ [Next]_vars => Fresh'
  <2> SUFFICES ASSUME TypeOK, Fresh, [Next]_vars PROVE Fresh'
    OBVIOUS
  <2>1. ASSUME NEW only \in SUBSET Components, Open(only) PROVE Fresh'
    BY <2>1 DEF Open, Fresh
  <2>2. CASE Query \/ Fail \/ Truncate \/ Dump \/ Interrupt \/ (\E r \in todo : Fetch(r))
    BY <2>2 DEF Query, Fail, Truncate, Dump, Interrupt, Exit, Fetch, Fresh
  <2>3. ASSUME NEW e \in Entries, Edit(e) PROVE Fresh'
    <3>1. pc' = pc /\ data' = data
      BY <2>3 DEF Edit, run
    <3>2. ASSUME NEW c \in Components, NEW v \in Versions, NEW k \in Keys, NEW a \in Archs[c]
          PROVE  \/ file'[<<c, a, v, k>>] = file[<<c, a, v, k>>]
                 \/ file[<<c, a, v, k>>] = None /\ file'[<<c, a, v, k>>] = Zero
      BY <2>3, EditFacts
    <3> SUFFICES ASSUME pc = "opened", NEW c \in Components, NEW v \in Versions,
                        NEW k \in Keys, NEW a \in Archs[c]
                 PROVE  \/ data[<<c, a, v, k>>] = file'[<<c, a, v, k>>]
                        \/ data[<<c, a, v, k>>] = None /\ file'[<<c, a, v, k>>] = Zero
      BY <3>1 DEF Fresh
    <3>3. \/ data[<<c, a, v, k>>] = file[<<c, a, v, k>>]
          \/ data[<<c, a, v, k>>] = None /\ file[<<c, a, v, k>>] = Zero
      BY DEF Fresh
    <3> QED
      BY <3>2, <3>3, SumFacts
  <2>4. CASE Restore
    BY <2>4 DEF Restore, Fresh, run
  <2>5. ASSUME NEW c \in Components, NEW v \in Versions, Publish(c, v) PROVE Fresh'
    BY <2>5 DEF Publish, Fresh, run
  <2>6. CASE UNCHANGED vars
    BY <2>6 DEF Fresh, vars, run
  <2> QED
    BY <2>1, <2>2, <2>3, <2>4, <2>5, <2>6 DEF Next, Script
<1> QED
  BY <1>1, <1>2, TypeCorrect, PTL DEF Spec

\* What GitHub lists as published stays published.
LEMMA PublishedGrows ==
  ASSUME TypeOK, NEW d \in Components, NEW w \in Versions, Publish(d, w), NEW c \in Components
  PROVE  Published(c) \subseteq Published(c)'
<1>1. ASSUME NEW v \in Versions
      PROVE  release'[c][v] = release[c][v] \/ release[c][v] = "none" \/ release'[c][v] = "final"
  <2>1. CASE release' = release
    BY <2>1
  <2>2. CASE \E s \in {"pre", "final"} : release[d][w] = "none" /\ release' = [release EXCEPT ![d][w] = s]
    BY <2>2 DEF TypeOK
  <2>3. CASE release' = [release EXCEPT ![d][w] = "final"]
    BY <2>3 DEF TypeOK
  <2> QED
    BY <2>1, <2>2, <2>3 DEF Publish
<1> QED
  BY <1>1 DEF Published

\* A fetch only adds to what a run knows.
LEMMA KnownGrows ==
  ASSUME TypeOK, NEW r \in todo, Fetch(r), NEW c \in Components
  PROVE  Known(data, c) \subseteq Known(data', c)
<1>1. First[c] \in Archs[c]
  BY FirstAssumption
<1> QED
  BY <1>1, FetchFacts, SumFacts DEF Known

\* An edit only adds versions, and no sums.
LEMMA EditKnown ==
  ASSUME TypeOK, NEW e \in Entries, Edit(e), NEW c \in Components
  PROVE  /\ Known(file, c) \subseteq Known(file', c)
         /\ \A w \in Versions : HadSum(c, w)' => HadSum(c, w)
<1>1. First[c] \in Archs[c]
  BY FirstAssumption
<1>2. ASSUME NEW w \in Versions, NEW k \in Keys
      PROVE  \/ file'[<<c, First[c], w, k>>] = file[<<c, First[c], w, k>>]
             \/ file[<<c, First[c], w, k>>] = None /\ file'[<<c, First[c], w, k>>] = Zero
  BY <1>1, EditFacts
<1>3. Known(file, c) \subseteq Known(file', c)
  BY <1>2, SumFacts DEF Known
<1>4. \A w \in Versions : HadSum(c, w)' => HadSum(c, w)
  BY <1>2, SumFacts DEF HadSum, Keys
<1> QED
  BY <1>3, <1>4

\* What a run that only has read the file knows is in the file, and it knows
\* what had a sum.
LEMMA FreshKnown ==
  ASSUME TypeOK, Fresh, pc = "opened", NEW c \in Components
  PROVE  /\ Known(data, c) \subseteq Known(file, c)
         /\ \A w \in Versions : HadSum(c, w) => w \in Known(data, c)
<1>1. First[c] \in Archs[c]
  BY FirstAssumption
<1>2. Known(data, c) \subseteq Known(file, c)
  BY <1>1, SumFacts DEF Fresh, Known
<1>3. \A w \in Versions : HadSum(c, w) => w \in Known(data, c)
  BY <1>1, SumFacts DEF Fresh, Known, HadSum, Keys
<1> QED
  BY <1>2, <1>3

LEMMA AddsLaterInvariant == Spec => []AddsLater
<1>1. Init => AddsLater
  BY DEF Init, AddsLater
<1>2. TypeOK /\ Untouched /\ Fresh /\ AddsLater /\ [Next]_vars => AddsLater'
  <2> SUFFICES ASSUME TypeOK, Untouched, Fresh, AddsLater, [Next]_vars PROVE AddsLater'
    OBVIOUS
  <2>1. ASSUME NEW only \in SUBSET Components, Open(only) PROVE AddsLater'
    <3>1. data' = file /\ file' = file /\ todo' = {}
      BY <2>1 DEF Open, Untouched
    <3> QED
      BY <3>1 DEF AddsLater, Unknown, Asked
  <2>2. CASE Query
    <3>1. pc = "opened" /\ UNCHANGED <<file, data, release>>
      BY <2>2 DEF Query, upstream
    <3>2. ASSUME NEW c \in Components, NEW v \in Versions, ~Infos[c].dated,
                 Unknown(c, v), Asked(c, v)'
          PROVE  Later(c, v)
      <4>1. \A a \in Archs[c], k \in Keys : data[<<c, a, v, k>>] = None
        BY <3>1, <3>2 DEF Fresh, Unknown
      <4>2. PICK r \in todo' : r.comp = c /\ r.ver = v
        BY <3>1, <3>2, <4>1 DEF Asked
      <4>3. c \in selected /\ v \in NewVersions(data, c, seen'[c])
        BY <2>2, <4>1, <4>2, QueryFacts, SumFacts DEF ZeroVersions
      <4>4. PICK w \in LineMax(data, c) : v > w /\ Line[c][v] = Line[c][w]
        BY <3>2, <4>3 DEF NewVersions
      <4>5. w \in Known(data, c) /\ w \in Versions
        BY DEF LineMax, Known
      <4>6. v \in Published(c)
        BY <2>2, <4>3, QueryFacts DEF NewVersions
      <4>7. ASSUME NEW x \in Versions, HadSum(c, x), Line[c][x] = Line[c][v]
            PROVE  x < v
        <5>1. x <= w
          BY <3>1, <4>4, <4>7, FreshKnown DEF LineMax
        <5> QED
          BY <4>4, <4>5, <5>1, VersionsAssumption
      <4>8. w < v
        BY <4>4, <4>5, VersionsAssumption
      <4> QED
        BY <3>1, <4>4, <4>5, <4>6, <4>7, <4>8, FreshKnown DEF Later
    <3>3. \A c \in Components, v \in Versions :
            (Unknown(c, v)' <=> Unknown(c, v)) /\ (Later(c, v)' <=> Later(c, v))
      BY <3>1 DEF Unknown, Later, Published, HadSum
    <3> QED
      BY <3>2, <3>3 DEF AddsLater
  <2>3. ASSUME NEW r \in todo, Fetch(r) PROVE AddsLater'
    <3>1. pc = "fetching" /\ UNCHANGED <<file, release>> /\ todo' \subseteq todo
      BY <2>3 DEF Fetch, upstream
    <3>2. ASSUME NEW c \in Components, NEW v \in Versions, ~Infos[c].dated,
                 Unknown(c, v), Asked(c, v)'
          PROVE  Later(c, v)'
      <4>1. Asked(c, v)
        <5>1. CASE \E q \in todo' : q.comp = c /\ q.ver = v
          BY <3>1, <5>1 DEF Asked
        <5>2. CASE \E a \in Archs[c], k \in Keys : data'[<<c, a, v, k>>] # None
          BY <2>3, <5>2, FetchFacts DEF Asked
        <5> QED
          BY <3>2, <5>1, <5>2 DEF Asked
      <4>2. Later(c, v)
        BY <3>1, <3>2, <4>1 DEF AddsLater
      <4> QED
        BY <2>3, <3>1, <4>2, KnownGrows DEF Later, Published, HadSum
    <3> QED
      BY <3>1, <3>2 DEF AddsLater, Unknown
  <2>4. CASE Fail \/ Dump \/ Interrupt
    BY <2>4 DEF Fail, Dump, Interrupt, Exit, AddsLater
  <2>5. CASE Truncate
    BY <2>5 DEF Truncate, AddsLater, Unknown, Asked, Later, Published, HadSum, upstream
  <2>6. ASSUME NEW e \in Entries, Edit(e) PROVE AddsLater'
    <3>1. UNCHANGED <<pc, data, todo, release>>
      BY <2>6 DEF Edit, run, upstream
    <3>2. ASSUME NEW c \in Components, NEW v \in Versions, ~Infos[c].dated, pc # "idle",
                 Unknown(c, v)', Asked(c, v)
          PROVE  Later(c, v)'
      <4>1. Unknown(c, v)
        BY <2>6, <3>2, EditFacts, SumFacts DEF Unknown
      <4>2. Later(c, v)
        BY <3>2, <4>1 DEF AddsLater
      <4>3. Published(c)' = Published(c)
        BY <3>1 DEF Published
      <4>4. \E w \in Known(file, c)' \cap Known(data, c)' : Line[c][w] = Line[c][v] /\ w < v
        BY <2>6, <3>1, <4>2, EditKnown DEF Later, Known
      <4> QED
        BY <2>6, <4>2, <4>3, <4>4, EditKnown DEF Later
    <3> QED
      BY <3>1, <3>2 DEF AddsLater, Asked
  <2>7. CASE Restore
    BY <2>7 DEF Restore, AddsLater, run
  <2>8. ASSUME NEW d \in Components, NEW w \in Versions, Publish(d, w) PROVE AddsLater'
    <3>1. UNCHANGED <<pc, file, data, todo>>
      BY <2>8 DEF Publish, run
    <3>2. \A c \in Components : Published(c) \subseteq Published(c)'
      BY <2>8, PublishedGrows
    <3>3. \A c \in Components, v \in Versions : Later(c, v) => Later(c, v)'
      BY <3>1, <3>2 DEF Later, HadSum
    <3> QED
      BY <3>1, <3>3 DEF AddsLater, Unknown, Asked
  <2>9. CASE UNCHANGED vars
    BY <2>9 DEF AddsLater, Unknown, Asked, Later, Published, HadSum, vars, run, upstream
  <2> QED
    BY <2>1, <2>2, <2>3, <2>4, <2>5, <2>6, <2>7, <2>8, <2>9 DEF Next, Script
<1> QED
  BY <1>1, <1>2, TypeCorrect, UntouchedInvariant, FreshInvariant, PTL DEF Spec

\* What a run adds by itself is a published, later version of a known line.
THEOREM AddsLaterPatches == Spec => OnlyLaterPatches
<1> DEFINE Step ==
      \A c \in Components, v \in Versions :
        /\ Complete(file', c, v) /\ ~Infos[c].dated
        /\ \A a \in Archs[c], k \in Keys : file[<<c, a, v, k>>] = None
        => /\ v \in Published(c)
           /\ \E w \in Known(file, c) \cap Known(file', c) :
                Line[c][w] = Line[c][v] /\ w < v
           /\ \A w \in Versions :
                HadSum(c, w) /\ Line[c][w] = Line[c][v] => w < v
<1>1. TypeOK /\ AddsLater /\ [Next]_vars => [Step]_vars
  <2> SUFFICES ASSUME TypeOK, AddsLater, [Next]_vars,
                      NEW c \in Components, NEW v \in Versions,
                      Complete(file', c, v), ~Infos[c].dated, Unknown(c, v)
               PROVE  /\ v \in Published(c)
                      /\ \E w \in Known(file, c) \cap Known(file', c) :
                           Line[c][w] = Line[c][v] /\ w < v
                      /\ \A w \in Versions :
                           HadSum(c, w) /\ Line[c][w] = Line[c][v] => w < v
    BY DEF Unknown
  <2>1. First[c] \in Archs[c]
    BY FirstAssumption
  <2>2. ~Complete(file, c, v)
    BY <2>1, SumFacts DEF Complete, HasSums, Unknown, Keys
  <2>3. CASE Dump
    <3>1. pc = "writing" /\ file' = data
      BY <2>3 DEF Dump
    <3>2. Asked(c, v)
      BY <2>1, <3>1, SumFacts DEF Asked, Complete, HasSums, Keys
    <3> QED
      BY <3>1, <3>2 DEF AddsLater, Later
  <2>4. ~\E e \in Entries : Edit(e)
    BY <2>2, EditCompletesNone
  <2> QED
    BY <2>2, <2>3, <2>4, WhoWrites
<1> QED
  BY <1>1, TypeCorrect, AddsLaterInvariant, PTL DEF Spec, OnlyLaterPatches

-----------------------------------------------------------------------------
(* What the requests still to be made stand for: a run that writes has      *)
(* covered its components.                                                  *)
Pending(c, v, a) == \E r \in todo : r.comp = c /\ r.ver = v /\ a \in r.archs
Wanted(c, v) ==
  \/ \E r \in todo : r.comp = c /\ r.ver = v
  \/ v \in Known(data, c) \ Known(file, c)
  \/ v \in ZeroVersions(data, c)

Covered(c) ==
  /\ \A v \in seen[c] :
       v \in Known(data, c) \/ Pending(c, v, First[c]) \/ LeftOut(c, v, data)
  /\ \A v \in Versions : Wanted(c, v) =>
       \A a \in Archs[c] : Pending(c, v, a) \/ IsSum(data[<<c, a, v, "text">>])

Thorough ==
  /\ pc \in {"fetching", "writing"} => \A c \in selected : Covered(c)
  /\ pc = "writing" => torn

\* A listed version that calls for no request is older than the latest one
\* of every line that could.
LEMMA QueryLeavesOut ==
  ASSUME TypeOK, Fresh, pc = "opened", NEW c \in Components, NEW listed \in SUBSET Versions,
         NEW v \in listed, v \notin Known(data, c), v \notin NewVersions(data, c, listed)
  PROVE  LeftOut(c, v, data)
<1> SUFFICES ASSUME NEW w \in Versions, HadSum(c, w), Line[c][w] = Line[c][v] \/ Infos[c].dated
             PROVE  \E x \in Known(data, c) : Line[c][x] = Line[c][w] /\ x > v
  BY DEF LeftOut
<1> DEFINE S == {x \in Known(data, c) : Line[c][x] = Line[c][w]}
<1>1. w \in S
  BY FreshKnown
<1>2. S \in SUBSET Versions
  BY DEF Known
<1>3. PICK m \in S : \A x \in S : x <= m
  BY <1>1, <1>2, VersionsAssumption
<1>4. m \in LineMax(data, c) /\ m \in Known(data, c) /\ Line[c][m] = Line[c][w]
  BY <1>3 DEF LineMax
<1>5. ~(v > m)
  BY <1>4 DEF NewVersions
<1>6. m \in Nat /\ v \in Nat /\ m # v
  BY <1>2, <1>4, VersionsAssumption
<1> QED
  BY <1>4, <1>5, <1>6

LEMMA ThoroughInvariant == Spec => []Thorough
<1>1. Init => Thorough
  BY DEF Init, Thorough
<1>2. TypeOK /\ Untouched /\ Fresh /\ Thorough /\ [Next]_vars => Thorough'
  <2> SUFFICES ASSUME TypeOK, Untouched, Fresh, Thorough, [Next]_vars PROVE Thorough'
    OBVIOUS
  <2>1. CASE Fail \/ Dump \/ Interrupt \/ \E only \in SUBSET Components : Open(only)
    BY <2>1 DEF Open, Fail, Dump, Interrupt, Exit, Thorough
  <2>2. CASE Query
    <3>1. pc = "opened" /\ pc' = "fetching" /\ UNCHANGED <<file, data, selected>>
      BY <2>2 DEF Query
    <3>2. ASSUME NEW c \in selected PROVE Covered(c)'
      <4>1. c \in Components /\ First[c] \in Archs[c] /\ seen'[c] \in SUBSET Versions
        <5>1. c \in Components
          BY DEF TypeOK
        <5>2. seen'[c] \in SUBSET Versions
          BY <2>2, <5>1, QueryFacts DEF Published
        <5> QED
          BY <5>1, <5>2, FirstAssumption
      <4>2. ASSUME NEW v \in Versions, NEW a \in Archs[c],
                   v \in NewVersions(data, c, seen'[c]) \cup ZeroVersions(data, c)
            PROVE  Pending(c, v, a)'
        <5>1. PICK r \in Requests(c, v) : a \in r.archs
          BY <4>1, RequestFacts
        <5>2. r.comp = c /\ r.ver = v
          BY <4>1, RequestFacts
        <5>3. r \in todo'
          BY <2>2, <4>2, QueryFacts
        <5> QED
          BY <5>1, <5>2, <5>3 DEF Pending
      <4>3. ZeroVersions(data, c)' = ZeroVersions(data, c)
        BY <3>1 DEF ZeroVersions
      <4>4. ASSUME NEW v \in seen'[c], v \notin Known(data, c), ~Pending(c, v, First[c])'
            PROVE  LeftOut(c, v, data)
        BY <3>1, <4>1, <4>2, <4>4, QueryLeavesOut
      <4>5. ASSUME NEW v \in Versions, Wanted(c, v)', NEW a \in Archs[c]
            PROVE  Pending(c, v, a)'
        <5>1. v \notin Known(data, c) \ Known(file, c)
          BY <3>1, <4>1, FreshKnown
        <5>2. v \in ZeroVersions(data, c) \/ \E r \in todo' : r.comp = c /\ r.ver = v
          BY <3>1, <4>3, <4>5, <5>1 DEF Wanted, Known
        <5> QED
          BY <2>2, <4>2, <5>2, QueryFacts
      <4>6. \A v \in seen'[c] : LeftOut(c, v, data)' <=> LeftOut(c, v, data)
        BY <3>1 DEF LeftOut, HadSum, Known
      <4>7. Known(data, c)' = Known(data, c)
        BY <3>1 DEF Known
      <4> QED
        BY <3>1, <4>4, <4>5, <4>6, <4>7 DEF Covered
    <3> QED
      BY <3>1, <3>2 DEF Thorough
  <2>3. ASSUME NEW r \in todo, Fetch(r) PROVE Thorough'
    <3>1. /\ pc = "fetching" /\ pc' = "fetching" /\ UNCHANGED <<file, selected, seen>>
          /\ todo' = todo \ {r}
      BY <2>3 DEF Fetch
    <3>2. ASSUME NEW c \in selected PROVE Covered(c)'
      <4>1. c \in Components /\ First[c] \in Archs[c] /\ seen[c] \in SUBSET Versions /\ Covered(c)
        BY <3>1, FirstAssumption DEF TypeOK, Thorough
      <4>2. ASSUME NEW v \in Versions, NEW a \in Archs[c], Pending(c, v, a)
            PROVE  Pending(c, v, a)' \/ IsSum(data'[<<c, a, v, "text">>])
        <5>1. PICK q \in todo : q.comp = c /\ q.ver = v /\ a \in q.archs
          BY <4>2 DEF Pending
        <5>2. CASE q = r
          BY <2>3, <4>1, <5>1, <5>2, FetchFacts DEF Keys
        <5>3. CASE q # r
          BY <3>1, <5>1, <5>3 DEF Pending
        <5> QED
          BY <5>2, <5>3
      <4>3. ZeroVersions(data', c) \subseteq ZeroVersions(data, c)
        <5> SUFFICES ASSUME NEW v \in Versions, NEW a \in Archs[c], NEW k \in Keys,
                            data'[<<c, a, v, k>>] = Zero
                     PROVE  data[<<c, a, v, k>>] = Zero
          BY DEF ZeroVersions
        <5> QED
          BY <2>3, <4>1, FetchFacts, SumFacts
      <4>4. ASSUME NEW v \in seen[c]
            PROVE  v \in Known(data', c) \/ Pending(c, v, First[c])' \/ LeftOut(c, v, data')
        <5>1. CASE v \in Known(data, c) \/ LeftOut(c, v, data)
          BY <2>3, <4>1, <5>1, KnownGrows DEF LeftOut
        <5>2. CASE Pending(c, v, First[c])
          BY <4>1, <4>2, <5>2, SumFacts DEF Known, Keys
        <5> QED
          BY <4>1, <5>1, <5>2 DEF Covered
      <4>5. ASSUME NEW v \in Versions, Wanted(c, v)', NEW a \in Archs[c]
            PROVE  Pending(c, v, a)' \/ IsSum(data'[<<c, a, v, "text">>])
        <5>1. Wanted(c, v)
          <6>1. CASE \E q \in todo' : q.comp = c /\ q.ver = v
            BY <3>1, <6>1 DEF Wanted
          <6>2. CASE v \in Known(data', c) \ Known(file, c)
            <7>1. PICK k \in Keys : data'[<<c, First[c], v, k>>] # None
              BY <6>2 DEF Known
            <7>2. CASE data[<<c, First[c], v, k>>] # None
              BY <6>2, <7>2 DEF Wanted, Known
            <7>3. CASE data[<<c, First[c], v, k>>] = None
              <8>1. c = r.comp /\ v = r.ver
                BY <2>3, <4>1, <7>1, <7>3, FetchFacts
              <8> QED
                BY <8>1 DEF Wanted
            <7> QED
              BY <7>2, <7>3
          <6>3. CASE v \in ZeroVersions(data', c)
            BY <4>3, <6>3 DEF Wanted
          <6> QED
            BY <3>1, <4>5, <6>1, <6>2, <6>3 DEF Wanted
        <5>2. Pending(c, v, a) \/ IsSum(data[<<c, a, v, "text">>])
          BY <4>1, <5>1 DEF Covered
        <5> QED
          BY <2>3, <4>1, <4>2, <5>2, FetchFacts DEF Keys
      <4>6. \A v \in seen[c] : LeftOut(c, v, data') <=> LeftOut(c, v, data)'
        BY <3>1 DEF LeftOut, HadSum, Known
      <4>7. Known(data', c) = Known(data, c)'
        BY DEF Known
      <4> QED
        BY <3>1, <4>4, <4>5, <4>6, <4>7 DEF Covered
    <3> QED
      BY <3>1, <3>2 DEF Thorough
  <2>4. CASE Truncate
    BY <2>4 DEF Truncate, Thorough, Covered, Pending, Wanted, LeftOut, HadSum
  <2>5. ASSUME NEW e \in Entries, Edit(e) PROVE Thorough'
    <3>1. UNCHANGED <<pc, data, todo, selected, seen, torn>>
      BY <2>5 DEF Edit, run
    <3>2. ASSUME NEW c \in selected, Covered(c) PROVE Covered(c)'
      <4>1. c \in Components
        BY DEF TypeOK
      <4>2. \A v \in Versions : Wanted(c, v)' => Wanted(c, v)
        BY <2>5, <3>1, <4>1, EditKnown DEF Wanted, Known, ZeroVersions
      <4>3. \A v : LeftOut(c, v, data) => LeftOut(c, v, data)'
        BY <2>5, <3>1, <4>1, EditKnown DEF LeftOut, Known
      <4>4. Known(data, c)' = Known(data, c)
        BY <3>1 DEF Known
      <4> QED
        BY <3>1, <3>2, <4>2, <4>3, <4>4 DEF Covered, Pending
    <3> QED
      BY <3>1, <3>2 DEF Thorough
  <2>6. CASE Restore
    BY <2>6 DEF Restore, Thorough, run
  <2>7. ASSUME NEW d \in Components, NEW w \in Versions, Publish(d, w) PROVE Thorough'
    BY <2>7 DEF Publish, Thorough, Covered, Pending, Wanted, LeftOut, HadSum, run
  <2>8. CASE UNCHANGED vars
    BY <2>8 DEF Thorough, Covered, Pending, Wanted, LeftOut, HadSum, vars, run
  <2> QED
    BY <2>1, <2>2, <2>3, <2>4, <2>5, <2>6, <2>7, <2>8 DEF Next, Script
<1> QED
  BY <1>1, <1>2, TypeCorrect, UntouchedInvariant, FreshInvariant, PTL DEF Spec

\* A run that wrote the file has done all there was to do for its
\* components; a 0 is left under a number only, with the sums beside it.
THEOREM RunsAreThorough == Spec => WrittenMeansFilled
<1> DEFINE Nothing ==
      pc = "writing" /\ pc' = "idle" /\ ~torn' =>
        \A c \in selected :
          /\ \A a \in Archs[c], v \in Versions, k \in Keys :
               file'[<<c, a, v, k>>] = Zero => k = "number" /\ HasSums(file', c, v)
          /\ \A v \in seen[c] \ Known(file', c) : LeftOut(c, v, file')
          /\ \A v \in Known(file', c) \ Known(file, c) : HasSums(file', c, v)
<1>1. TypeOK /\ Untouched /\ Thorough /\ [Next]_vars => [Nothing]_vars
  <2> SUFFICES ASSUME TypeOK, Untouched, Thorough, [Next]_vars,
                      pc = "writing", pc' = "idle", ~torn', NEW c \in selected
               PROVE  /\ \A a \in Archs[c], v \in Versions, k \in Keys :
                           file'[<<c, a, v, k>>] = Zero => k = "number" /\ HasSums(file', c, v)
                      /\ \A v \in seen[c] \ Known(file', c) : LeftOut(c, v, file')
                      /\ \A v \in Known(file', c) \ Known(file, c) : HasSums(file', c, v)
    OBVIOUS
  <2>1. file' = data
    <3>1. Dump \/ torn' = torn
      BY DEF Next, Script, Open, Query, Fetch, Fail, Truncate, Interrupt, Restore, Publish,
             Edit, run, vars
    <3> QED
      BY <3>1 DEF Dump, Thorough
  <2>2. todo = {} /\ Covered(c)
    BY DEF Untouched, Thorough
  <2>3. \A v, a : ~Pending(c, v, a)
    BY <2>2 DEF Pending
  <2>4. \A v \in Known(data, c) : v \in Versions
    BY DEF Known
  <2>5. ASSUME NEW a \in Archs[c], NEW v \in Versions, NEW k \in Keys,
               data[<<c, a, v, k>>] = Zero
        PROVE  k = "number" /\ HasSums(data, c, v)
    <3>1. v \in ZeroVersions(data, c)
      BY <2>5 DEF ZeroVersions
    <3>2. HasSums(data, c, v)
      BY <2>2, <2>3, <3>1 DEF Covered, Wanted, HasSums
    <3> QED
      BY <2>5, <3>2, SumFacts DEF HasSums, Keys
  <2>6. \A v \in Known(data, c) \ Known(file, c) : HasSums(data, c, v)
    BY <2>2, <2>3, <2>4 DEF Covered, Wanted, HasSums
  <2> QED
    BY <2>1, <2>2, <2>3, <2>5, <2>6 DEF Covered
<1> QED
  BY <1>1, TypeCorrect, UntouchedInvariant, ThoroughInvariant, PTL DEF Spec, WrittenMeansFilled
=============================================================================
