---------------------------- MODULE SandboxProofs ----------------------------
(***************************************************************************)
(* Proofs about the files a sandbox shows (JobSetup), for every place of   *)
(* the home directory and of data_dir that PathsAssumption admits.         *)
(***************************************************************************)
EXTENDS JobSetupProofs, SequenceTheorems

\* The names in a path, those that the server chooses among them.
ServerNames == {"usr", "root", "tmp", "jobs", "input", "skills-plugin", "file", "skills",
                "agents", "auth", "status.json", ".ssh", "proxy.sock", "sandbox_inner.sh"}
PathNames == STRING \cup Jobs \cup ServerNames
Paths == Seq(PathNames)

-----------------------------------------------------------------------------
(* Paths                                                                   *)

\* The names that the server chooses are names, and short tuples of names paths.
LEMMA PathTypes ==
  /\ ServerNames \subseteq PathNames /\ Jobs \subseteq PathNames
  /\ Seq(STRING) \subseteq Paths
  /\ << >> \in Paths /\ Len(<< >>) = 0
  /\ \A a \in PathNames : <<a>> \in Paths /\ Len(<<a>>) = 1 /\ <<a>>[1] = a
  /\ \A a, b \in PathNames : <<a, b>> \in Paths /\ Len(<<a, b>>) = 2
  /\ \A a, b, c \in PathNames : <<a, b, c>> \in Paths /\ Len(<<a, b, c>>) = 3
<1>1. /\ ServerNames \subseteq PathNames /\ Jobs \subseteq PathNames
      /\ STRING \subseteq PathNames
  BY DEF PathNames
<1>2. Seq(STRING) \subseteq Paths
  BY <1>1, SeqMonotonic DEF Paths
<1> QED
  BY <1>1, <1>2 DEF Paths


\* A sequence is a prefix of another if their elements agree.
LEMMA PrefixElements ==
  ASSUME NEW S, NEW p \in Seq(S), NEW q \in Seq(S)
  PROVE  IsPrefix(p, q) <=> /\ Len(p) <= Len(q)
                            /\ \A i \in 1..Len(p) : p[i] = q[i]
<1>1. Len(p) \in Nat /\ Len(q) \in Nat
  OBVIOUS
<1>2. ASSUME Len(p) <= Len(q)
      PROVE  SubSeq(p, 1, Len(p)) = SubSeq(q, 1, Len(p))
             <=> \A i \in 1..Len(p) : p[i] = q[i]
  <2> DEFINE a == SubSeq(p, 1, Len(p))
             b == SubSeq(q, 1, Len(p))
  <2>1. /\ a \in Seq(S) /\ b \in Seq(S)
        /\ Len(a) = Len(p) /\ Len(b) = Len(p)
        /\ \A i \in 1..Len(p) : a[i] = p[i]
        /\ \A i \in 1..Len(p) : b[i] = q[i]
    BY <1>1, <1>2
  <2> HIDE DEF a, b
  <2>2. a = b <=> \A i \in 1..Len(p) : a[i] = b[i]
    BY <2>1, SeqEqual
  <2>3. a = b <=> \A i \in 1..Len(p) : p[i] = q[i]
    BY <2>1, <2>2
  <2> QED
    BY <2>3 DEF a, b
<1> QED
  BY <1>1, <1>2 DEF IsPrefix

\* A common prefix does not matter.
LEMMA CommonPrefix ==
  ASSUME NEW S, NEW p \in Seq(S), NEW u \in Seq(S), NEW v \in Seq(S)
  PROVE  IsPrefix(p \o u, p \o v) <=> IsPrefix(u, v)
<1> DEFINE a == p \o u
           b == p \o v
           n == Len(p)
<1>1. /\ a \in Seq(S) /\ b \in Seq(S)
      /\ Len(a) = n + Len(u) /\ Len(b) = n + Len(v)
      /\ \A i \in 1..n : a[i] = p[i] /\ b[i] = p[i]
      /\ \A i \in 1..Len(u) : a[n + i] = u[i]
      /\ \A i \in 1..Len(v) : b[n + i] = v[i]
  OBVIOUS
<1>2. n \in Nat /\ Len(u) \in Nat /\ Len(v) \in Nat
  OBVIOUS
<1> HIDE DEF a, b, n
<1>3. ASSUME IsPrefix(a, b) PROVE IsPrefix(u, v)
  <2>1. Len(a) <= Len(b) /\ \A i \in 1..Len(a) : a[i] = b[i]
    BY <1>1, <1>3, PrefixElements
  <2>2. Len(u) <= Len(v)
    BY <1>1, <1>2, <2>1
  <2>3. ASSUME NEW i \in 1..Len(u) PROVE u[i] = v[i]
    <3>1. n + i \in 1..Len(a) /\ i \in 1..Len(v)
      BY <1>1, <1>2, <2>2
    <3>2. a[n + i] = b[n + i]
      BY <2>1, <3>1
    <3> QED
      BY <1>1, <3>1, <3>2
  <2> QED
    BY <2>2, <2>3, PrefixElements
<1>4. ASSUME IsPrefix(u, v) PROVE IsPrefix(a, b)
  <2>1. Len(u) <= Len(v) /\ \A i \in 1..Len(u) : u[i] = v[i]
    BY <1>4, PrefixElements
  <2>2. ASSUME NEW i \in 1..Len(a) PROVE a[i] = b[i]
    <3>1. CASE i <= n
      BY <1>1, <1>2, <3>1
    <3>2. CASE i > n
      <4> DEFINE k == i - n
      <4>1. k \in 1..Len(u) /\ k \in 1..Len(v) /\ i = n + k
        BY <1>1, <1>2, <2>1, <3>2
      <4> HIDE DEF k
      <4> QED
        BY <1>1, <2>1, <4>1
    <3> QED
      BY <1>1, <1>2, <3>1, <3>2
  <2>3. Len(a) <= Len(b)
    BY <1>1, <1>2, <2>1
  <2> QED
    BY <1>1, <2>2, <2>3, PrefixElements
<1> QED
  BY <1>3, <1>4 DEF a, b

\* The same of paths.
LEMMA PathPrefix ==
  ASSUME NEW p \in Paths, NEW q \in Paths
  PROVE  /\ Len(p) \in Nat /\ Len(q) \in Nat
         /\ IsPrefix(p, q) <=> /\ Len(p) <= Len(q)
                               /\ \A i \in 1..Len(p) : p[i] = q[i]
BY PrefixElements DEF Paths

\* What is in the concatenation of two paths.
LEMMA PathConcat ==
  ASSUME NEW p \in Paths, NEW q \in Paths
  PROVE  /\ Len(p) \in Nat /\ Len(q) \in Nat
         /\ p \o q \in Paths /\ Len(p \o q) = Len(p) + Len(q)
         /\ \A i \in 1..Len(p) : (p \o q)[i] = p[i]
         /\ \A i \in 1..Len(q) : (p \o q)[Len(p) + i] = q[i]
         /\ IsPrefix(p, p \o q)
<1>1. /\ Len(p) \in Nat /\ Len(q) \in Nat
      /\ p \o q \in Paths /\ Len(p \o q) = Len(p) + Len(q)
      /\ \A i \in 1..Len(p) : (p \o q)[i] = p[i]
      /\ \A i \in 1..Len(q) : (p \o q)[Len(p) + i] = q[i]
  BY DEF Paths
<1> DEFINE pq == p \o q
<1> HIDE DEF pq
<1>2. pq \in Paths /\ Len(p) <= Len(pq) /\ \A i \in 1..Len(p) : p[i] = pq[i]
  BY <1>1 DEF pq
<1>3. IsPrefix(p, pq)
  BY <1>2, PathPrefix
<1> QED
  BY <1>1, <1>3 DEF pq

\* CommonPrefix and the laws of concatenation, for paths.
LEMMA PathUnder ==
  ASSUME NEW p \in Paths, NEW u \in Paths, NEW v \in Paths
  PROVE  IsPrefix(p \o u, p \o v) <=> IsPrefix(u, v)
BY CommonPrefix DEF Paths

LEMMA PathAssociative ==
  /\ \A p, q, r \in Paths : (p \o q) \o r = p \o (q \o r)
  /\ \A p \in Paths : p \o << >> = p
BY ConcatAssociative, ConcatEmptySeq DEF Paths

\* A path shows what the last mount at or above it shows.
LEMMA ShownAt ==
  ASSUME NEW mounts, NEW n \in Nat, DOMAIN mounts = 1..n, NEW path,
         NEW i \in 1..n, IsPrefix(mounts[i].at, path),
         \A k \in 1..n : k > i => ~IsPrefix(mounts[k].at, path)
  PROVE  Shown(mounts, path) = mounts[i].as
<1> DEFINE above == {k \in DOMAIN mounts : IsPrefix(mounts[k].at, path)}
           last == CHOOSE k \in above : \A m \in above : m <= k
<1>1. i \in above /\ \A m \in above : m <= i /\ m \in Nat
  OBVIOUS
<1>2. last \in above /\ \A m \in above : m <= last
  BY <1>1
<1>3. last = i
  BY <1>1, <1>2
<1> QED
  BY <1>3 DEF Shown

-----------------------------------------------------------------------------
(* Mounts                                                                  *)

\* The mounts in their order: the private directories, the plugin directory if
\* there is a skill, the job's input, and what an isolated job gets in /tmp.
InputAt == IF "skills" \in settings.plugin THEN 7 ELSE 6
MountCount(isolated) == IF isolated THEN InputAt + 2 ELSE InputAt

\* What BwrapMounts lists.
LEMMA MountList ==
  ASSUME NEW j, NEW isolated \in BOOLEAN, NEW mounts, mounts = BwrapMounts(j, isolated)
  PROVE  /\ DOMAIN mounts = 1..MountCount(isolated)
         /\ mounts[1] = Mount(<< >>, "ro")
         /\ mounts[2] = Mount(Home, "empty") /\ mounts[3] = Mount(<<"root">>, "empty")
         /\ mounts[4] = Mount(<<"tmp">>, "empty")
         /\ mounts[5] = Mount(settings.data, "empty")
         /\ InputAt = 7 => mounts[6] = Mount(PluginDir, "ro")
         /\ mounts[InputAt] = Mount(InputDir(j), "rw")
         /\ isolated => /\ mounts[InputAt + 1].at = <<"tmp", "proxy.sock">>
                        /\ mounts[InputAt + 2].at = <<"tmp", "sandbox_inner.sh">>
<1> DEFINE base == <<Mount(<< >>, "ro")>> \o EmptyDirs \o PluginBind
                     \o <<Mount(InputDir(j), "rw")>>
           files == <<[at |-> <<"tmp", "proxy.sock">>, as |-> "rw",
                       of |-> JobDir(j) \o <<"proxy.sock">>],
                      [at |-> <<"tmp", "sandbox_inner.sh">>, as |-> "ro",
                       of |-> JobDir(j) \o <<"sandbox_inner.sh">>]>>
<1>1. mounts = base \o (IF isolated THEN files ELSE << >>)
  BY DEF BwrapMounts
<1> DEFINE set == {Mount(<< >>, "ro"), Mount(Home, "empty"), Mount(<<"root">>, "empty"),
                   Mount(<<"tmp">>, "empty"), Mount(settings.data, "empty"),
                   Mount(PluginDir, "ro"), Mount(InputDir(j), "rw"), files[1], files[2]}
<1>2. /\ base \in Seq(set) /\ Len(base) = InputAt /\ InputAt \in {6, 7}
      /\ base[1] = Mount(<< >>, "ro")
      /\ base[2] = Mount(Home, "empty") /\ base[3] = Mount(<<"root">>, "empty")
      /\ base[4] = Mount(<<"tmp">>, "empty")
      /\ base[5] = Mount(settings.data, "empty")
      /\ InputAt = 7 => base[6] = Mount(PluginDir, "ro")
      /\ base[InputAt] = Mount(InputDir(j), "rw")
  <2>1. CASE "skills" \in settings.plugin
    BY <2>1 DEF InputAt, EmptyDirs, PluginBind, Mount
  <2>2. CASE "skills" \notin settings.plugin
    BY <2>2 DEF InputAt, EmptyDirs, PluginBind, Mount
  <2> QED
    BY <2>1, <2>2
<1>3. /\ files \in Seq(set) /\ Len(files) = 2
      /\ files[1].at = <<"tmp", "proxy.sock">>
      /\ files[2].at = <<"tmp", "sandbox_inner.sh">>
  OBVIOUS
<1> HIDE DEF base, files, set
<1>4. CASE isolated
  <2>1. mounts = base \o files
    BY <1>1, <1>4
  <2> DEFINE n == InputAt
  <2>2. n \in Nat /\ Len(base) = n /\ n + 1 > n /\ n + 2 > n
    BY <1>2
  <2> HIDE DEF n
  <2>3. /\ base \o files \in Seq(set)
        /\ Len(base \o files) = Len(base) + Len(files)
        /\ \A i \in 1..(Len(base) + Len(files)) :
             (base \o files)[i] = IF i <= Len(base) THEN base[i] ELSE files[i - Len(base)]
    BY <1>2, <1>3, ConcatProperties
  <2>4. /\ mounts \in Seq(set) /\ Len(mounts) = n + 2
        /\ \A i \in 1..(n + 2) :
             mounts[i] = IF i <= n THEN base[i] ELSE files[i - n]
    BY <1>3, <2>1, <2>2, <2>3
  <2>5. \A i \in 1..n : mounts[i] = base[i]
    BY <2>2, <2>4
  <2>6. mounts[n + 1] = files[1] /\ mounts[n + 2] = files[2]
    <3>1. /\ n + 1 \in 1..(n + 2) /\ ~(n + 1 <= n) /\ (n + 1) - n = 1
          /\ n + 2 \in 1..(n + 2) /\ ~(n + 2 <= n) /\ (n + 2) - n = 2
      BY <2>2
    <3> QED
      BY <2>4, <3>1
  <2>7. DOMAIN mounts = 1..(n + 2)
    BY <2>2, <2>4
  <2>8. /\ \A i \in 1..InputAt : mounts[i] = base[i]
        /\ mounts[InputAt + 1] = files[1] /\ mounts[InputAt + 2] = files[2]
        /\ DOMAIN mounts = 1..MountCount(isolated)
    BY <1>4, <2>5, <2>6, <2>7 DEF n, MountCount
  <2> QED
    BY <1>2, <1>3, <2>8
<1>5. CASE ~isolated
  <2>1. mounts = base
    BY <1>1, <1>2, <1>5, ConcatEmptySeq
  <2> QED
    BY <1>2, <1>5, <2>1 DEF MountCount
<1> QED
  BY <1>4, <1>5
-----------------------------------------------------------------------------
(* What is shown                                                           *)

\* A file that a sandbox gets in /tmp is not at or above a path in a directory,
\* unless it is at or above the directory or the path begins with its name.
LEMMA FileApart ==
  ASSUME NEW file \in ServerNames, NEW dir \in Paths, NEW path \in Paths, Len(dir) >= 1,
         ~IsPrefix(<<"tmp", file>>, dir), Len(path) >= 1 => path[1] # file
  PROVE  ~IsPrefix(<<"tmp", file>>, dir \o path)
<1> DEFINE f == <<"tmp", file>>
           q == dir \o path
<1>1. f \in Paths /\ Len(f) = 2 /\ f[1] = "tmp" /\ f[2] = file
  BY PathTypes DEF ServerNames
<1>2. /\ q \in Paths /\ Len(q) = Len(dir) + Len(path)
      /\ \A i \in 1..Len(q) : q[i] = IF i <= Len(dir) THEN dir[i] ELSE path[i - Len(dir)]
  BY PathConcat
<1> DEFINE n == Len(dir)
<1>3. n \in Nat /\ Len(path) \in Nat /\ n >= 1
  BY PathConcat
<1> SUFFICES ASSUME IsPrefix(f, q) PROVE FALSE
  OBVIOUS
<1> HIDE DEF f, q, n
<1>4. Len(q) >= 2 /\ q[1] = "tmp" /\ q[2] = file
  <2>1. Len(f) <= Len(q) /\ \A i \in 1..Len(f) : f[i] = q[i]
    BY <1>1, <1>2, PathPrefix
  <2> QED
    BY <1>1, <2>1
<1>5. CASE n >= 2
  <2>1. dir[1] = "tmp" /\ dir[2] = file
    BY <1>2, <1>3, <1>4, <1>5 DEF n
  <2>2. Len(f) <= Len(dir) /\ \A i \in 1..Len(f) : f[i] = dir[i]
    <3>1. \A i \in 1..2 : i = 1 \/ i = 2
      OBVIOUS
    <3> QED
      BY <1>1, <1>5, <2>1, <3>1 DEF n
  <2>3. IsPrefix(f, dir)
    BY <1>1, <2>2, PathPrefix
  <2> QED
    BY <2>3 DEF f
<1>6. CASE n = 1
  <2>1. q[2] = path[1] /\ Len(path) >= 1
    BY <1>2, <1>3, <1>4, <1>6 DEF n
  <2> QED
    BY <1>4, <2>1
<1>7. n >= 2 \/ n = 1
  BY <1>3
<1> QED
  BY <1>5, <1>6, <1>7

\* What PathsAssumption says of the settings in force.
LEMMA Located ==
  ASSUME settings \in Settings
  PROVE  /\ Home \in Paths /\ settings.data \in Paths
         /\ \A path \in {Home, settings.data} :
              /\ Len(path) >= 1 /\ (Len(path) = 1 => path[1] # "usr")
              /\ \A file \in {"proxy.sock", "sandbox_inner.sh"} :
                   ~IsPrefix(<<"tmp", file>>, path)
         /\ ~IsPrefix(settings.data \o <<"jobs">>, Home)
         /\ ~IsPrefix(settings.data \o <<"skills-plugin">>, Home)
<1>2. Home \in Paths /\ settings.data \in Paths
  BY PathTypes, PathsAssumption
<1>3. ASSUME NEW path \in {Home, settings.data}
      PROVE  /\ Len(path) >= 1 /\ (Len(path) = 1 => path[1] # "usr")
             /\ \A file \in {"proxy.sock", "sandbox_inner.sh"} :
                  ~IsPrefix(<<"tmp", file>>, path)
  <2>1. path \in {Home} \cup {s.data : s \in Settings}
    OBVIOUS
  <2>2. /\ ~IsPrefix(path, <<"usr">>)
        /\ \A file \in {"proxy.sock", "sandbox_inner.sh"} :
             ~IsPrefix(<<"tmp", file>>, path)
    BY <2>1, PathsAssumption
  <2>3. path \in Paths /\ <<"usr">> \in Paths /\ Len(<<"usr">>) = 1
    BY <1>2, PathTypes DEF ServerNames
  <2>4. ~(Len(path) <= 1 /\ \A i \in 1..Len(path) : path[i] = <<"usr">>[i])
    BY <2>2, <2>3, PathPrefix
  <2>5. Len(path) \in Nat
    BY <2>3 DEF Paths
  <2> QED
    BY <2>2, <2>4, <2>5
<1> QED
  BY <1>2, <1>3, PathsAssumption

\* The directories of data_dir that are mounted.
LEMMA DataPaths ==
  ASSUME settings \in Settings, NEW j \in Jobs, NEW n, n = Len(settings.data)
  PROVE  /\ n \in Nat /\ n >= 1 /\ settings.data \in Paths
         /\ PluginDir \in Paths /\ Len(PluginDir) = n + 1
         /\ PluginDir[n + 1] = "skills-plugin"
         /\ settings.data \o <<"jobs">> \in Paths /\ Len(settings.data \o <<"jobs">>) = n + 1
         /\ (settings.data \o <<"jobs">>)[n + 1] = "jobs"
         /\ InputDir(j) \in Paths /\ Len(InputDir(j)) = n + 3
         /\ InputDir(j)[n + 1] = "jobs" /\ InputDir(j)[n + 3] = "input"
         /\ \A i \in 1..n : InputDir(j)[i] = (settings.data \o <<"jobs">>)[i]
<1> DEFINE data == settings.data
           plugin == <<"skills-plugin">>
           jobs == <<"jobs">>
           input == <<"jobs", j, "input">>
<1>1. data \in Paths /\ Len(data) = n /\ n >= 1
  BY Located
<1>2. /\ plugin \in Paths /\ Len(plugin) = 1 /\ plugin[1] = "skills-plugin"
      /\ jobs \in Paths /\ Len(jobs) = 1 /\ jobs[1] = "jobs"
      /\ input \in Paths /\ Len(input) = 3 /\ input[1] = "jobs" /\ input[3] = "input"
  BY PathTypes DEF ServerNames
<1>3. PluginDir = data \o plugin /\ InputDir(j) = data \o input
  BY DEF PluginDir, InputDir
<1> HIDE DEF data, plugin, jobs, input
<1>4. ASSUME NEW u \in Paths
      PROVE  /\ n \in Nat /\ data \o u \in Paths /\ Len(data \o u) = n + Len(u)
             /\ \A i \in 1..n : (data \o u)[i] = data[i]
             /\ \A i \in 1..Len(u) : (data \o u)[n + i] = u[i]
  <2>1. /\ Len(data) \in Nat
        /\ data \o u \in Paths /\ Len(data \o u) = Len(data) + Len(u)
        /\ \A i \in 1..Len(data) : (data \o u)[i] = data[i]
        /\ \A i \in 1..Len(u) : (data \o u)[Len(data) + i] = u[i]
    BY <1>1, PathConcat
  <2> QED
    BY <1>1, <2>1
<1>5. 1 \in 1..1 /\ 1 \in 1..3 /\ 3 \in 1..3
  OBVIOUS
<1>6. /\ (data \o plugin)[n + 1] = "skills-plugin" /\ (data \o jobs)[n + 1] = "jobs"
      /\ (data \o input)[n + 1] = "jobs" /\ (data \o input)[n + 3] = "input"
  BY <1>2, <1>4, <1>5
<1>7. \A i \in 1..n : (data \o input)[i] = (data \o jobs)[i]
  BY <1>2, <1>4
<1>8. /\ n \in Nat /\ data \o plugin \in Paths /\ Len(data \o plugin) = n + 1
      /\ data \o jobs \in Paths /\ Len(data \o jobs) = n + 1
      /\ data \o input \in Paths /\ Len(data \o input) = n + 3
  BY <1>2, <1>4
<1>9. data \o jobs = settings.data \o <<"jobs">> /\ data = settings.data
  BY DEF data, jobs
<1> QED
  BY <1>1, <1>3, <1>6, <1>7, <1>8, <1>9

\* What a sandbox shows in data_dir: the job's input for writing, the plugin
\* directory read-only if there is a skill, and nothing else.
LEMMA ShownInData ==
  ASSUME settings \in Settings, NEW j \in Jobs, NEW isolated \in BOOLEAN,
         NEW path \in Paths, Len(path) >= 1,
         path[1] \notin {"proxy.sock", "sandbox_inner.sh"}
  PROVE  Shown(BwrapMounts(j, isolated), settings.data \o path) =
           IF IsPrefix(<<"jobs", j, "input">>, path) THEN "rw"
           ELSE IF "skills" \in settings.plugin /\ IsPrefix(<<"skills-plugin">>, path)
                THEN "ro" ELSE "empty"
<1> DEFINE mounts == BwrapMounts(j, isolated)
           n == MountCount(isolated)
           b == InputAt
           q == settings.data \o path
           input == <<"jobs", j, "input">>
           plugin == <<"skills-plugin">>
<1>1. /\ DOMAIN mounts = 1..n
      /\ mounts[5] = Mount(settings.data, "empty")
      /\ b = 7 => mounts[6] = Mount(PluginDir, "ro")
      /\ mounts[b] = Mount(InputDir(j), "rw")
      /\ isolated => /\ mounts[b + 1].at = <<"tmp", "proxy.sock">>
                     /\ mounts[b + 2].at = <<"tmp", "sandbox_inner.sh">>
  BY MountList
<1>2. /\ b \in {6, 7} /\ n \in Nat /\ n = IF isolated THEN b + 2 ELSE b
      /\ b = 7 <=> "skills" \in settings.plugin
  BY DEF InputAt, MountCount
<1>3. /\ settings.data \in Paths /\ path \in Paths
      /\ input \in Paths /\ plugin \in Paths /\ << >> \in Paths
  BY Located, PathTypes DEF ServerNames
<1>4. /\ IsPrefix(InputDir(j), q) <=> IsPrefix(input, path)
      /\ IsPrefix(PluginDir, q) <=> IsPrefix(plugin, path)
  BY <1>3, PathUnder DEF InputDir, PluginDir
<1>5. IsPrefix(settings.data, q)
  BY <1>3, PathConcat
<1>6. \A file \in {"proxy.sock", "sandbox_inner.sh"} : ~IsPrefix(<<"tmp", file>>, q)
  <2>1. {"proxy.sock", "sandbox_inner.sh"} \subseteq ServerNames
    BY DEF ServerNames
  <2> QED
    BY <2>1, Located, FileApart
<1>7. ~(IsPrefix(input, path) /\ IsPrefix(plugin, path))
  <2>1. input[1] # plugin[1] /\ Len(input) = 3 /\ Len(plugin) = 1
    OBVIOUS
  <2> HIDE DEF input, plugin
  <2>2. IsPrefix(input, path) => input[1] = path[1]
    BY <1>3, <2>1, PathPrefix
  <2>3. IsPrefix(plugin, path) => plugin[1] = path[1]
    <3>1. IsPrefix(plugin, path) => \A i \in 1..Len(plugin) : plugin[i] = path[i]
      BY <1>3, PathPrefix
    <3> QED
      BY <2>1, <3>1
  <2> QED
    BY <2>1, <2>2, <2>3
<1>8. /\ Mount(InputDir(j), "rw").at = InputDir(j) /\ Mount(InputDir(j), "rw").as = "rw"
      /\ Mount(PluginDir, "ro").at = PluginDir /\ Mount(PluginDir, "ro").as = "ro"
      /\ Mount(settings.data, "empty").at = settings.data
      /\ Mount(settings.data, "empty").as = "empty"
  BY DEF Mount
<1> HIDE DEF mounts, n, b, q, input, plugin
<1>9. \A k \in 1..n : k > b => ~IsPrefix(mounts[k].at, q)
  <2> SUFFICES ASSUME NEW k \in 1..n, k > b PROVE ~IsPrefix(mounts[k].at, q)
    OBVIOUS
  <2>1. isolated /\ k \in {b + 1, b + 2}
    BY <1>2
  <2> QED
    BY <1>1, <1>6, <2>1
<1>10. CASE IsPrefix(input, path)
  <2>1. Shown(mounts, q) = mounts[b].as
    BY <1>1, <1>2, <1>4, <1>8, <1>9, <1>10, ShownAt
  <2> QED
    BY <1>1, <1>8, <1>10, <2>1 DEF mounts, q, input
<1>11. CASE ~IsPrefix(input, path) /\ b = 7 /\ IsPrefix(plugin, path)
  <2>1. \A k \in 1..n : k > 6 => ~IsPrefix(mounts[k].at, q)
    BY <1>1, <1>2, <1>4, <1>8, <1>9, <1>11
  <2>2. Shown(mounts, q) = mounts[6].as
    BY <1>1, <1>2, <1>4, <1>8, <1>11, <2>1, ShownAt
  <2> QED
    BY <1>1, <1>2, <1>8, <1>11, <2>2 DEF mounts, q, input, plugin
<1>12. CASE ~IsPrefix(input, path) /\ ~(b = 7 /\ IsPrefix(plugin, path))
  <2>1. \A k \in 1..n : k > 5 => ~IsPrefix(mounts[k].at, q)
    <3> SUFFICES ASSUME NEW k \in 1..n, k > 5 PROVE ~IsPrefix(mounts[k].at, q)
      OBVIOUS
    <3>1. k > b \/ k = b \/ (b = 7 /\ k = 6)
      BY <1>2
    <3> QED
      BY <1>1, <1>4, <1>8, <1>9, <1>12, <3>1
  <2>2. Shown(mounts, q) = mounts[5].as
    BY <1>1, <1>2, <1>5, <1>8, <2>1, ShownAt
  <2> QED
    BY <1>1, <1>2, <1>8, <1>12, <2>2 DEF mounts, q, input, plugin
<1> QED
  BY <1>10, <1>11, <1>12

\* The home directory is hidden, but for what a job is given there.
LEMMA ShownInHome ==
  ASSUME settings \in Settings, NEW j \in Jobs, NEW isolated \in BOOLEAN
  PROVE  Shown(BwrapMounts(j, isolated), Home \o <<".ssh">>) = "empty"
<1> DEFINE mounts == BwrapMounts(j, isolated)
           n == MountCount(isolated)
           b == InputAt
           file == <<".ssh">>
           q == Home \o file
<1>1. /\ DOMAIN mounts = 1..n
      /\ mounts[2] = Mount(Home, "empty") /\ mounts[3] = Mount(<<"root">>, "empty")
      /\ mounts[4] = Mount(<<"tmp">>, "empty")
      /\ mounts[5] = Mount(settings.data, "empty")
      /\ b = 7 => mounts[6] = Mount(PluginDir, "ro")
      /\ mounts[b] = Mount(InputDir(j), "rw")
      /\ isolated => /\ mounts[b + 1].at = <<"tmp", "proxy.sock">>
                     /\ mounts[b + 2].at = <<"tmp", "sandbox_inner.sh">>
  BY MountList
<1>2. b \in {6, 7} /\ n \in Nat /\ n = IF isolated THEN b + 2 ELSE b
  BY DEF InputAt, MountCount
<1>3. /\ Home \in Paths /\ settings.data \in Paths
      /\ file \in Paths /\ << >> \in Paths /\ q \in Paths
      /\ Len(file) = 1 /\ file[1] = ".ssh"
  BY Located, PathTypes, PathConcat DEF ServerNames
<1>4. IsPrefix(Home, q)
  BY <1>3, PathConcat
<1>5. \A f \in {"proxy.sock", "sandbox_inner.sh"} : ~IsPrefix(<<"tmp", f>>, q)
  <2>1. {"proxy.sock", "sandbox_inner.sh"} \subseteq ServerNames
    BY DEF ServerNames
  <2> QED
    BY <1>3, <2>1, Located, FileApart
\* A path whose last name is not the file's is at or above it only if it is at or
\* above Home.
<1>6. ASSUME NEW p \in Paths, Len(p) >= 1, p[Len(p)] # ".ssh", IsPrefix(p, q)
      PROVE  IsPrefix(p, Home)
  <2>1. /\ Len(q) = Len(Home) + 1 /\ q[Len(q)] = ".ssh"
        /\ \A i \in 1..Len(Home) : q[i] = Home[i]
        /\ Len(p) \in Nat /\ Len(Home) \in Nat
    BY <1>3, PathConcat
  <2> HIDE DEF q
  <2>2. Len(p) <= Len(q) /\ \A i \in 1..Len(p) : p[i] = q[i]
    BY <1>3, <1>6, PathPrefix
  <2> DEFINE m == Len(p)
             h == Len(Home)
  <2>3. m # h + 1
    BY <1>6, <2>1, <2>2
  <2>4. m <= h /\ m \in Nat /\ h \in Nat /\ \A i \in 1..m : p[i] = q[i]
    BY <2>1, <2>2, <2>3
  <2> HIDE DEF m, h
  <2>5. \A i \in 1..m : i \in 1..h
    BY <2>4
  <2>6. \A i \in 1..m : p[i] = Home[i]
    BY <2>1, <2>4, <2>5 DEF h
  <2> QED
    BY <1>3, <2>4, <2>6, PathPrefix DEF m, h
<1>7. ~IsPrefix(PluginDir, q)
  <2> DEFINE d == Len(settings.data)
  <2>1. d \in Nat /\ PluginDir \in Paths /\ Len(PluginDir) = d + 1
        /\ PluginDir[d + 1] = "skills-plugin"
    BY DataPaths
  <2> HIDE DEF d
  <2>2. ~IsPrefix(PluginDir, Home)
    BY Located DEF PluginDir
  <2>3. d + 1 >= 1
    BY <2>1
  <2> QED
    BY <1>6, <2>1, <2>2, <2>3
<1>8. ~IsPrefix(InputDir(j), q)
  <2> DEFINE d == Len(settings.data)
             jobs == settings.data \o <<"jobs">>
             in == InputDir(j)
  <2>1. /\ d \in Nat /\ jobs \in Paths /\ Len(jobs) = d + 1 /\ jobs[d + 1] = "jobs"
        /\ in \in Paths /\ Len(in) = d + 3 /\ in[d + 1] = "jobs" /\ in[d + 3] = "input"
        /\ \A i \in 1..d : in[i] = jobs[i]
    BY DataPaths
  <2> SUFFICES ASSUME IsPrefix(in, q) PROVE FALSE
    OBVIOUS
  <2>2. ~IsPrefix(jobs, Home)
    BY Located
  <2> HIDE DEF d, jobs, in
  <2>3. d + 3 >= 1 /\ d + 1 <= d + 3 /\ d + 3 # d + 1
    BY <2>1
  <2>4. IsPrefix(in, Home)
    BY <1>6, <2>1, <2>3
  <2>5. Len(in) <= Len(Home) /\ Len(Home) \in Nat /\ \A i \in 1..Len(in) : in[i] = Home[i]
    BY <1>3, <2>1, <2>4, PathPrefix
  <2>6. ASSUME NEW i \in 1..Len(jobs) PROVE jobs[i] = Home[i]
    <3>1. i \in 1..d \/ i = d + 1
      BY <2>1
    <3>2. in[i] = jobs[i]
      BY <2>1, <3>1
    <3>3. i \in 1..Len(in)
      BY <2>1
    <3> QED
      BY <2>5, <3>2, <3>3
  <2>7. Len(jobs) <= Len(Home)
    BY <2>1, <2>5
  <2>8. IsPrefix(jobs, Home)
    BY <1>3, <2>1, <2>6, <2>7, PathPrefix
  <2> QED
    BY <2>2, <2>8
<1>9. \A k \in 1..n : k > 5 => ~IsPrefix(mounts[k].at, q)
  <2> SUFFICES ASSUME NEW k \in 1..n, k > 5 PROVE ~IsPrefix(mounts[k].at, q)
    OBVIOUS
  <2>1. k = b \/ (b = 7 /\ k = 6) \/ (isolated /\ k \in {b + 1, b + 2})
    BY <1>2
  <2>2. Mount(InputDir(j), "rw").at = InputDir(j) /\ Mount(PluginDir, "ro").at = PluginDir
    BY DEF Mount
  <2> HIDE DEF mounts, n, b, q
  <2> QED
    BY <1>1, <1>5, <1>7, <1>8, <2>1, <2>2
<1>10. mounts[2].at = Home /\ \A k \in 2..5 : mounts[k].as = "empty"
  <2>1. \A k \in 2..5 : k = 2 \/ k = 3 \/ k = 4 \/ k = 5
    OBVIOUS
  <2> HIDE DEF mounts
  <2> QED
    BY <1>1, <2>1 DEF Mount
<1> HIDE DEF mounts, n, b, q
<1>11. \E i \in 2..5 : IsPrefix(mounts[i].at, q)
                      /\ \A k \in 1..n : k > i => ~IsPrefix(mounts[k].at, q)
  <2>1. \A k \in 1..n : k > 2 => k = 3 \/ k = 4 \/ k = 5 \/ k > 5
    BY <1>2
  <2> QED
    BY <1>4, <1>9, <1>10, <2>1
<1>12. PICK i \in 2..5 : IsPrefix(mounts[i].at, q)
                       /\ \A k \in 1..n : k > i => ~IsPrefix(mounts[k].at, q)
  BY <1>11
<1>13. Shown(mounts, q) = mounts[i].as
  <2>1. i \in 1..n
    BY <1>2
  <2> QED
    BY <1>1, <1>2, <1>12, <2>1, ShownAt
<1> QED
  BY <1>10, <1>12, <1>13 DEF mounts, q

\* The rest of the file system is read-only.
LEMMA ShownUsr ==
  ASSUME settings \in Settings, NEW j \in Jobs, NEW isolated \in BOOLEAN
  PROVE  Shown(BwrapMounts(j, isolated), <<"usr">>) = "ro"
<1> DEFINE mounts == BwrapMounts(j, isolated)
           n == MountCount(isolated)
           b == InputAt
           q == <<"usr">>
<1>1. /\ DOMAIN mounts = 1..n
      /\ mounts[1] = Mount(<< >>, "ro")
      /\ mounts[2] = Mount(Home, "empty") /\ mounts[3] = Mount(<<"root">>, "empty")
      /\ mounts[4] = Mount(<<"tmp">>, "empty")
      /\ mounts[5] = Mount(settings.data, "empty")
      /\ b = 7 => mounts[6] = Mount(PluginDir, "ro")
      /\ mounts[b] = Mount(InputDir(j), "rw")
      /\ isolated => /\ mounts[b + 1].at = <<"tmp", "proxy.sock">>
                     /\ mounts[b + 2].at = <<"tmp", "sandbox_inner.sh">>
  BY MountList
<1>2. b \in {6, 7} /\ n \in Nat /\ n = IF isolated THEN b + 2 ELSE b
  BY DEF InputAt, MountCount
<1>3. q \in Paths /\ Len(q) = 1 /\ q[1] = "usr"
  BY PathTypes DEF ServerNames
<1> HIDE DEF mounts, n, b, q
<1>4. ASSUME NEW p \in Paths, Len(p) >= 1, Len(p) = 1 => p[1] # "usr"
      PROVE  ~IsPrefix(p, q)
  <2>1. Len(p) \in Nat
    OBVIOUS
  <2> QED
    BY <1>3, <1>4, <2>1, PathPrefix
<1>5. ~IsPrefix(Home, q) /\ ~IsPrefix(settings.data, q)
  BY <1>4, Located
<1>6. ~IsPrefix(<<"root">>, q) /\ ~IsPrefix(<<"tmp">>, q)
  <2>1. <<"root">> \in Paths /\ <<"tmp">> \in Paths
    BY PathTypes DEF ServerNames
  <2> QED
    BY <1>4, <2>1
<1>7. ~IsPrefix(<<"tmp", "proxy.sock">>, q) /\ ~IsPrefix(<<"tmp", "sandbox_inner.sh">>, q)
  <2>1. <<"tmp", "proxy.sock">> \in Paths
        /\ <<"tmp", "sandbox_inner.sh">> \in Paths
    BY PathTypes DEF ServerNames
  <2> QED
    BY <1>4, <2>1
<1>8. ~IsPrefix(PluginDir, q) /\ ~IsPrefix(InputDir(j), q)
  <2> DEFINE d == Len(settings.data)
  <2>1. /\ d \in Nat /\ d >= 1 /\ PluginDir \in Paths /\ Len(PluginDir) = d + 1
        /\ InputDir(j) \in Paths /\ Len(InputDir(j)) = d + 3
    BY DataPaths
  <2> HIDE DEF d
  <2>2. d + 1 >= 1 /\ d + 1 # 1 /\ d + 3 >= 1 /\ d + 3 # 1
    BY <2>1
  <2> QED
    BY <1>4, <2>1, <2>2
<1>9. IsPrefix(<< >>, q)
  <2>1. << >> \in Paths /\ Len(<< >>) = 0
    BY PathTypes
  <2> QED
    BY <1>3, <2>1, PathPrefix
<1>10. \A k \in 1..n : k > 1 => ~IsPrefix(mounts[k].at, q)
  <2> SUFFICES ASSUME NEW k \in 1..n, k > 1 PROVE ~IsPrefix(mounts[k].at, q)
    OBVIOUS
  <2>1. \/ k = 2 \/ k = 3 \/ k = 4 \/ k = 5 \/ k = b \/ (b = 7 /\ k = 6)
        \/ (isolated /\ k \in {b + 1, b + 2})
    BY <1>2
  <2>2. \A at, as : Mount(at, as).at = at
    BY DEF Mount
  <2> QED
    BY <1>1, <1>5, <1>6, <1>7, <1>8, <2>1, <2>2
<1>11. Shown(mounts, q) = mounts[1].as
  <2>1. mounts[1].at = << >> /\ 1 \in 1..n
    BY <1>1, <1>2 DEF Mount
  <2> QED
    BY <1>1, <1>2, <1>9, <1>10, <2>1, ShownAt
<1> QED
  BY <1>1, <1>11 DEF mounts, q, Mount
\* Which paths in data_dir are in what a job is given.
LEMMA GivenPaths ==
  ASSUME NEW j \in Jobs, NEW path \in Paths
  PROVE  /\ IsPrefix(<<"jobs", j, "input">>, path)
            <=> Len(path) >= 3 /\ path[1] = "jobs" /\ path[2] = j /\ path[3] = "input"
         /\ IsPrefix(<<"skills-plugin">>, path)
            <=> Len(path) >= 1 /\ path[1] = "skills-plugin"
<1> DEFINE input == <<"jobs", j, "input">>
           plugin == <<"skills-plugin">>
<1>1. /\ input \in Paths /\ Len(input) = 3 /\ input[1] = "jobs" /\ input[2] = j
      /\ input[3] = "input"
      /\ plugin \in Paths /\ Len(plugin) = 1 /\ plugin[1] = "skills-plugin"
  BY PathTypes DEF ServerNames
<1> HIDE DEF input, plugin
<1>2. /\ Len(path) \in Nat
      /\ IsPrefix(input, path) <=> 3 <= Len(path) /\ \A i \in 1..3 : input[i] = path[i]
      /\ IsPrefix(plugin, path) <=> 1 <= Len(path) /\ \A i \in 1..1 : plugin[i] = path[i]
  BY <1>1, PathPrefix
<1>3. /\ \A i \in 1..3 : i = 1 \/ i = 2 \/ i = 3
      /\ 1 \in 1..3 /\ 2 \in 1..3 /\ 3 \in 1..3 /\ 1 \in 1..1 /\ \A i \in 1..1 : i = 1
  OBVIOUS
<1>4. IsPrefix(input, path)
         <=> Len(path) >= 3 /\ path[1] = "jobs" /\ path[2] = j /\ path[3] = "input"
  BY <1>1, <1>2, <1>3
<1>5. IsPrefix(plugin, path) <=> Len(path) >= 1 /\ path[1] = "skills-plugin"
  BY <1>1, <1>2, <1>3
<1> QED
  BY <1>4, <1>5 DEF input, plugin

\* What a sandbox shows of a path in data_dir, by the first names of the path.
LEMMA ShownByName ==
  ASSUME settings \in Settings, NEW j \in Jobs, NEW isolated \in BOOLEAN,
         NEW p \in Paths, NEW name \in PathNames,
         Len(p) >= 1 => p[1] \in {"jobs", "skills-plugin"},
         Len(p) = 0 => name \notin {"proxy.sock", "sandbox_inner.sh"}
  PROVE  Shown(BwrapMounts(j, isolated), (settings.data \o p) \o <<name>>) =
           IF \/ Len(p) >= 3 /\ p[1] = "jobs" /\ p[2] = j /\ p[3] = "input"
              \/ Len(p) = 2 /\ p[1] = "jobs" /\ p[2] = j /\ name = "input"
           THEN "rw"
           ELSE IF /\ "skills" \in settings.plugin
                   /\ \/ Len(p) >= 1 /\ p[1] = "skills-plugin"
                      \/ Len(p) = 0 /\ name = "skills-plugin"
                THEN "ro" ELSE "empty"
<1> DEFINE file == <<name>>
           w == p \o file
           n == Len(p)
<1>1. file \in Paths /\ Len(file) = 1 /\ file[1] = name
  BY PathTypes
<1> HIDE DEF file
<1>2. /\ w \in Paths /\ Len(w) = n + 1 /\ n \in Nat
      /\ \A i \in 1..n : w[i] = p[i]
      /\ w[n + 1] = name
  <2>1. 1 \in 1..1
    OBVIOUS
  <2>2. /\ w \in Paths /\ Len(w) = n + Len(file) /\ n \in Nat
        /\ \A i \in 1..n : w[i] = p[i]
        /\ \A i \in 1..Len(file) : w[n + i] = file[i]
    BY <1>1, PathConcat
  <2> HIDE DEF w, n
  <2> QED
    BY <1>1, <2>1, <2>2
<1>3. (settings.data \o p) \o file = settings.data \o w
  BY <1>1, Located, PathAssociative
<1> HIDE DEF w, n
<1>4. /\ n >= 1 => w[1] = p[1]
      /\ n = 0 => w[1] = name
      /\ n >= 2 => w[2] = p[2]
      /\ n >= 3 => w[3] = p[3]
      /\ n = 2 => w[3] = name
  BY <1>2
<1>5. Len(w) >= 1 /\ w[1] \notin {"proxy.sock", "sandbox_inner.sh"}
  <2>1. n >= 1 \/ n = 0
    BY <1>2
  <2>2. CASE n >= 1
    BY <1>2, <1>4, <2>2 DEF n
  <2>3. CASE n = 0
    BY <1>2, <1>4, <2>3 DEF n
  <2> QED
    BY <2>1, <2>2, <2>3
<1>6. Shown(BwrapMounts(j, isolated), settings.data \o w) =
        IF IsPrefix(<<"jobs", j, "input">>, w) THEN "rw"
        ELSE IF "skills" \in settings.plugin /\ IsPrefix(<<"skills-plugin">>, w)
             THEN "ro" ELSE "empty"
  BY <1>2, <1>5, ShownInData
<1>7. IsPrefix(<<"jobs", j, "input">>, w)
        <=> \/ n >= 3 /\ p[1] = "jobs" /\ p[2] = j /\ p[3] = "input"
            \/ n = 2 /\ p[1] = "jobs" /\ p[2] = j /\ name = "input"
  <2>1. IsPrefix(<<"jobs", j, "input">>, w)
          <=> n + 1 >= 3 /\ w[1] = "jobs" /\ w[2] = j /\ w[3] = "input"
    BY <1>2, GivenPaths
  <2>2. n >= 3 \/ n = 2 \/ n \in {0, 1}
    BY <1>2
  <2>3. CASE n >= 3
    BY <1>4, <2>1, <2>3, <1>2
  <2>4. CASE n = 2
    BY <1>4, <2>1, <2>4
  <2>5. CASE n \in {0, 1}
    BY <2>1, <2>5
  <2> QED
    BY <2>2, <2>3, <2>4, <2>5
<1>8. IsPrefix(<<"skills-plugin">>, w)
        <=> \/ n >= 1 /\ p[1] = "skills-plugin"
            \/ n = 0 /\ name = "skills-plugin"
  <2>1. IsPrefix(<<"skills-plugin">>, w) <=> w[1] = "skills-plugin"
    BY <1>2, <1>5, GivenPaths
  <2>2. n >= 1 \/ n = 0
    BY <1>2
  <2> QED
    BY <1>4, <2>1, <2>2
<1> QED
  BY <1>3, <1>6, <1>7, <1>8 DEF file, n

\* A sandbox shows what it should, whatever the job.
LEMMA FilesShown ==
  ASSUME settings \in Settings, NEW j \in Jobs, setup[j].isolated \in BOOLEAN
  PROVE  SeesItsOwnFiles(j)
<1> DEFINE isolated == setup[j].isolated
           At(path) == Shown(BwrapMounts(j, isolated), path)
           input == <<"jobs", j, "input">>
           job == <<"jobs", j>>
           plugin == <<"skills-plugin">>
<1>1. /\ input \in Paths /\ Len(input) = 3
      /\ input[1] = "jobs" /\ input[2] = j /\ input[3] = "input"
      /\ job \in Paths /\ Len(job) = 2 /\ job[1] = "jobs" /\ job[2] = j
      /\ plugin \in Paths /\ Len(plugin) = 1 /\ plugin[1] = "skills-plugin"
      /\ << >> \in Paths /\ Len(<< >>) = 0
      /\ {"file", "skills", "auth", "status.json", "input"} \subseteq PathNames
  BY PathTypes DEF ServerNames
<1>2. /\ InputDir(j) = settings.data \o input /\ JobDir(j) = settings.data \o job
      /\ PluginDir = settings.data \o plugin
  BY DEF InputDir, JobDir, PluginDir
<1> isolated \in BOOLEAN
  OBVIOUS
<1> HIDE DEF input, job, plugin, isolated
<1>3. At(InputDir(j) \o <<"file">>) = "rw"
  <2>1. "file" \in PathNames /\ 3 >= 1 /\ 3 >= 3 /\ 3 # 0
    BY <1>1
  <2>2. At((settings.data \o input) \o <<"file">>) = "rw"
    BY <1>1, <2>1, ShownByName
  <2> QED
    BY <1>2, <2>2
<1>4. "skills" \in settings.plugin => At(PluginDir \o <<"skills">>) = "ro"
  BY <1>1, <1>2, ShownByName
<1>5. At(<<"usr">>) = "ro"
  BY ShownUsr
<1>6. At(settings.data \o <<"auth">>) = "empty"
  <2>1. settings.data \o << >> = settings.data
    BY Located, PathAssociative
  <2>2. /\ "auth" \in PathNames /\ "auth" \notin {"proxy.sock", "sandbox_inner.sh"}
        /\ "auth" # "skills-plugin" /\ ~(0 >= 1) /\ ~(0 >= 3) /\ 0 # 2
    BY PathTypes DEF ServerNames
  <2> DEFINE none == << >>
  <2>3. none \in Paths /\ Len(none) = 0
    BY <1>1
  <2> HIDE DEF none
  <2>4. At((settings.data \o none) \o <<"auth">>) = "empty"
    BY <2>2, <2>3, ShownByName
  <2> QED
    BY <2>1, <2>4 DEF none
<1>7. At(JobDir(j) \o <<"status.json">>) = "empty"
  <2>1. /\ "status.json" \in PathNames /\ "status.json" # "input"
        /\ 2 >= 1 /\ ~(2 >= 3) /\ 2 # 0
    BY PathTypes DEF ServerNames
  <2>2. At((settings.data \o job) \o <<"status.json">>) = "empty"
    BY <1>1, <2>1, ShownByName
  <2> QED
    BY <1>2, <2>2
<1>8. At(Home \o <<".ssh">>) = "empty"
  BY ShownInHome
<1>9. ASSUME NEW k \in Jobs \ {j} PROVE At(InputDir(k)) = "empty"
  <2> DEFINE other == <<"jobs", k>>
  <2>1. other \in Paths /\ Len(other) = 2 /\ other[1] = "jobs" /\ other[2] = k
    BY PathTypes DEF ServerNames
  <2>2. InputDir(k) = (settings.data \o other) \o <<"input">>
    <3> DEFINE all == <<"jobs", k, "input">>
               last == <<"input">>
    <3>1. /\ all \in Paths /\ Len(all) = 3 /\ all[1] = "jobs" /\ all[2] = k
          /\ all[3] = "input"
          /\ last \in Paths /\ Len(last) = 1 /\ last[1] = "input"
      BY PathTypes DEF ServerNames
    <3>2. InputDir(k) = settings.data \o all
      BY DEF InputDir
    <3> HIDE DEF other, all, last
    <3>3. other \o last = all
      <4> DEFINE sum == other \o last
      <4>1. /\ sum \in Paths /\ Len(sum) = 3
            /\ \A i \in 1..2 : sum[i] = other[i]
            /\ \A i \in 1..1 : sum[2 + i] = last[i]
        <5>1. /\ sum \in Paths /\ Len(sum) = Len(other) + Len(last)
              /\ \A i \in 1..Len(other) : sum[i] = other[i]
              /\ \A i \in 1..Len(last) : sum[Len(other) + i] = last[i]
          BY <2>1, <3>1, PathConcat
        <5> QED
          BY <2>1, <3>1, <5>1
      <4> HIDE DEF sum
      <4>2. 1 \in 1..2 /\ 2 \in 1..2 /\ 1 \in 1..1 /\ 2 + 1 = 3
        OBVIOUS
      <4>3. sum[1] = all[1] /\ sum[2] = all[2] /\ sum[3] = all[3]
        BY <2>1, <3>1, <4>1, <4>2
      <4>4. \A i \in 1..3 : sum[i] = all[i]
        BY <4>3
      <4>5. sum = all
        BY <3>1, <4>1, <4>4, SeqEqual DEF Paths
      <4> QED
        BY <4>5 DEF sum
    <3> QED
      BY <2>1, <3>1, <3>2, <3>3, Located, PathAssociative DEF last
  <2> HIDE DEF other
  <2> QED
    BY <1>1, <2>1, <2>2, ShownByName
<1> HIDE DEF At
<1>10. /\ At(InputDir(j) \o <<"file">>) = "rw"
       /\ "skills" \in settings.plugin => At(PluginDir \o <<"skills">>) = "ro"
       /\ At(<<"usr">>) = "ro"
       /\ At(settings.data \o <<"auth">>) = "empty"
       /\ At(JobDir(j) \o <<"status.json">>) = "empty"
       /\ At(Home \o <<".ssh">>) = "empty"
       /\ \A k \in Jobs \ {j} : At(InputDir(k)) = "empty"
  BY <1>3, <1>4, <1>5, <1>6, <1>7, <1>8, <1>9
<1> QED
  BY <1>10 DEF At, isolated, SeesItsOwnFiles

\* Agents are confined as their profile and the settings demand: the whole of
\* AgentsAreConfined, the mounts of their sandboxes included.
THEOREM AgentsConfined == Spec => []AgentsAreConfined
<1>1. JobInv => AgentsAreConfined
  <2> SUFFICES ASSUME JobInv PROVE AgentsAreConfined
    OBVIOUS
  <2>1. settings \in Settings /\ \A j \in Jobs : setup[j].isolated \in BOOLEAN
    BY DEF JobInv, JobTypes, Setups
  <2> QED
    BY <2>1, FilesShown, JobsContainedInv DEF AgentsAreConfined
<1> QED
  BY JobInvariant, <1>1, PTL

\* AttachedPluginIsShown fails for every job that has a sandbox, and in every
\* deployment, exactly if there is no skill: subagents are never found then.
PluginShownWithSkills ==
  \A j \in Jobs : stage[j] = "agent" /\ setup[j].sandboxed =>
    Shown(BwrapMounts(j, setup[j].isolated), PluginDir \o <<"agents">>)
      = IF "skills" \in settings.plugin THEN "ro" ELSE "empty"

THEOREM PluginHiddenWithoutSkills == Spec => []PluginShownWithSkills
<1>1. JobInv => PluginShownWithSkills
  <2> SUFFICES ASSUME JobInv, NEW j \in Jobs
               PROVE  Shown(BwrapMounts(j, setup[j].isolated), PluginDir \o <<"agents">>)
                        = IF "skills" \in settings.plugin THEN "ro" ELSE "empty"
    BY DEF PluginShownWithSkills
  <2>1. settings \in Settings /\ setup[j].isolated \in BOOLEAN
    BY DEF JobInv, JobTypes, Setups
  <2> DEFINE plugin == <<"skills-plugin">>
  <2>2. /\ plugin \in Paths /\ Len(plugin) = 1 /\ plugin[1] = "skills-plugin"
        /\ "agents" \in PathNames
    BY PathTypes DEF ServerNames
  <2>3. PluginDir = settings.data \o plugin
    BY DEF PluginDir
  <2> HIDE DEF plugin
  <2> QED
    BY <2>1, <2>2, <2>3, ShownByName
<1> QED
  BY JobInvariant, <1>1, PTL
=============================================================================
