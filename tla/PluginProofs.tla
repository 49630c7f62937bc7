---------------------------- MODULE PluginProofs ----------------------------
(***************************************************************************)
(* What the runs of the plugin keep, one after the other: which archives   *)
(* are under which path, what a build was told, and what a failed run has  *)
(* left alone; for any number of runs, environments and command lines.     *)
(***************************************************************************)
EXTENDS PluginRun, FilePathProofs

(* Making the backend: it is over, or it waits for a call. *)
SetupInv ==
    /\ calls \in Seq(Calls)
    /\ at \in {"exec", "setup"} => built = "none"
    /\ at \in {"setup", "mode"} => ~(mode.rebuild /\ mode.restore)

(* An archive is one of a mount, and was made under a key of the settings. *)
MadeHere(a) ==
    /\ a \in Archives /\ a.mount \in mounts
    /\ \E e \in Environments : a.key \in RebuildKeys(template, e)

PathOf(a) == RemotePath(Namespace, a.key, a.mount)

(* Under a path is what a run has archived for this very path. *)
ObjectsInv ==
    \A p \in DOMAIN objects :
        MadeHere(objects[p]) /\ PathOf(objects[p]) = p /\ objects[p].run <= run

(* What a run has restored was under the path that it has made of its own key
   and the mount. *)
RestoredInv ==
    \A m \in DOMAIN restored :
        /\ m \in mounts /\ MadeHere(restored[m])
        /\ \E key \in RestoreKeys(template, env) :
            PathOf(restored[m]) = RemotePath(Namespace, key, m)

(* Every restore in the environment e finds its objects. *)
Found(e) ==
    \A key \in RestoreKeys(template, e) : \A m \in mounts :
        RemotePath(Namespace, key, m) \in DOMAIN objects

(* What a build was told to be cached is there for restores in its own
   environment. *)
ReportedInv == \A e \in reported : Found(e)

(* This run has stored and restored nothing. *)
DidNothing == restored = NoArchives /\ \A p \in DOMAIN objects : objects[p].run < run

(* What the error and the status of a run say of what it has done. *)
OutcomeInv ==
    /\ at \in {"exec", "setup", "mode"} => status = 0 /\ err = "nil" /\ DidNothing
    /\ at = "returned" =>
        /\ status = 0
        /\ err = "error" => DidNothing
        /\ err = "nil" /\ mode.rebuild => Found(env)

(* The inductive invariant of the proofs. *)
PluginInv ==
    /\ PluginTypeOK /\ SetupInv
    /\ ObjectsInv /\ RestoredInv /\ OutcomeInv
    /\ ReportedInv /\ FailedRunsDidNothing

-----------------------------------------------------------------------------
(* Keys. *)

(* The one key that an environment has. *)
KeyOf(t, e) ==
    IF t = "branch" THEN e.branch.elems
    ELSE IF t = "checksum" THEN IF e.sum = NoSum THEN <<>> ELSE <<e.sum>>
    ELSE IF t = "epoch" THEN <<e.time>>
    ELSE <<e.branch.md5>>

LEMMA KeyValues ==
    ASSUME NEW t, NEW e
    PROVE  RebuildKeys(t, e) = {KeyOf(t, e)} /\ RestoreKeys(t, e) = {KeyOf(t, e)}
<1>1. CASE t = "unset"
  BY <1>1 DEF RebuildKeys, RestoreKeys, Generator, Hash, KeyOf
<1>2. CASE t \in {"branch", "checksum", "epoch"}
  <2>1. FromTemplate(t, e) = {KeyOf(t, e)}
    <3>1. CASE t = "branch"
      BY <3>1 DEF FromTemplate, KeyOf
    <3>2. CASE t = "checksum"
      BY <3>2 DEF FromTemplate, KeyOf
    <3>3. CASE t = "epoch"
      BY <3>3 DEF FromTemplate, KeyOf
    <3> QED
      BY <1>2, <3>1, <3>2, <3>3
  <2> QED
    BY <1>2, <2>1 DEF RebuildKeys, RestoreKeys, Generator
<1>3. CASE t \notin {"unset", "branch", "checksum", "epoch"}
  <2>1. FromTemplate(t, e) = {}
    BY <1>3 DEF FromTemplate
  <2>2. KeyOf(t, e) = <<e.branch.md5>>
    BY <1>3 DEF KeyOf
  <2> QED
    BY <1>3, <2>1, <2>2 DEF RebuildKeys, RestoreKeys, Generator, FallbackGenerator, Hash
<1> QED
  BY <1>1, <1>2, <1>3

(* A key is a sequence of names, and both modes generate the same one. *)
LEMMA KeysAreOne ==
    ASSUME NEW t, NEW e \in Environments
    PROVE  /\ \A k \in RebuildKeys(t, e) : k \in Seq(Element)
           /\ RestoreKeys(t, e) = RebuildKeys(t, e)
           /\ \A k, j \in RebuildKeys(t, e) : k = j
           /\ t \in {"unset", "failing"} => RebuildKeys(t, e) = {<<e.branch.md5>>}
<1>1. /\ e.branch.elems \in Seq(Element) /\ e.branch.md5 \in STRING
      /\ e.sum \in STRING /\ e.time \in STRING
  <2>1. e \in [branch: [elems: Seq(Element), md5: STRING], sum: STRING, time: STRING]
    BY EnvironmentsAssumption
  <2>2. e.branch \in [elems: Seq(Element), md5: STRING]
    BY <2>1
  <2> QED
    BY <2>1, <2>2
<1>2. /\ <<>> \in Seq(Element) /\ <<e.sum>> \in Seq(Element) /\ <<e.time>> \in Seq(Element)
      /\ <<e.branch.md5>> \in Seq(Element)
  <2>1. ASSUME NEW x \in STRING PROVE <<x>> \in Seq(Element)
    BY <2>1, RowOfOne DEF Element
  <2> QED
    BY <1>1, <2>1, EmptySeq
<1>3. KeyOf(t, e) \in Seq(Element)
  BY <1>1, <1>2, Zenon DEF KeyOf
<1>4. t \in {"unset", "failing"} => KeyOf(t, e) = <<e.branch.md5>>
  BY DEF KeyOf
<1>5. RebuildKeys(t, e) = {KeyOf(t, e)} /\ RestoreKeys(t, e) = {KeyOf(t, e)}
  BY KeyValues
<1> QED
  BY <1>3, <1>4, <1>5, Zenon

-----------------------------------------------------------------------------
(* Paths. *)

(* Different mounts and keys of one command line make different paths. *)
PathsApart ==
    \A l \in CommandLines : FlatSettings(l.template, l.mounts) =>
        \A e, f \in Environments : \A m, n \in l.mounts :
            \A k \in RebuildKeys(l.template, e), j \in RestoreKeys(l.template, f) :
                RemotePath(Namespace, k, m) = RemotePath(Namespace, j, n) => m = n /\ k = j

(* The key and the mount are added to the namespace. *)
LEMMA PlainRemotePath ==
    ASSUME NEW k \in Seq(Element), Plain(k), NEW m \in Path, Plain(m.elems)
    PROVE  RemotePath(Namespace, k, m)
                = [abs   |-> Clean(Namespace).abs,
                   elems |-> (Clean(Namespace).elems \o k) \o m.elems]
<1> DEFINE c == Clean(Namespace)
<1>1. c \in Path /\ Relative(k) \in Path /\ Relative(k).elems = k
  BY NamespaceAssumption, CleanType DEF Path, Relative
<1> HIDE DEF c
<1>2. Join(c, Relative(k)) = [abs |-> c.abs, elems |-> c.elems \o k]
  BY <1>1, JoinPlain
<1> DEFINE d == Join(c, Relative(k))
<1>3. d \in Path /\ d.abs = c.abs /\ d.elems = c.elems \o k
  <2>1. d \in Path
    BY <1>1, JoinType
  <2> QED
    BY <1>2, <2>1
<1> HIDE DEF d
<1>4. Join(d, m) = [abs |-> d.abs, elems |-> d.elems \o m.elems]
  BY <1>3, JoinPlain
<1> QED
  BY <1>3, <1>4 DEF RemotePath, c, d

(* A path with a key of one name, and one without, are the same only if the mount
   of the other begins with that name. *)
LEMMA KeyInMount ==
    ASSUME NEW S, NEW c \in Seq(S), NEW x \in S, NEW s \in Seq(S),
           NEW t \in Seq(S), (c \o <<x>>) \o s = (c \o <<>>) \o t
    PROVE  t # <<>> /\ t[1] = x
<1> DEFINE k == <<x>>
<1>1. k \in Seq(S) /\ Len(k) = 1 /\ k[1] = x
  OBVIOUS
<1> HIDE DEF k
<1>2. (c \o k) \o s = c \o (k \o s) /\ k \o s \in Seq(S)
  BY <1>1, ConcatAssociative, ConcatProperties
<1>3. c \o <<>> = c
  BY ConcatEmptySeq
<1>4. c \o (k \o s) = c \o t
  BY <1>2, <1>3 DEF k
<1>5. k \o s = t
  <2>1. \A u, v \in Seq(S) : c \o u = c \o v => u = v
    BY ConcatSimplifications
  <2> QED
    BY <1>2, <1>4, <2>1
<1>6. Len(t) = 1 + Len(s) /\ Len(s) \in Nat /\ t[1] = x
  <2>1. /\ Len(k \o s) = Len(k) + Len(s) /\ Len(s) \in Nat
        /\ \A i \in 1..Len(k) + Len(s) : (k \o s)[i] = IF i <= Len(k) THEN k[i] ELSE s[i - Len(k)]
    BY <1>1, ConcatProperties, LenProperties
  <2>2. 1 \in 1..Len(k) + Len(s) /\ 1 <= Len(k)
    BY <1>1, <2>1
  <2> QED
    BY <1>1, <1>5, <2>1, <2>2
<1> QED
  BY <1>6

(* A part of a row of plain names. *)
LEMMA PlainParts ==
    ASSUME NEW a, NEW b, NEW c, Plain(<<a, b, c>>)
    PROVE  Plain(<<>>) /\ Plain(<<a>>) /\ Plain(<<b>>) /\ Plain(<<c>>)
<1>1. \A x \in {a, b, c} : x # "." /\ x # ".."
  <2> DEFINE s == <<a, b, c>>
  <2>1. Len(s) = 3 /\ s[1] = a /\ s[2] = b /\ s[3] = c
    OBVIOUS
  <2>2. \A k \in 1..3 : s[k] # "." /\ s[k] # ".."
    BY <2>1 DEF Plain
  <2> HIDE DEF s
  <2> QED
    BY <2>1, <2>2
<1>2. ASSUME NEW x \in {a, b, c} PROVE Plain(<<x>>)
  <2>1. Len(<<x>>) = 1 /\ <<x>>[1] = x
    OBVIOUS
  <2> QED
    BY <1>1, <2>1 DEF Plain
<1> QED
  BY <1>2 DEF Plain

(* Of the names alone: paths are apart unless a mount begins with a key. *)
LEMMA NamesKeepApart ==
    ASSUME PlainNames
    PROVE  PathsApart
<1> SUFFICES ASSUME NEW l \in CommandLines, FlatSettings(l.template, l.mounts),
                    NEW e \in Environments, NEW f \in Environments,
                    NEW m \in l.mounts, NEW n \in l.mounts,
                    NEW k \in RebuildKeys(l.template, e), NEW j \in RestoreKeys(l.template, f),
                    RemotePath(Namespace, k, m) = RemotePath(Namespace, j, n)
             PROVE  m = n /\ k = j
  BY DEF PathsApart
<1>1. /\ m \in Path /\ n \in Path /\ Plain(m.elems) /\ Plain(n.elems)
      /\ m.elems \in Seq(Element) /\ n.elems \in Seq(Element) /\ ~m.abs /\ ~n.abs
      /\ l.template = "checksum" /\ m.elems # <<>> => m.elems[1] # f.sum
      /\ l.template = "checksum" /\ n.elems # <<>> => n.elems[1] # e.sum
  <2>1. l.mounts \subseteq Path
    BY CommandLinesAssumption
  <2>2. m \in Path /\ n \in Path
    BY <2>1
  <2> QED
    BY <2>2 DEF PlainNames, FlatSettings, Path
<1>2. /\ k \in Seq(Element) /\ Plain(k) /\ j \in Seq(Element) /\ Plain(j)
      /\ l.template # "checksum" => Len(k) = 1 /\ Len(j) = 1
      /\ l.template = "checksum" => k \in {<<>>, <<e.sum>>} /\ j \in {<<>>, <<f.sum>>}
  <2> DEFINE t == l.template
  <2>1. /\ k \in Seq(Element) /\ j \in Seq(Element)
        /\ k \in RebuildKeys(t, e) /\ j \in RebuildKeys(t, f)
    BY KeysAreOne
  <2>2. /\ Plain(e.branch.elems) /\ Plain(f.branch.elems)
        /\ Plain(<<e.branch.md5, e.sum, e.time>>) /\ Plain(<<f.branch.md5, f.sum, f.time>>)
        /\ t = "branch" => Len(e.branch.elems) = 1 /\ Len(f.branch.elems) = 1
    BY DEF PlainNames, FlatSettings
  <2> HIDE DEF t
  <2>3. CASE t = "branch"
    <3>1. k = e.branch.elems /\ j = f.branch.elems
      BY <2>1, <2>3, KeyValues DEF KeyOf
    <3> QED
      BY <2>1, <2>2, <2>3, <3>1 DEF t
  <2>4. CASE t = "checksum"
    <3>1. k \in {<<>>, <<e.sum>>} /\ j \in {<<>>, <<f.sum>>}
      BY <2>1, <2>4, KeyValues DEF KeyOf
    <3>2. Plain(k) /\ Plain(j)
      BY <2>2, <3>1, PlainParts
    <3> QED
      BY <2>1, <2>4, <3>1, <3>2 DEF t
  <2>5. CASE t = "epoch"
    <3>1. k = <<e.time>> /\ j = <<f.time>>
      BY <2>1, <2>5, KeyValues DEF KeyOf
    <3> QED
      BY <2>1, <2>2, <2>5, <3>1, PlainParts DEF t
  <2>6. CASE t \notin {"branch", "checksum", "epoch"}
    <3>1. k = <<e.branch.md5>> /\ j = <<f.branch.md5>>
      BY <2>1, <2>6, KeyValues DEF KeyOf
    <3> QED
      BY <2>1, <2>2, <2>6, <3>1, PlainParts DEF t
  <2> QED
    BY <2>3, <2>4, <2>5, <2>6
<1> DEFINE c == Clean(Namespace).elems
<1>3. c \in Seq(Element) /\ (c \o k) \o m.elems = (c \o j) \o n.elems
  <2>1. c \in Seq(Element)
    BY NamespaceAssumption, CleanType DEF Path
  <2>2. RemotePath(Namespace, k, m) = [abs   |-> Clean(Namespace).abs,
                                       elems |-> (c \o k) \o m.elems]
    BY <1>1, <1>2, PlainRemotePath
  <2>3. RemotePath(Namespace, j, n) = [abs   |-> Clean(Namespace).abs,
                                       elems |-> (c \o j) \o n.elems]
    BY <1>1, <1>2, PlainRemotePath
  <2> DEFINE a == (c \o k) \o m.elems
             b == (c \o j) \o n.elems
  <2> HIDE DEF a, b
  <2>4. [abs |-> Clean(Namespace).abs, elems |-> a] = [abs |-> Clean(Namespace).abs, elems |-> b]
    BY <2>2, <2>3 DEF a, b
  <2>5. a = b
    BY <2>4
  <2> QED
    BY <2>1, <2>5 DEF a, b
<1> HIDE DEF c
<1>4. CASE Len(k) = Len(j)
  <2>1. \A a, b, s, t \in Seq(Element) :
            Len(a) = Len(b) /\ a \o s = b \o t => a = b /\ s = t
    BY SplitAlike
  <2>2. /\ c \o k \in Seq(Element) /\ c \o j \in Seq(Element)
        /\ Len(c \o k) = Len(c \o j)
    BY <1>2, <1>3, <1>4, ConcatProperties
  <2>3. c \o k = c \o j /\ m.elems = n.elems
    BY <1>1, <1>3, <2>1, <2>2, Zenon
  <2>4. \A u, v \in Seq(Element) : c \o u = c \o v => u = v
    BY <1>3, ConcatSimplifications
  <2>5. k = j
    BY <1>2, <2>3, <2>4
  <2> QED
    BY <1>1, <2>3, <2>5 DEF Path
<1>5. CASE Len(k) # Len(j)
  <2>1. \A x \in STRING : \A s, t \in Seq(Element) :
            (c \o <<x>>) \o s = (c \o <<>>) \o t => t # <<>> /\ t[1] = x
    BY <1>3, KeyInMount
  <2>2. l.template = "checksum"
    BY <1>2, <1>5
  <2>3. e.sum \in STRING /\ f.sum \in STRING
    BY EnvironmentsAssumption
  <2>4. CASE k = <<e.sum>> /\ j = <<>>
    <3>1. n.elems # <<>> /\ n.elems[1] = e.sum
      <4>1. (c \o <<e.sum>>) \o m.elems = (c \o <<>>) \o n.elems
        BY <1>3, <2>4
      <4> QED
        BY <1>1, <2>1, <2>3, <4>1, Zenon
    <3> QED
      BY <1>1, <2>2, <3>1
  <2>5. CASE k = <<>> /\ j = <<f.sum>>
    <3>1. m.elems # <<>> /\ m.elems[1] = f.sum
      <4>1. (c \o <<f.sum>>) \o n.elems = (c \o <<>>) \o m.elems
        BY <1>3, <2>5
      <4> QED
        BY <1>1, <2>1, <2>3, <4>1, Zenon
    <3> QED
      BY <1>1, <2>2, <3>1
  <2> QED
    BY <1>2, <1>5, <2>2, <2>4, <2>5
<1> QED
  BY <1>4, <1>5

-----------------------------------------------------------------------------
(* Steps. *)

(* The settings are those of a command line. *)
LEMMA Settings ==
    ASSUME PluginTypeOK
    PROVE  /\ \E l \in CommandLines :
                l.template = template /\ l.mounts = mounts /\ l.kind = kind /\ l.given = given
           /\ mounts \subseteq UNION {l.mounts : l \in CommandLines}
<1> DEFINE l == [template |-> template, override |-> override, exitCode |-> exitCode,
                 mounts |-> mounts, kind |-> kind, given |-> given]
<1>1. l \in CommandLines
  BY DEF PluginTypeOK
<1>2. l.template = template /\ l.mounts = mounts /\ l.kind = kind /\ l.given = given
  OBVIOUS
<1> HIDE DEF l
<1> QED
  BY <1>1, <1>2

(* A rebuild adds archives of its own, each under the path that it has made for
   it, and no path is empty afterwards that was not before. *)
LEMMA RebuiltAdds ==
    ASSUME PluginTypeOK, ObjectsInv, NEW done \in SUBSET mounts,
           NEW key \in RebuildKeys(template, env), Rebuilt(done, key)
    PROVE  /\ DOMAIN objects \subseteq DOMAIN objects'
           /\ \A m \in done : RemotePath(Namespace, key, m) \in DOMAIN objects'
           /\ \A p \in DOMAIN objects' :
                /\ MadeHere(objects'[p]) /\ PathOf(objects'[p]) = p
                /\ objects'[p].run <= run
<1> DEFINE path(m) == RemotePath(Namespace, key, m)
           written == {p \in {path(m) : m \in done} : override \/ p \notin DOMAIN objects}
<1>1. PICK last \in [written -> done] :
        /\ \A p \in written : path(last[p]) = p
        /\ objects' = [p \in written \cup DOMAIN objects |->
                            IF p \in written THEN [mount |-> last[p], key |-> key, run |-> run]
                            ELSE objects[p]]
  BY DEF Rebuilt
<1>2. DOMAIN objects' = written \cup DOMAIN objects
  BY <1>1
<1>3. \A m \in done : path(m) \in written \cup DOMAIN objects
  OBVIOUS
<1>4. ASSUME NEW p \in written
      PROVE  /\ MadeHere(objects'[p]) /\ PathOf(objects'[p]) = p
             /\ objects'[p].run <= run
  <2> DEFINE a == [mount |-> last[p], key |-> key, run |-> run]
  <2>1. objects'[p] = a
    BY <1>1, <1>4
  <2>2. last[p] \in done /\ path(last[p]) = p
    BY <1>1, <1>4
  <2>3. a.mount = last[p] /\ a.key = key /\ a.run = run
    OBVIOUS
  <2>4. run \in 1..MaxRuns /\ env \in Environments
    BY DEF PluginTypeOK
  <2>5. key \in Seq(Element)
    BY <2>4, KeysAreOne
  <2>6. last[p] \in mounts /\ last[p] \in UNION {l.mounts : l \in CommandLines}
    BY <2>2, Settings
  <2>7. a \in Archives
    BY <2>4, <2>5, <2>6 DEF Archives
  <2>8. MadeHere(a)
    <3> HIDE DEF a
    <3> QED
      BY <2>3, <2>4, <2>6, <2>7 DEF MadeHere
  <2>9. PathOf(a) = p
    BY <2>2, <2>3 DEF PathOf
  <2>10. a.run <= run
    BY <2>3, <2>4, RunsAssumption
  <2> QED
    BY <2>1, <2>8, <2>9, <2>10
<1>5. ASSUME NEW p \in DOMAIN objects, p \notin written
      PROVE  /\ MadeHere(objects'[p]) /\ PathOf(objects'[p]) = p
             /\ objects'[p].run <= run
  <2>1. objects'[p] = objects[p]
    BY <1>1, <1>5
  <2> QED
    BY <2>1, <1>5 DEF ObjectsInv
<1> QED
  BY <1>2, <1>3, <1>4, <1>5


(* The calls of a constructor, by their names. *)
LEMMA CallsAreNames ==
    ASSUME NEW https \in BOOLEAN
    PROVE  CallsOf(https) \in Seq(Calls)
<1> DEFINE find == IF Has("gcs.api-key") THEN <<>> ELSE <<"find-credentials">>
           transport == IF https THEN <<"make-transport">> ELSE <<>>
<1>1. CASE kind = "azure"
  <2>1. CallsOf(https) = <<"create-container">>
    BY <1>1 DEF CallsOf
  <2> QED
    BY <2>1 DEF Calls
<1>2. CASE kind = "filesystem"
  <2>1. CallsOf(https) = <<"stat">>
    BY <1>2 DEF CallsOf
  <2> QED
    BY <2>1 DEF Calls
<1>3. CASE kind = "sftp"
  <2>1. CallsOf(https) = <<"dial", "handshake", "open-session", "stat">>
    BY <1>3 DEF CallsOf
  <2> QED
    BY <2>1 DEF Calls
<1>4. CASE kind = "gcs"
  <2>1. CallsOf(https) = find \o transport
    BY <1>4 DEF CallsOf
  <2>2. find \in Seq(Calls) /\ transport \in Seq(Calls)
    <3>1. <<>> \in Seq(Calls)
      OBVIOUS
    <3>2. <<"find-credentials">> \in Seq(Calls) /\ <<"make-transport">> \in Seq(Calls)
      BY DEF Calls
    <3> QED
      BY <3>1, <3>2, Zenon
  <2> HIDE DEF find, transport
  <2> QED
    BY <2>1, <2>2
<1>5. CASE kind \notin {"azure", "filesystem", "sftp", "gcs"}
  <2>1. CallsOf(https) = <<>>
    BY <1>5 DEF CallsOf
  <2> QED
    BY <2>1
<1> QED
  BY <1>1, <1>2, <1>3, <1>4, <1>5

(* A step that makes the backend leaves calls to wait for only while nothing is
   made, and gives the client no flag but those of the command line. *)
LEMMA SetupGoesOn ==
    ASSUME calls \in Seq(Calls), built = "none", client \subseteq given, SetupStep
    PROVE  /\ calls' \in Seq(Calls)
           /\ built' \in {"none", "ready", "error", "panic"}
           /\ calls' # <<>> => built' = "none"
           /\ client' \subseteq given
           /\ UNCHANGED <<kind, given>>
<1> DEFINE Goal == /\ calls' \in Seq(Calls)
                   /\ built' \in {"none", "ready", "error", "panic"}
                   /\ calls' # <<>> => built' = "none"
                   /\ client' \subseteq given
<1>1. ASSUME NEW b \in {"ready", "error", "panic"}, Builds(b)
      PROVE  Goal
  <2>1. Configured \subseteq given
    BY DEF Configured
  <2>2. calls' = <<>> /\ built' = b /\ client' \subseteq given
    BY <1>1, <2>1 DEF Builds
  <2> QED
    BY <2>2
<1>2. ASSUME NEW rest \in Seq(Calls), GoOn(rest)
      PROVE  Goal
  <2>1. CASE rest = <<>>
    <3>1. Builds("ready")
      BY <1>2, <2>1 DEF GoOn
    <3> HIDE DEF Goal
    <3> QED
      BY <1>1, <3>1
  <2>2. CASE rest # <<>>
    BY <1>2, <2>2 DEF GoOn
  <2> QED
    BY <2>1, <2>2
<1>3. calls # <<>> => Tail(calls) \in Seq(Calls)
  OBVIOUS
<1> HIDE DEF Goal
<1>4. CASE New
  <2>1. Builds("error") => Goal
    BY <1>1
  <2>2. Builds("panic") => Goal
    BY <1>1
  <2>3. ASSUME NEW https \in BOOLEAN, GoOn(CallsOf(https))
        PROVE  Goal
    BY <1>2, <2>3, CallsAreNames
  <2>4. Goal
    BY <1>4, <2>1, <2>2, <2>3 DEF New
  <2> QED
    BY <1>4, <2>4 DEF New, Goal
<1>5. CASE CallReturns
  <2>1. Goal
    BY <1>2, <1>3, <1>5 DEF CallReturns
  <2> QED
    BY <1>5, <2>1 DEF CallReturns, Goal
<1>6. CASE CallFails
  <2>1. Goal
    BY <1>1, <1>2, <1>3, <1>6 DEF CallFails
  <2> QED
    BY <1>6, <2>1 DEF CallFails, Goal
<1>7. CASE CallTimesOut
  <2>1. Goal
    BY <1>1, <1>2, <1>3, <1>7 DEF CallTimesOut
  <2> QED
    BY <1>7, <2>1 DEF CallTimesOut, Goal
<1> QED
  BY <1>4, <1>5, <1>6, <1>7 DEF SetupStep


-----------------------------------------------------------------------------
(* The invariant. *)

LEMMA InitHolds ==
    ASSUME PluginInit
    PROVE  PluginInv
<1>1. PICK l \in CommandLines :
        /\ template = l.template /\ override = l.override /\ exitCode = l.exitCode
        /\ mounts = l.mounts /\ kind = l.kind /\ given = l.given
  BY DEF PluginInit
<1>2. [template |-> template, override |-> override, exitCode |-> exitCode,
       mounts |-> mounts, kind |-> kind, given |-> given] \in CommandLines
  <2>1. l \in [template: Templates, override: BOOLEAN, exitCode: BOOLEAN,
               mounts: SUBSET Path,
               kind: Kinds, given: SUBSET STRING]
    BY CommandLinesAssumption
  <2>2. l = [template |-> l.template, override |-> l.override, exitCode |-> l.exitCode,
             mounts |-> l.mounts, kind |-> l.kind, given |-> l.given]
    BY <2>1
  <2> QED
    BY <1>1, <2>2
<1>3. run \in 1..MaxRuns
  BY RunsAssumption DEF PluginInit
<1>4. DOMAIN NoArchives = {}
  BY DEF NoArchives
<1>5. PluginTypeOK
  BY <1>2, <1>3, <1>4 DEF PluginInit, PluginTypeOK
<1>6. SetupInv
  BY DEF PluginInit, SetupInv, Modes
<1>7. ObjectsInv /\ RestoredInv /\ ReportedInv /\ FailedRunsDidNothing
  BY <1>4 DEF PluginInit, ObjectsInv, RestoredInv, ReportedInv, FailedRunsDidNothing
<1>8. OutcomeInv
  BY <1>4 DEF PluginInit, OutcomeInv, DidNothing
<1> QED
  BY <1>5, <1>6, <1>7, <1>8 DEF PluginInv

(* What a step keeps that changes neither what is stored or restored nor the
   run. *)
LEMMA NothingMoves ==
    ASSUME PluginInv, UNCHANGED <<settings, mode, env, run, objects, restored, reported>>
    PROVE  /\ ObjectsInv' /\ RestoredInv' /\ ReportedInv'
           /\ DidNothing' <=> DidNothing
           /\ Found(env)' <=> Found(env)
<1>1. /\ template' = template /\ override' = override /\ exitCode' = exitCode
      /\ mounts' = mounts /\ mode' = mode /\ env' = env /\ run' = run
      /\ objects' = objects /\ restored' = restored /\ reported' = reported
  BY DEF settings
<1>2. ObjectsInv /\ RestoredInv /\ ReportedInv
  BY DEF PluginInv
<1>3. ObjectsInv'
  BY <1>1, <1>2 DEF ObjectsInv, MadeHere, PathOf
<1>4. RestoredInv'
  BY <1>1, <1>2 DEF RestoredInv, MadeHere, PathOf
<1>5. ReportedInv'
  BY <1>1, <1>2 DEF ReportedInv, Found
<1>6. (DidNothing' <=> DidNothing) /\ (Found(env)' <=> Found(env))
  BY <1>1 DEF DidNothing, Found
<1> QED
  BY <1>3, <1>4, <1>5, <1>6

(* A run goes on or returns before it has come to its mode. *)
LEMMA RunGoesOn ==
    ASSUME PluginInv, at \in {"exec", "mode"},
           UNCHANGED <<settings, setupVars, mode, env, run, status, objects, restored, reported>>,
           \/ Returns("error")
           \/ at = "exec" /\ at' = "setup" /\ UNCHANGED err /\ ~(mode.rebuild /\ mode.restore)
           \/ Returns("nil") /\ ~mode.rebuild
    PROVE  PluginInv'
<1>1. /\ template' = template /\ override' = override /\ exitCode' = exitCode
      /\ mounts' = mounts /\ mode' = mode /\ env' = env /\ run' = run
      /\ objects' = objects /\ restored' = restored /\ reported' = reported
      /\ kind' = kind /\ given' = given /\ calls' = calls /\ built' = built
      /\ client' = client /\ status' = status
  BY DEF settings, setupVars
<1>2. PluginTypeOK /\ SetupInv /\ OutcomeInv
  BY DEF PluginInv
<1>3. ObjectsInv' /\ RestoredInv' /\ ReportedInv' /\ (DidNothing' <=> DidNothing)
  BY <1>1, NothingMoves DEF settings
<1>4. status = 0 /\ err = "nil" /\ DidNothing /\ calls = <<>>
  BY <1>2 DEF OutcomeInv, PluginTypeOK
<1>5. /\ at' \in {"returned", "setup"} /\ err' \in {"nil", "error"}
      /\ at' = "setup" => at = "exec" /\ err' = "nil" /\ ~(mode.rebuild /\ mode.restore)
      /\ at' = "returned" => err' = "error" \/ ~mode.rebuild
  BY <1>4 DEF Returns
<1>6. PluginTypeOK'
  BY <1>1, <1>2, <1>4, <1>5 DEF PluginTypeOK
<1>7. SetupInv'
  BY <1>1, <1>2, <1>5 DEF SetupInv
<1>8. OutcomeInv'
  BY <1>1, <1>3, <1>4, <1>5 DEF OutcomeInv
<1>9. FailedRunsDidNothing'
  BY <1>1, <1>4 DEF FailedRunsDidNothing
<1> QED
  BY <1>3, <1>6, <1>7, <1>8, <1>9 DEF PluginInv

LEMMA SetUpHolds ==
    ASSUME PluginInv, SetUp
    PROVE  PluginInv'
<1>1. /\ template' = template /\ override' = override /\ exitCode' = exitCode
      /\ mounts' = mounts /\ mode' = mode /\ env' = env /\ run' = run
      /\ objects' = objects /\ restored' = restored /\ reported' = reported
      /\ at = "setup" /\ SetupStep
  BY DEF SetUp, settings
<1>2. PluginTypeOK /\ SetupInv /\ OutcomeInv
  BY DEF PluginInv
<1>3. ObjectsInv' /\ RestoredInv' /\ ReportedInv' /\ (DidNothing' <=> DidNothing)
  BY <1>1, NothingMoves DEF settings
<1>4. /\ status = 0 /\ err = "nil" /\ DidNothing
      /\ built = "none" /\ calls \in Seq(Calls) /\ client \subseteq given
      /\ ~(mode.rebuild /\ mode.restore)
  BY <1>1, <1>2 DEF OutcomeInv, PluginTypeOK, SetupInv
<1>5. /\ calls' \in Seq(Calls)
      /\ built' \in {"none", "ready", "error", "panic"}
      /\ calls' # <<>> => built' = "none"
      /\ client' \subseteq given
      /\ kind' = kind /\ given' = given
  BY <1>1, <1>4, SetupGoesOn
<1>6. /\ built' = "none"  => at' = "setup" /\ err' = "nil" /\ status' = 0
      /\ built' = "ready" => at' = "mode" /\ err' = "nil" /\ status' = 0
      /\ built' = "error" => at' = "returned" /\ err' = "error" /\ status' = 0
      /\ built' = "panic" => at' = "over" /\ err' = "nil" /\ status' = 2
  <2>1. CASE built' = "none"
    <3>1. UNCHANGED <<at, err, status>>
      BY <2>1, Zenon DEF SetUp
    <3> QED
      BY <1>1, <1>4, <2>1, <3>1
  <2>2. CASE built' = "ready"
    <3>1. at' = "mode" /\ UNCHANGED <<err, status>>
      BY <2>2, Zenon DEF SetUp
    <3> QED
      BY <1>4, <2>2, <3>1
  <2>3. CASE built' = "error"
    <3>1. Returns("error") /\ UNCHANGED status
      BY <2>3, Zenon DEF SetUp
    <3> QED
      BY <1>4, <2>3, <3>1 DEF Returns
  <2>4. CASE built' = "panic"
    <3>1. Panics
      BY <2>4, Zenon DEF SetUp
    <3> QED
      BY <1>4, <2>4, <3>1 DEF Panics
  <2> QED
    BY <1>5, <2>1, <2>2, <2>3, <2>4
<1>7. PluginTypeOK'
  <2>1. calls' # <<>> => at' = "setup" /\ Head(calls') \in Calls
    BY <1>5, <1>6
  <2>2. at' \in {"setup", "mode", "returned", "over"} /\ (at' = "mode" => built' = "ready")
    BY <1>5, <1>6
  <2>3. err' \in {"nil", "error", "Error"} /\ status' \in 0..2
    BY <1>5, <1>6
  <2> QED
    BY <1>1, <1>2, <1>5, <2>1, <2>2, <2>3 DEF PluginTypeOK
<1>8. SetupInv'
  BY <1>1, <1>4, <1>5, <1>6 DEF SetupInv
<1>9. OutcomeInv'
  BY <1>3, <1>4, <1>5, <1>6 DEF OutcomeInv
<1>10. FailedRunsDidNothing'
  <2>1. restored' = NoArchives /\ \A p \in DOMAIN objects' : objects'[p].run < run'
    BY <1>3, <1>4 DEF DidNothing
  <2> QED
    BY <2>1 DEF FailedRunsDidNothing
<1> QED
  BY <1>3, <1>7, <1>8, <1>9, <1>10 DEF PluginInv


(* A rebuild that ends in any way has kept what was stored before it, and has
   stored what it was to store when it succeeds. *)
LEMMA RebuildHolds ==
    ASSUME PluginInv, NEW done \in SUBSET mounts, NEW ok \in BOOLEAN,
           NEW key \in RebuildKeys(template, env),
           RebuildMode(done, ok, key) \/ RebuildPanics(done, key)
    PROVE  PluginInv'
<1>1. /\ template' = template /\ override' = override /\ exitCode' = exitCode
      /\ mounts' = mounts /\ mode' = mode /\ env' = env /\ run' = run
      /\ restored' = restored /\ reported' = reported
      /\ kind' = kind /\ given' = given /\ calls' = calls /\ built' = built
      /\ client' = client
      /\ at = "mode" /\ mode.rebuild /\ Rebuilt(done, key)
  BY DEF RebuildMode, RebuildPanics, settings, setupVars
<1>2. PluginTypeOK /\ SetupInv /\ OutcomeInv /\ ObjectsInv /\ RestoredInv /\ ReportedInv
  BY DEF PluginInv
<1>3. status = 0 /\ err = "nil" /\ calls = <<>>
  BY <1>1, <1>2 DEF OutcomeInv, PluginTypeOK
<1>4. \/ at' = "over" /\ status' = 2 /\ err' = "nil"
      \/ at' = "returned" /\ status' = 0 /\ err' \in {"nil", "Error"}
            /\ (err' = "nil" => done = mounts)
  <2>1. CASE RebuildPanics(done, key)
    BY <1>3, <2>1 DEF RebuildPanics, Panics
  <2>2. CASE RebuildMode(done, ok, key)
    BY <1>3, <2>2 DEF RebuildMode, ModeReturns, Returns
  <2> QED
    BY <2>1, <2>2
<1>5. /\ DOMAIN objects \subseteq DOMAIN objects'
      /\ \A m \in done : RemotePath(Namespace, key, m) \in DOMAIN objects'
      /\ \A p \in DOMAIN objects' :
            /\ MadeHere(objects'[p]) /\ PathOf(objects'[p]) = p
            /\ objects'[p].run <= run
  BY <1>1, <1>2, RebuiltAdds
<1>6. \A p \in DOMAIN objects' : objects'[p] \in Archives
  BY <1>5 DEF MadeHere
<1>7. PluginTypeOK'
  BY <1>1, <1>2, <1>3, <1>4, <1>6 DEF PluginTypeOK
<1>8. SetupInv'
  BY <1>1, <1>2, <1>4 DEF SetupInv
<1>9. ObjectsInv'
  BY <1>1, <1>5 DEF ObjectsInv, MadeHere, PathOf
<1>10. RestoredInv'
  BY <1>1, <1>2 DEF RestoredInv, MadeHere, PathOf
<1>11. ReportedInv'
  BY <1>1, <1>2, <1>5 DEF ReportedInv, Found
<1>12. err' = "nil" /\ at' = "returned" => Found(env)'
  <2>1. SUFFICES ASSUME err' = "nil", at' = "returned",
                        NEW k \in RestoreKeys(template, env), NEW m \in mounts
                 PROVE  RemotePath(Namespace, k, m) \in DOMAIN objects'
    BY <1>1 DEF Found
  <2>2. k = key
    BY <1>2, KeysAreOne DEF PluginTypeOK
  <2>3. m \in done
    BY <1>4, <2>1
  <2> QED
    BY <1>5, <2>2, <2>3
<1>13. OutcomeInv'
  BY <1>4, <1>12 DEF OutcomeInv
<1>14. FailedRunsDidNothing'
  <2>1. restored' = NoArchives
    BY <1>1, <1>2 DEF OutcomeInv, DidNothing
  <2>2. CASE RebuildPanics(done, key)
    <3>1. CheckPanicked'
      <4>1. kind = "s3" /\ ~override /\ status' = 2
        BY <2>2 DEF RebuildPanics, Panics
      <4>2. built = "ready"
        BY <1>1, <1>2 DEF PluginTypeOK
      <4> QED
        BY <1>1, <4>1, <4>2 DEF CheckPanicked
    <3> QED
      BY <2>1, <3>1 DEF FailedRunsDidNothing
  <2>3. CASE RebuildMode(done, ok, key)
    <3>1. status' = 0
      BY <1>3, <2>3 DEF RebuildMode
    <3> QED
      BY <3>1 DEF FailedRunsDidNothing
  <2> QED
    BY <2>2, <2>3
<1> QED
  BY <1>7, <1>8, <1>9, <1>10, <1>11, <1>13, <1>14 DEF PluginInv

LEMMA RestoreHolds ==
    ASSUME PluginInv, NEW done \in SUBSET mounts, NEW ok \in BOOLEAN,
           NEW key \in RestoreKeys(template, env), RestoreMode(done, ok, key)
    PROVE  PluginInv'
<1> DEFINE path(m) == RemotePath(Namespace, key, m)
<1>1. /\ template' = template /\ override' = override /\ exitCode' = exitCode
      /\ mounts' = mounts /\ mode' = mode /\ env' = env /\ run' = run
      /\ objects' = objects /\ reported' = reported
      /\ kind' = kind /\ given' = given /\ calls' = calls /\ built' = built
      /\ client' = client /\ status' = status
      /\ at = "mode" /\ mode.restore
  BY DEF RestoreMode, settings, setupVars
<1>2. /\ \A m \in done : path(m) \in DOMAIN objects
      /\ restored' = [m \in done |-> objects[path(m)]]
  BY DEF RestoreMode
<1>3. PluginTypeOK /\ SetupInv /\ OutcomeInv /\ ObjectsInv /\ ReportedInv
  BY DEF PluginInv
<1>4. status = 0 /\ calls = <<>> /\ ~mode.rebuild
  BY <1>1, <1>3 DEF OutcomeInv, PluginTypeOK, SetupInv
<1>5. at' = "returned" /\ err' \in {"nil", "Error"}
  BY DEF RestoreMode, ModeReturns, Returns
<1>6. ASSUME NEW m \in DOMAIN restored'
      PROVE  /\ m \in mounts /\ MadeHere(restored'[m])
             /\ PathOf(restored'[m]) = path(m)
  <2>1. m \in done /\ restored'[m] = objects[path(m)] /\ path(m) \in DOMAIN objects
    BY <1>2, <1>6
  <2> QED
    BY <1>3, <2>1 DEF ObjectsInv
<1>7. PluginTypeOK'
  <2>1. \A m \in DOMAIN restored' : restored'[m] \in Archives
    BY <1>6 DEF MadeHere
  <2>2. DOMAIN restored' \subseteq mounts
    BY <1>6
  <2> QED
    BY <1>1, <1>3, <1>4, <1>5, <2>1, <2>2 DEF PluginTypeOK
<1>8. SetupInv'
  BY <1>1, <1>3, <1>5 DEF SetupInv
<1>9. ObjectsInv'
  BY <1>1, <1>3 DEF ObjectsInv, MadeHere, PathOf
<1>10. RestoredInv'
  BY <1>1, <1>6 DEF RestoredInv, MadeHere, PathOf
<1>11. ReportedInv'
  BY <1>1, <1>3 DEF ReportedInv, Found
<1>12. OutcomeInv'
  BY <1>1, <1>4, <1>5 DEF OutcomeInv
<1>13. FailedRunsDidNothing'
  BY <1>1, <1>4 DEF FailedRunsDidNothing
<1> QED
  BY <1>7, <1>8, <1>9, <1>10, <1>11, <1>12, <1>13 DEF PluginInv

(* The exit status says of the run what Exec has returned. *)
LEMMA ExitHolds ==
    ASSUME PluginInv, ExitPlugin
    PROVE  PluginInv'
<1>1. /\ template' = template /\ override' = override /\ exitCode' = exitCode
      /\ mounts' = mounts /\ mode' = mode /\ env' = env /\ run' = run
      /\ objects' = objects /\ restored' = restored
      /\ kind' = kind /\ given' = given /\ calls' = calls /\ built' = built
      /\ client' = client /\ err' = err
      /\ at = "returned" /\ at' = "over"
      /\ status' = ExitStatus(err, exitCode)
      /\ reported' = reported \cup {e \in {env} : mode.rebuild /\ exitCode /\ status' = 0}
  BY DEF ExitPlugin, settings, setupVars
<1>2. PluginTypeOK /\ SetupInv /\ OutcomeInv /\ ObjectsInv /\ RestoredInv /\ ReportedInv
  BY DEF PluginInv
<1>3. /\ err \in {"nil", "error", "Error"} /\ calls = <<>> /\ env \in Environments
      /\ err = "error" => DidNothing
      /\ err = "nil" /\ mode.rebuild => Found(env)
  BY <1>1, <1>2 DEF OutcomeInv, PluginTypeOK
<1>4. /\ status' \in {0, 1}
      /\ status' = 1 => err = "error" \/ exitCode
      /\ status' = 0 /\ exitCode => err = "nil"
  BY <1>1, <1>3 DEF ExitStatus
<1>5. PluginTypeOK'
  BY <1>1, <1>2, <1>3, <1>4 DEF PluginTypeOK
<1>6. SetupInv'
  BY <1>1, <1>2 DEF SetupInv
<1>7. ObjectsInv'
  BY <1>1, <1>2 DEF ObjectsInv, MadeHere, PathOf
<1>8. RestoredInv'
  BY <1>1, <1>2 DEF RestoredInv, MadeHere, PathOf
<1>9. ReportedInv'
  <2>1. ASSUME NEW e \in reported' PROVE Found(e)
    <3>1. CASE e \in reported
      BY <1>2, <3>1 DEF ReportedInv
    <3>2. CASE e = env /\ mode.rebuild /\ exitCode /\ status' = 0
      BY <1>3, <1>4, <3>2
    <3> QED
      BY <1>1, <2>1, <3>1, <3>2
  <2> QED
    BY <1>1, <2>1 DEF ReportedInv, Found
<1>10. OutcomeInv'
  BY <1>1 DEF OutcomeInv
<1>11. FailedRunsDidNothing'
  BY <1>1, <1>3, <1>4 DEF FailedRunsDidNothing, DidNothing
<1> QED
  BY <1>5, <1>6, <1>7, <1>8, <1>9, <1>10, <1>11 DEF PluginInv

LEMMA NextRunHolds ==
    ASSUME PluginInv, NextRun
    PROVE  PluginInv'
<1>1. /\ template' = template /\ override' = override /\ exitCode' = exitCode
      /\ mounts' = mounts /\ kind' = kind /\ given' = given
      /\ objects' = objects /\ reported' = reported
      /\ calls' = <<>> /\ built' = "none" /\ client' = {}
      /\ at' = "exec" /\ err' = "nil" /\ status' = 0
      /\ mode' \in Modes /\ env' \in Environments
      /\ run' = run + 1 /\ run < MaxRuns /\ restored' = NoArchives
  BY DEF NextRun, settings
<1>2. PluginTypeOK /\ ObjectsInv /\ ReportedInv
  BY DEF PluginInv
<1>3. run' \in 1..MaxRuns /\ run \in Nat /\ DOMAIN restored' = {}
  BY <1>1, <1>2, RunsAssumption DEF PluginTypeOK, NoArchives
<1>4. PluginTypeOK'
  BY <1>1, <1>2, <1>3 DEF PluginTypeOK
<1>5. SetupInv'
  BY <1>1 DEF SetupInv
<1>6. \A p \in DOMAIN objects : objects[p].run <= run /\ objects[p].run \in Nat
  <2>1. SUFFICES ASSUME NEW p \in DOMAIN objects
                 PROVE  objects[p].run <= run /\ objects[p].run \in Nat
    OBVIOUS
  <2>2. objects[p] \in Archives /\ objects[p].run <= run
    BY <1>2 DEF ObjectsInv, MadeHere
  <2>3. objects[p].run \in 1..MaxRuns
    BY <2>2 DEF Archives
  <2> QED
    BY <2>2, <2>3
<1>7. \A p \in DOMAIN objects : objects[p].run <= run' /\ objects[p].run < run'
  BY <1>1, <1>3, <1>6
<1>8. ObjectsInv'
  BY <1>1, <1>2, <1>7 DEF ObjectsInv, MadeHere, PathOf
<1>9. RestoredInv'
  BY <1>3 DEF RestoredInv
<1>10. ReportedInv'
  BY <1>1, <1>2 DEF ReportedInv, Found
<1>11. OutcomeInv'
  BY <1>1, <1>7 DEF OutcomeInv, DidNothing
<1>12. FailedRunsDidNothing'
  BY <1>1 DEF FailedRunsDidNothing
<1> QED
  BY <1>4, <1>5, <1>8, <1>9, <1>10, <1>11, <1>12 DEF PluginInv

LEMMA NextHolds ==
    ASSUME PluginInv, [PluginNext]_pluginVars
    PROVE  PluginInv'
<1>1. CASE ModesExclude \/ GetwdFails \/ CheckFails \/ Check \/ NoMode
  BY <1>1, RunGoesOn DEF ModesExclude, GetwdFails, CheckFails, Check, NoMode
<1>2. CASE SetUp
  BY <1>2, SetUpHolds
<1>3. ASSUME NEW done \in SUBSET mounts, NEW ok \in BOOLEAN,
             NEW key \in RebuildKeys(template, env),
             RebuildMode(done, ok, key) \/ RebuildPanics(done, key)
      PROVE  PluginInv'
  BY <1>3, RebuildHolds
<1>4. ASSUME NEW done \in SUBSET mounts, NEW ok \in BOOLEAN,
             NEW key \in RestoreKeys(template, env), RestoreMode(done, ok, key)
      PROVE  PluginInv'
  BY <1>4, RestoreHolds
<1>5. CASE ExitPlugin
  BY <1>5, ExitHolds
<1>6. CASE NextRun
  BY <1>6, NextRunHolds
<1>7. CASE UNCHANGED pluginVars
  <2>1. /\ template' = template /\ override' = override /\ exitCode' = exitCode
        /\ mounts' = mounts /\ mode' = mode /\ env' = env /\ run' = run
        /\ objects' = objects /\ restored' = restored /\ reported' = reported
        /\ kind' = kind /\ given' = given /\ calls' = calls /\ built' = built
        /\ client' = client /\ at' = at /\ err' = err /\ status' = status
    BY <1>7 DEF pluginVars, settings, setupVars
  <2>2. PluginTypeOK /\ SetupInv /\ OutcomeInv /\ FailedRunsDidNothing
    BY DEF PluginInv
  <2>3. /\ ObjectsInv' /\ RestoredInv' /\ ReportedInv'
        /\ DidNothing' <=> DidNothing
        /\ Found(env)' <=> Found(env)
    BY <2>1, NothingMoves DEF settings
  <2>4. PluginTypeOK'
    BY <2>1, <2>2 DEF PluginTypeOK
  <2>5. SetupInv'
    BY <2>1, <2>2 DEF SetupInv
  <2>6. OutcomeInv'
    BY <2>1, <2>2, <2>3 DEF OutcomeInv
  <2>7. FailedRunsDidNothing'
    BY <2>1, <2>2 DEF FailedRunsDidNothing, CheckPanicked
  <2> QED
    BY <2>3, <2>4, <2>5, <2>6, <2>7 DEF PluginInv
<1> QED
  BY <1>1, <1>2, <1>3, <1>4, <1>5, <1>6, <1>7 DEF PluginNext, Exec, PluginDone

-----------------------------------------------------------------------------
(* Theorems. *)

(* The fairness of the specification plays no part in what follows. *)
LEMMA SafePart == PluginSpec => PluginInit /\ [][PluginNext]_pluginVars
BY PTL DEF PluginSpec

(* The invariant holds for any number of runs, environments and command
   lines. *)
THEOREM PluginInvariance == PluginSpec => []PluginInv
<1>1. PluginInit => PluginInv
  BY InitHolds
<1>2. PluginInv /\ [PluginNext]_pluginVars => PluginInv'
  BY NextHolds
<1> QED
  BY <1>1, <1>2, SafePart, PTL

(* What the run of the plugin keeps in its variables (plugin.go:50-140,
   main.go:566-587). *)
THEOREM PluginTypeCorrect == PluginSpec => []PluginTypeOK
<1>1. PluginInv => PluginTypeOK
  BY DEF PluginInv
<1> QED
  BY <1>1, PluginInvariance, PTL

(* What a build was told to be cached is there for every later restore that
   makes its key of the same (main.go:566-587, plugin.go:124-138). *)
THEOREM ReportedIsFoundAlways == PluginSpec => []ReportedIsFound
<1>1. ASSUME PluginInv, NEW e \in reported, NEW f \in Environments, SameForKey(e, f)
      PROVE  Found(f)
  <2>1. KeyOf(template, e) = KeyOf(template, f)
    BY <1>1, Zenon DEF SameForKey, KeyOf
  <2>2. RestoreKeys(template, e) = RestoreKeys(template, f)
    BY <2>1, KeyValues
  <2>3. Found(e)
    BY <1>1 DEF PluginInv, ReportedInv
  <2> QED
    BY <2>2, <2>3 DEF Found
<1>2. PluginInv => ReportedIsFound
  BY <1>1 DEF ReportedIsFound, Found
<1> QED
  BY <1>2, PluginInvariance, PTL

(* A run that fails its build without exit-code has stored and restored nothing,
   unless it has panicked in the existence check of s3 (main.go:571-587,
   plugin.go:62-64, 89-91, 107-110, s3.go:128, 137). *)
THEOREM FailedRunsDidNothingAlways == PluginSpec => []FailedRunsDidNothing
<1>1. PluginInv => FailedRunsDidNothing
  BY DEF PluginInv
<1> QED
  BY <1>1, PluginInvariance, PTL

(* A restore gets archives of its mounts that were made under its own key, if no
   mount begins with the digest that is a key (rebuilder.go:60,
   restorer.go:52). *)
THEOREM OwnArchivesAlways ==
    ASSUME PlainNames
    PROVE  PluginSpec => []OwnArchives
<1>1. ASSUME PluginInv, Flat, NEW m \in DOMAIN restored
      PROVE  /\ restored[m].mount = m
             /\ restored[m].key \in RebuildKeys(template, env)
             /\ template \in {"unset", "failing"}
                    => restored[m].key = <<env.branch.md5>>
  <2>1. /\ PluginTypeOK /\ env \in Environments
        /\ m \in mounts /\ MadeHere(restored[m])
    BY <1>1 DEF PluginInv, PluginTypeOK, RestoredInv
  <2>2. PICK key \in RestoreKeys(template, env) :
            PathOf(restored[m]) = RemotePath(Namespace, key, m)
    BY <1>1 DEF PluginInv, RestoredInv
  <2>3. PICK e \in Environments : restored[m].key \in RebuildKeys(template, e)
    BY <2>1 DEF MadeHere
  <2>4. PICK l \in CommandLines : l.template = template /\ l.mounts = mounts
    BY <2>1, Settings
  <2>5. FlatSettings(l.template, l.mounts) /\ restored[m].mount \in l.mounts
    BY <1>1, <2>1, <2>4 DEF Flat, MadeHere
  <2>6. RemotePath(Namespace, restored[m].key, restored[m].mount)
            = RemotePath(Namespace, key, m)
    BY <2>2 DEF PathOf
  <2>7. restored[m].mount = m /\ restored[m].key = key
    <3>1. PathsApart
      BY NamesKeepApart
    <3> QED
      BY <2>1, <2>2, <2>3, <2>4, <2>5, <2>6, <3>1 DEF PathsApart
  <2>8. /\ key \in RebuildKeys(template, env)
        /\ template \in {"unset", "failing"} => key = <<env.branch.md5>>
    BY <2>1, <2>2, KeysAreOne
  <2> QED
    BY <2>7, <2>8
<1>2. PluginInv => OwnArchives
  BY <1>1 DEF OwnArchives
<1> QED
  BY <1>2, PluginInvariance, PTL
=============================================================================
