-------------------------- MODULE BuildScriptProofs --------------------------
(***************************************************************************)
(* What holds of builds for any index, any flow files and any number of    *)
(* edits: what is compiled is never torn, and after a calm build that      *)
(* succeeded it is what the files hold.                                    *)
(***************************************************************************)
EXTENDS BuildScript, SequenceTheorems, TLAPS

-----------------------------------------------------------------------------
(***************************************************************************)
(* The invariant.                                                          *)
(***************************************************************************)
Mains == {"run_with_default", "run_with_env"}

\* A file holds what belongs at its path, or is missing or rejected.
DiskInv ==
  /\ main \in Mains
  /\ disk = [path \in IndexPaths \cup FlowPaths |-> disk[path]]
  /\ \A path \in IndexPaths : disk[path] \in Indexes \cup {Missing, Rejected}
  /\ \A path \in FlowPaths : disk[path] \in Flows \cup {Missing, Rejected}

\* What the script knows of a file is true unless the file was edited since
\* the script was started.
IndexRead == index \notin since => disk[index] = Whole(listed)

FlowsRead ==
  /\ Len(got) <= Len(listed)
  /\ \A i \in DOMAIN got :
       /\ got[i][1] = listed[i]
       /\ listed[i] \notin since => disk[listed[i]] = Whole(got[i][2])

\* Cargo watches every file that was read.
Watched == index \in watch /\ \A i \in DOMAIN got : listed[i] \in watch

RunningInv ==
  /\ at # "rest" => /\ ~fresh /\ outcome = "none" /\ env_seen = env[WatchedKey]
                    /\ calm => since = {}
  /\ at \in {"index", "flows", "exit"} => index = IndexInForce /\ index \in watch
  /\ at = "index" => got = <<>>
  /\ at \in {"flows", "exit"} => IndexRead /\ FlowsRead /\ Watched
  /\ at = "exit" => Len(got) = Len(listed) /\ out_file = Whole(got)

\* The result that cargo holds on to.
FreshInv ==
  /\ outcome = "ok" => fresh
  /\ fresh =>
       /\ at = "rest" /\ out_file = Whole(got) /\ compiled = out_file
       /\ IndexRead /\ FlowsRead /\ Watched /\ Len(got) = Len(listed)
       /\ main = "run_with_default" => index = DefaultIndex
       /\ main = "run_with_env" /\ EnvKey = WatchedKey => index = env_seen

\* Calm is what a build that succeeded found, or had.
CalmInv ==
  at = "rest" /\ outcome = "ok" /\ calm => env[WatchedKey] = env_seen /\ watch \cap since = {}

BuildInv ==
  /\ BuildTypeOK
  /\ DiskInv
  /\ RunningInv
  /\ FreshInv
  /\ CalmInv

-----------------------------------------------------------------------------
(***************************************************************************)
(* Files and sequences of them.                                            *)
(***************************************************************************)
LEMMA FileKinds ==
  /\ \A c, d : Whole(c) = Whole(d) <=> c = d
  /\ \A c : Whole(c).holds = c /\ Whole(c) \notin {Missing, Rejected, Torn}
  <1>1. \A c : Whole(c).holds = c /\ Whole(c).kind = "whole"
    BY DEF Whole
  <1>2. Missing.kind # "whole" /\ Rejected.kind # "whole" /\ Torn.kind # "whole"
    BY DEF Missing, Rejected, Torn
  <1> QED
    BY <1>1, <1>2

\* What was listed and rendered so far.
LEMMA ReadTypes ==
  ASSUME BuildTypeOK
  PROVE  /\ listed \in Seq(FlowPaths) /\ Len(listed) \in Nat /\ DOMAIN listed = 1 .. Len(listed)
         /\ \A i \in DOMAIN listed : listed[i] \in FlowPaths
         /\ got \in Seq(FlowPaths \X Versions) /\ Len(got) \in Nat /\ DOMAIN got = 1 .. Len(got)
  <1>1. listed \in Seq(FlowPaths)
    BY ListingsAssumption, EmptySeq DEF BuildTypeOK
  <1>2. got \in Seq(FlowPaths \X Versions)
    BY DEF BuildTypeOK, Rendered
  <1>3. Len(listed) \in Nat /\ DOMAIN listed = 1 .. Len(listed)
        /\ \A i \in DOMAIN listed : listed[i] \in FlowPaths
    BY <1>1
  <1>4. PICK Pair : Pair = FlowPaths \X Versions
    OBVIOUS
  <1>5. Len(got) \in Nat /\ DOMAIN got = 1 .. Len(got)
    BY <1>2, <1>4
  <1> QED
    BY <1>1, <1>2, <1>3, <1>5

\* Once everything listed is rendered, `got` tells what the files hold that
\* were not edited.
LEMMA AllRead ==
  ASSUME BuildTypeOK, FlowsRead, Len(got) = Len(listed),
         \A i \in DOMAIN got : listed[i] \notin since
  PROVE  got = [i \in DOMAIN listed |-> <<listed[i], disk[listed[i]].holds>>]
  <1> DEFINE held == [i \in DOMAIN listed |-> <<listed[i], disk[listed[i]].holds>>]
  <1>1. DOMAIN got = 1 .. Len(got) /\ DOMAIN listed = 1 .. Len(got) /\ Len(got) \in Nat
    BY ReadTypes
  <1>2. ASSUME NEW i \in 1 .. Len(got)
        PROVE  got[i] = <<listed[i], disk[listed[i]].holds>>
    <2>1. got[i][1] = listed[i] /\ disk[listed[i]].holds = got[i][2]
      BY <1>1, FileKinds DEF FlowsRead
    <2>2. got[i] \in FlowPaths \X Versions
      <3>1. got \in Seq(FlowPaths \X Versions)
        BY ReadTypes
      <3> QED
        BY <3>1, ElementOfSeq
    <2>3. got[i] = <<got[i][1], got[i][2]>>
      BY <2>2
    <2> QED
      BY <2>1, <2>3
  <1>3. got = [i \in 1 .. Len(got) |-> got[i]]
    <2>1. got \in Seq(FlowPaths \X Versions)
      BY ReadTypes
    <2>2. got \in [1 .. Len(got) -> FlowPaths \X Versions]
      BY <2>1, LenProperties
    <2> QED
      BY <2>2
  <1> QED
    BY <1>1, <1>2, <1>3

\* A file does not change what the script and cargo know of it by an edit of
\* another one.
LEMMA EditedElsewhere ==
  ASSUME BuildInv, NEW path \in IndexPaths \cup FlowPaths, NEW content,
         disk' = [disk EXCEPT ![path] = content], since' = since \cup {path},
         UNCHANGED <<index, listed, got, watch>>
  PROVE  /\ IndexRead => IndexRead'
         /\ FlowsRead => FlowsRead'
         /\ Watched => Watched'
  <1>1. \A p \in IndexPaths \cup FlowPaths : p \notin since' => p \notin since /\ disk'[p] = disk[p]
    BY DEF BuildInv, DiskInv
  <1>2. index \in IndexPaths /\ \A i \in DOMAIN listed : listed[i] \in FlowPaths
    BY ReadTypes DEF BuildInv, BuildTypeOK
  <1>3. IndexRead => IndexRead'
    BY <1>1, <1>2 DEF IndexRead
  <1>4. ASSUME FlowsRead
        PROVE  FlowsRead'
    <2>1. \A i \in DOMAIN got : listed[i] \in FlowPaths
      BY <1>2, <1>4, ReadTypes DEF FlowsRead, BuildInv
    <2> QED
      BY <1>1, <1>4, <2>1 DEF FlowsRead
  <1>5. Watched => Watched'
    BY DEF Watched
  <1> QED
    BY <1>3, <1>4, <1>5

-----------------------------------------------------------------------------
(***************************************************************************)
(* The invariant is inductive, one lemma per action.                       *)
(***************************************************************************)
LEMMA BuildStart == Init => BuildInv
  <1> SUFFICES ASSUME Init
               PROVE  BuildInv
    OBVIOUS
  <1>1. /\ at = "rest" /\ fresh = FALSE /\ outcome = "none" /\ listed = <<>> /\ got = <<>>
        /\ out_file = Missing /\ compiled = Missing /\ watch = {} /\ since = {}
        /\ index = DefaultIndex /\ edits = 0 /\ calm = TRUE /\ env_seen = "unset"
    BY DEF Init
  <1>2. BuildTypeOK
    <2>1. got \in Rendered
      BY <1>1 DEF Rendered
    <2>2. env \in [EnvKeys -> IndexPaths \cup {"unset"}]
      BY PathsAssumption DEF Init
    <2>3. edits \in 0 .. MaxEdits
      BY <1>1, EditsAssumption
    <2> QED
      BY <1>1, <2>1, <2>2, <2>3, PathsAssumption DEF BuildTypeOK
  <1>3. DiskInv
    BY DEF Init, DiskInv, Mains
  <1>4. RunningInv /\ FreshInv /\ CalmInv
    BY <1>1 DEF RunningInv, FreshInv, CalmInv
  <1> QED
    BY <1>2, <1>3, <1>4 DEF BuildInv

\* The user edits an index or a flow file.
LEMMA EditStep ==
  ASSUME BuildInv, NEW path \in IndexPaths \cup FlowPaths, NEW content,
         \/ path \in IndexPaths /\ content \in Indexes \cup {Missing, Rejected}
         \/ path \in FlowPaths /\ content \in Flows \cup {Missing, Rejected},
         Edit(path, content)
  PROVE  BuildInv'
  <1>1. /\ edits < MaxEdits /\ edits' = edits + 1 /\ calm' = FALSE
        /\ disk' = [disk EXCEPT ![path] = content] /\ since' = since \cup {path}
        /\ UNCHANGED <<main, env, at, index, listed, got, watch, out_file>>
        /\ UNCHANGED <<fresh, env_seen, outcome, compiled>>
    BY DEF Edit, scriptVars
  <1>2. edits' \in 0 .. MaxEdits
    <2>1. edits \in 0 .. MaxEdits /\ MaxEdits \in Nat
      BY EditsAssumption DEF BuildInv, BuildTypeOK
    <2> QED
      BY <1>1, <2>1
  <1>3. BuildTypeOK'
    BY <1>1, <1>2 DEF BuildInv, BuildTypeOK
  <1>4. DiskInv'
    <2>1. disk = [p \in IndexPaths \cup FlowPaths |-> disk[p]]
      BY DEF BuildInv, DiskInv
    <2>2. \A p \in IndexPaths \cup FlowPaths : disk'[p] = IF p = path THEN content ELSE disk[p]
      BY <1>1, <2>1
    <2>3. disk' = [p \in IndexPaths \cup FlowPaths |-> disk'[p]]
      BY <1>1, <2>1
    <2>4. \A p \in IndexPaths : disk'[p] \in Indexes \cup {Missing, Rejected}
      BY <2>2, PathsAssumption DEF BuildInv, DiskInv
    <2>5. \A p \in FlowPaths : disk'[p] \in Flows \cup {Missing, Rejected}
      BY <2>2, PathsAssumption DEF BuildInv, DiskInv
    <2> QED
      BY <1>1, <2>3, <2>4, <2>5 DEF BuildInv, DiskInv
  <1>5. (IndexRead => IndexRead') /\ (FlowsRead => FlowsRead') /\ (Watched => Watched')
    BY <1>1, EditedElsewhere
  <1>6. RunningInv'
    BY <1>1, <1>5 DEF BuildInv, RunningInv, IndexInForce
  <1>7. FreshInv' /\ CalmInv'
    BY <1>1, <1>5 DEF BuildInv, FreshInv, CalmInv
  <1> QED
    BY <1>3, <1>4, <1>6, <1>7 DEF BuildInv

LEMMA EnvStep ==
  ASSUME BuildInv, NEW key \in EnvKeys, NEW value \in IndexPaths \cup {"unset"}, SetEnv(key, value)
  PROVE  BuildInv'
  <1>1. /\ at = "rest" /\ edits < MaxEdits /\ edits' = edits + 1 /\ calm' = FALSE
        /\ env' = [env EXCEPT ![key] = value]
        /\ UNCHANGED <<main, disk, at, index, listed, got, watch, out_file>>
        /\ UNCHANGED <<fresh, since, env_seen, outcome, compiled>>
    BY DEF SetEnv, scriptVars, cargoVars
  <1>2. edits' \in 0 .. MaxEdits
    <2>1. edits \in 0 .. MaxEdits /\ MaxEdits \in Nat
      BY EditsAssumption DEF BuildInv, BuildTypeOK
    <2> QED
      BY <1>1, <2>1
  <1>3. BuildTypeOK'
    BY <1>1, <1>2 DEF BuildInv, BuildTypeOK
  <1>4. DiskInv'
    BY <1>1 DEF BuildInv, DiskInv
  <1>5. (IndexRead => IndexRead') /\ (FlowsRead => FlowsRead') /\ (Watched => Watched')
    BY <1>1 DEF IndexRead, FlowsRead, Watched
  <1>6. RunningInv' /\ FreshInv' /\ CalmInv'
    BY <1>1, <1>5 DEF BuildInv, RunningInv, FreshInv, CalmInv
  <1> QED
    BY <1>3, <1>4, <1>6 DEF BuildInv

\* A build that finds nothing to do vouches for what an earlier one compiled.
LEMMA CargoStep ==
  ASSUME BuildInv, CargoBuild
  PROVE  BuildInv'
  <1>1. /\ at = "rest" /\ calm' = TRUE
        /\ UNCHANGED <<main, env, disk, edits, index, listed, got, out_file, compiled>>
    BY DEF CargoBuild
  <1>2. CASE Stale
    <2>1. /\ at' = "main" /\ watch' = {} /\ fresh' = FALSE /\ since' = {}
          /\ env_seen' = env[WatchedKey] /\ outcome' = "none"
      BY <1>2 DEF CargoBuild
    <2>2. env[WatchedKey] \in IndexPaths \cup {"unset"}
      BY DEF BuildInv, BuildTypeOK, EnvKeys
    <2>3. BuildTypeOK'
      BY <1>1, <2>1, <2>2 DEF BuildInv, BuildTypeOK
    <2> QED
      BY <1>1, <2>1, <2>3 DEF BuildInv, DiskInv, RunningInv, FreshInv, CalmInv
  <1>3. CASE ~Stale
    <2>1. /\ outcome' = "ok" /\ UNCHANGED <<at, watch, fresh, since, env_seen>>
          /\ fresh /\ env[WatchedKey] = env_seen /\ watch \cap since = {}
      BY <1>3 DEF CargoBuild, Stale
    <2>2. BuildTypeOK'
      BY <1>1, <2>1 DEF BuildInv, BuildTypeOK
    <2>3. (IndexRead => IndexRead') /\ (FlowsRead => FlowsRead') /\ (Watched => Watched')
      BY <1>1, <2>1 DEF IndexRead, FlowsRead, Watched
    <2>4. DiskInv' /\ CalmInv'
      BY <1>1, <2>1 DEF BuildInv, DiskInv, CalmInv
    <2>5. FreshInv'
      BY <1>1, <2>1, <2>3 DEF BuildInv, FreshInv
    <2>6. RunningInv'
      BY <1>1, <2>1 DEF RunningInv
    <2> QED
      BY <2>2, <2>4, <2>5, <2>6 DEF BuildInv
  <1> QED
    BY <1>2, <1>3

\* The script ends without a result that cargo keeps.
LEMMA Dies ==
  ASSUME BuildInv, at # "rest", Panic, UNCHANGED userVars,
         index' \in IndexPaths, listed' \in Listings \cup {<<>>}, got' \in Rendered,
         watch' \subseteq IndexPaths \cup FlowPaths,
         out_file' \in {Missing, Torn} \/ out_file'.holds \in Rendered
  PROVE  BuildInv'
  <1>1. /\ at' = "rest" /\ outcome' = "failed" /\ UNCHANGED <<fresh, since, env_seen, compiled>>
        /\ UNCHANGED <<main, env, disk, edits, calm>> /\ ~fresh
    BY DEF Panic, userVars, BuildInv, RunningInv
  <1>2. BuildTypeOK'
    BY <1>1 DEF BuildInv, BuildTypeOK
  <1> QED
    BY <1>1, <1>2 DEF BuildInv, DiskInv, RunningInv, FreshInv, CalmInv

LEMMA FindStep ==
  ASSUME BuildInv, FindIndex
  PROVE  BuildInv'
  <1>1. /\ at = "main" /\ got' = <<>> /\ UNCHANGED <<userVars, listed, out_file>>
        /\ UNCHANGED <<main, env, disk, edits, calm>>
    BY DEF FindIndex, userVars
  <1>2. BuildTypeOK /\ DiskInv /\ <<>> \in Rendered
    BY DEF BuildInv, Rendered
  <1>3. CASE IndexInForce = "unset"
    <2>1. Panic /\ UNCHANGED <<index, watch>>
      BY <1>3 DEF FindIndex, IndexInForce
    <2> QED
      BY <1>1, <1>2, <2>1, Dies DEF BuildTypeOK
  <1>4. CASE IndexInForce # "unset"
    <2>1. index' = IndexInForce /\ watch' = {IndexInForce} /\ at' = "index" /\ UNCHANGED cargoVars
      BY <1>4 DEF FindIndex, IndexInForce
    <2>2. UNCHANGED <<fresh, since, env_seen, outcome, compiled>>
      BY <2>1 DEF cargoVars
    <2>3. IndexInForce \in IndexPaths /\ IndexInForce' = IndexInForce
      BY <1>1, <1>2, <1>4, PathsAssumption DEF IndexInForce, BuildTypeOK, EnvKeys
    <2>4. BuildTypeOK'
      BY <1>1, <1>2, <2>1, <2>2, <2>3 DEF BuildTypeOK
    <2>5. RunningInv'
      BY <1>1, <2>1, <2>2, <2>3 DEF BuildInv, RunningInv
    <2>6. DiskInv' /\ FreshInv' /\ CalmInv'
      BY <1>1, <2>1, <2>2 DEF BuildInv, DiskInv, FreshInv, CalmInv, RunningInv
    <2> QED
      BY <2>4, <2>5, <2>6 DEF BuildInv
  <1> QED
    BY <1>3, <1>4

\* What a script that goes on leaves alone.
LEMMA GoesOn ==
  ASSUME BuildInv, at # "rest", at' # "rest", UNCHANGED <<userVars, cargoVars>>, BuildTypeOK',
         at' \in {"index", "flows", "exit"} => index' = IndexInForce /\ index' \in watch',
         at' = "index" => got' = <<>>,
         at' \in {"flows", "exit"} => IndexRead' /\ FlowsRead' /\ Watched',
         at' = "exit" => Len(got') = Len(listed') /\ out_file' = Whole(got')
  PROVE  BuildInv'
  <1>1. UNCHANGED <<main, env, disk, edits, calm>>
        /\ UNCHANGED <<fresh, since, env_seen, outcome, compiled>> /\ ~fresh /\ outcome # "ok"
    BY DEF userVars, cargoVars, BuildInv, RunningInv
  <1>2. DiskInv' /\ IndexInForce' = IndexInForce
    BY <1>1 DEF BuildInv, DiskInv, IndexInForce
  <1>3. RunningInv'
    BY <1>1, <1>2 DEF BuildInv, RunningInv
  <1>4. FreshInv' /\ CalmInv'
    BY <1>1 DEF FreshInv, CalmInv
  <1> QED
    BY <1>2, <1>3, <1>4 DEF BuildInv

LEMMA ReadIndexStep ==
  ASSUME BuildInv, ReadIndex
  PROVE  BuildInv'
  <1>1. /\ at = "index" /\ UNCHANGED <<userVars, index, got, watch, out_file>>
        /\ UNCHANGED <<main, env, disk, edits, calm>>
        /\ index = IndexInForce /\ index \in watch /\ got = <<>>
    BY DEF ReadIndex, userVars, BuildInv, RunningInv
  <1>2. BuildTypeOK /\ DiskInv
    BY DEF BuildInv
  <1>3. CASE disk[index] \in {Missing, Rejected}
    <2>1. Panic /\ UNCHANGED listed
      BY <1>3 DEF ReadIndex, GenerateFails
    <2> QED
      BY <1>1, <1>2, <2>1, Dies DEF BuildTypeOK
  <1>4. CASE disk[index] \notin {Missing, Rejected}
    <2>1. listed' = disk[index].holds /\ at' = "flows" /\ UNCHANGED cargoVars
      BY <1>4 DEF ReadIndex
    <2>2. UNCHANGED <<fresh, since, env_seen, outcome, compiled>>
      BY <2>1 DEF cargoVars
    <2>3. PICK l \in Listings : disk[index] = Whole(l)
      BY <1>2, <1>4 DEF BuildTypeOK, DiskInv, Indexes
    <2>4. listed' = l /\ l \in Seq(FlowPaths) /\ Len(l) \in Nat
      BY <2>1, <2>3, FileKinds, ListingsAssumption
    <2>5. BuildTypeOK'
      BY <1>1, <1>2, <2>1, <2>2, <2>4 DEF BuildTypeOK
    <2>6. IndexRead' /\ Watched'
      BY <1>1, <2>3, <2>4 DEF IndexRead, Watched
    <2>7. FlowsRead'
      <3>1. got' = <<>> /\ Len(got') = 0 /\ DOMAIN got' = {}
        BY <1>1
      <3> QED
        BY <2>4, <3>1 DEF FlowsRead
    <2> QED
      BY <1>1, <2>1, <2>5, <2>6, <2>7, GoesOn
  <1> QED
    BY <1>3, <1>4

LEMMA ReadFlowStep ==
  ASSUME BuildInv, ReadFlow
  PROVE  BuildInv'
  <1> DEFINE n == Len(got)
             path == listed[n + 1]
  <1>1. /\ at = "flows" /\ n < Len(listed) /\ watch' = watch \cup {path}
        /\ UNCHANGED <<userVars, index, listed, out_file>>
        /\ UNCHANGED <<main, env, disk, edits, calm>>
        /\ index = IndexInForce /\ index \in watch
        /\ IndexRead /\ FlowsRead /\ Watched
    BY DEF ReadFlow, WatchFlow, userVars, BuildInv, RunningInv
  <1>2. BuildTypeOK /\ DiskInv
    BY DEF BuildInv
  <1>3. /\ n \in Nat /\ Len(listed) \in Nat /\ n + 1 \in DOMAIN listed /\ path \in FlowPaths
        /\ n + 1 <= Len(listed) /\ DOMAIN got = 1 .. n
    <2>1. /\ Len(listed) \in Nat /\ DOMAIN listed = 1 .. Len(listed)
          /\ \A i \in DOMAIN listed : listed[i] \in FlowPaths
          /\ n \in Nat /\ DOMAIN got = 1 .. n
      BY <1>2, ReadTypes
    <2>2. n + 1 \in 1 .. Len(listed) /\ n + 1 <= Len(listed)
      BY <1>1, <2>1
    <2> QED
      BY <2>1, <2>2
  <1> HIDE DEF n, path
  <1>4. watch' \subseteq IndexPaths \cup FlowPaths
    BY <1>1, <1>2, <1>3 DEF BuildTypeOK
  <1>5. CASE disk[path] \in {Missing, Rejected}
    <2>1. Panic /\ UNCHANGED got
      BY <1>5 DEF ReadFlow, GenerateFails, path, n
    <2> QED
      BY <1>1, <1>2, <1>4, <2>1, Dies DEF BuildTypeOK
  <1>6. CASE disk[path] \notin {Missing, Rejected}
    <2> DEFINE pair == <<path, disk[path].holds>>
    <2>1. got' = Append(got, pair) /\ UNCHANGED <<at, cargoVars>>
      BY <1>6 DEF ReadFlow, path, n
    <2>2. UNCHANGED <<fresh, since, env_seen, outcome, compiled>>
      BY <2>1 DEF cargoVars
    <2>3. PICK v \in Versions : disk[path] = Whole(v)
      BY <1>2, <1>3, <1>6 DEF DiskInv, Flows
    <2>4. pair \in FlowPaths \X Versions /\ pair[1] = path /\ disk[path] = Whole(pair[2])
      BY <2>3, <1>3, FileKinds
    <2> HIDE DEF pair
    <2>5. /\ got' \in Seq(FlowPaths \X Versions) /\ Len(got') = n + 1
          /\ DOMAIN got' = (1 .. n) \cup {n + 1} /\ got'[n + 1] = pair
          /\ \A i \in 1 .. n : got'[i] = got[i]
      <3>1. PICK Pair : Pair = FlowPaths \X Versions
        OBVIOUS
      <3>2. got \in Seq(Pair) /\ pair \in Pair
        BY <1>2, <2>4, <3>1, ReadTypes
      <3>3. /\ got' \in Seq(Pair) /\ Len(got') = n + 1 /\ got'[n + 1] = pair
            /\ DOMAIN got' = 1 .. n + 1 /\ \A i \in 1 .. n : got'[i] = got[i]
        BY <2>1, <3>2 DEF n
      <3> QED
        BY <1>3, <3>1, <3>3
    <2>6. BuildTypeOK'
      BY <1>1, <1>2, <1>4, <2>1, <2>2, <2>5 DEF BuildTypeOK, Rendered
    <2>7. IndexRead'
      BY <1>1, <2>2 DEF IndexRead
    <2>8. FlowsRead'
      <3>1. \A i \in 1 .. n : /\ got'[i][1] = listed[i]
                              /\ listed[i] \notin since => disk[listed[i]] = Whole(got'[i][2])
        BY <1>1, <1>3, <2>5 DEF FlowsRead
      <3>2. got'[n + 1][1] = listed[n + 1] /\ disk[listed[n + 1]] = Whole(got'[n + 1][2])
        BY <2>4, <2>5 DEF path
      <3> QED
        BY <1>1, <1>3, <2>2, <2>5, <3>1, <3>2 DEF FlowsRead
    <2>9. Watched'
      <3>1. \A i \in 1 .. n : listed[i] \in watch
        BY <1>1, <1>3 DEF Watched
      <3> QED
        BY <1>1, <2>5, <3>1 DEF Watched, path
    <2> QED
      BY <1>1, <2>1, <2>6, <2>7, <2>8, <2>9, GoesOn
  <1> QED
    BY <1>5, <1>6

\* The file is written only when every listed flow was rendered; what is not
\* written to the end is left behind by a script that failed.
LEMMA WriteStep ==
  ASSUME BuildInv, WriteFile
  PROVE  BuildInv'
  <1>1. /\ at = "flows" /\ Len(got) = Len(listed) /\ UNCHANGED <<userVars, index, listed, got, watch>>
        /\ index = IndexInForce /\ index \in watch
        /\ IndexRead /\ FlowsRead /\ Watched
    BY DEF WriteFile, BuildInv, RunningInv
  <1>2. BuildTypeOK
    BY DEF BuildInv
  <1>3. CASE out_file' = Whole(got) /\ at' = "exit" /\ UNCHANGED cargoVars
    <2>1. UNCHANGED <<main, env, disk, edits, calm>>
          /\ UNCHANGED <<fresh, since, env_seen, outcome, compiled>>
      BY <1>1, <1>3 DEF userVars, cargoVars
    <2>2. out_file'.holds \in Rendered
      BY <1>2, <1>3, FileKinds DEF BuildTypeOK
    <2>3. BuildTypeOK'
      BY <1>1, <1>2, <1>3, <2>1, <2>2 DEF BuildTypeOK
    <2>4. IndexRead' /\ FlowsRead' /\ Watched'
      BY <1>1, <2>1 DEF IndexRead, FlowsRead, Watched
    <2> QED
      BY <1>1, <1>3, <2>3, <2>4, GoesOn
  <1>4. CASE out_file' \in {out_file, Torn} /\ GenerateFails
    BY <1>1, <1>2, <1>4, Dies DEF BuildTypeOK, GenerateFails
  <1> QED
    BY <1>3, <1>4 DEF WriteFile

LEMMA ExitStep ==
  ASSUME BuildInv, Exit
  PROVE  BuildInv'
  <1>1. /\ at = "exit" /\ at' = "rest" /\ fresh' = TRUE /\ outcome' = "ok" /\ compiled' = out_file
        /\ UNCHANGED <<main, env, disk, edits, calm>>
        /\ UNCHANGED <<index, listed, got, watch, out_file, since, env_seen>>
    BY DEF Exit, userVars
  <1>2. /\ index = IndexInForce /\ IndexRead /\ FlowsRead /\ Watched
        /\ Len(got) = Len(listed) /\ out_file = Whole(got)
        /\ env_seen = env[WatchedKey] /\ (calm => since = {})
    BY <1>1 DEF BuildInv, RunningInv
  <1>3. BuildTypeOK'
    BY <1>1 DEF BuildInv, BuildTypeOK
  <1>4. IndexRead' /\ FlowsRead' /\ Watched'
    BY <1>1, <1>2 DEF IndexRead, FlowsRead, Watched
  <1>5. FreshInv'
    BY <1>1, <1>2, <1>4 DEF FreshInv, IndexInForce
  <1>6. DiskInv' /\ RunningInv' /\ CalmInv'
    BY <1>1, <1>2 DEF BuildInv, DiskInv, RunningInv, CalmInv
  <1> QED
    BY <1>3, <1>5, <1>6 DEF BuildInv

LEMMA KillStep ==
  ASSUME BuildInv, Kill
  PROVE  BuildInv'
  <1>1. /\ at # "rest" /\ Panic /\ out_file' \in {out_file, Torn}
        /\ UNCHANGED <<userVars, index, listed, got, watch>>
    BY DEF Kill
  <1> QED
    BY <1>1, Dies DEF BuildInv, BuildTypeOK

LEMMA BuildStep ==
  ASSUME BuildInv, [Next]_vars
  PROVE  BuildInv'
  <1>1. CASE Next
    BY <1>1, EditStep, EnvStep, CargoStep, FindStep, ReadIndexStep, ReadFlowStep, WriteStep,
       ExitStep, KillStep DEF Next
  <1>2. CASE UNCHANGED vars
    <2>1. UNCHANGED <<main, env, disk, edits, calm, at, index, listed, got, watch, out_file>>
          /\ UNCHANGED <<fresh, since, env_seen, outcome, compiled>>
      BY <1>2 DEF vars, userVars, scriptVars, cargoVars
    <2>2. IndexRead' = IndexRead /\ FlowsRead' = FlowsRead /\ Watched' = Watched
          /\ IndexInForce' = IndexInForce
      BY <2>1 DEF IndexRead, FlowsRead, Watched, IndexInForce
    <2>3. BuildTypeOK' /\ DiskInv'
      BY <2>1 DEF BuildInv, BuildTypeOK, DiskInv
    <2>4. RunningInv' /\ FreshInv' /\ CalmInv'
      BY <2>1, <2>2 DEF BuildInv, RunningInv, FreshInv, CalmInv
    <2> QED
      BY <2>3, <2>4 DEF BuildInv
  <1> QED
    BY <1>1, <1>2

-----------------------------------------------------------------------------
(***************************************************************************)
(* The theorems.                                                           *)
(***************************************************************************)

\* The invariant of the builds.
THEOREM BuildInvariant == Spec => []BuildInv
  BY BuildStart, BuildStep, PTL DEF Spec

\* The variables are of their types.
THEOREM BuildTypes == Spec => []BuildTypeOK
  <1>1. BuildInv => BuildTypeOK
    BY DEF BuildInv
  <1> QED
    BY <1>1, BuildInvariant, PTL

\* What a failed or killed run of the script left torn is never compiled, and
\* a build that succeeded compiled what is in the file now.
THEOREM WholeFilesAlways == Spec => []OnlyWholeFilesCompiled
  <1>1. BuildInv => OnlyWholeFilesCompiled
    BY FileKinds DEF BuildInv, FreshInv, OnlyWholeFilesCompiled
  <1> QED
    BY <1>1, BuildInvariant, PTL

(***************************************************************************)
(* A calm build that succeeded compiled what the files hold, wherever      *)
(* cargo watches the variable that names the index, and always under       *)
(* run_with_default, which reads none.                                     *)
(***************************************************************************)
THEOREM BuildsAreUpToDate ==
  Spec => [](EnvKey = WatchedKey \/ main = "run_with_default" => UpToDate)
  <1>1. ASSUME BuildInv, EnvKey = WatchedKey \/ main = "run_with_default",
               at = "rest", outcome = "ok", calm
        PROVE  /\ IndexInForce \in IndexPaths
               /\ compiled = Whole([i \in DOMAIN disk[IndexInForce].holds |->
                                      <<disk[IndexInForce].holds[i],
                                        disk[disk[IndexInForce].holds[i]].holds>>])
    <2>1. /\ fresh /\ compiled = Whole(got)
          /\ IndexRead /\ FlowsRead /\ Watched /\ Len(got) = Len(listed)
          /\ env[WatchedKey] = env_seen /\ watch \cap since = {}
      BY <1>1 DEF BuildInv, FreshInv, CalmInv
    <2>2. index = IndexInForce
      BY <1>1, <2>1 DEF BuildInv, FreshInv, DiskInv, Mains, IndexInForce
    <2>3. index \in IndexPaths
      BY <1>1 DEF BuildInv, BuildTypeOK
    <2>4. disk[index].holds = listed
      BY <2>1, FileKinds DEF IndexRead, Watched
    <2>5. \A i \in DOMAIN got : listed[i] \notin since
      BY <2>1 DEF Watched
    <2>6. got = [i \in DOMAIN listed |-> <<listed[i], disk[listed[i]].holds>>]
      BY <1>1, <2>1, <2>5, AllRead DEF BuildInv
    <2> QED
      BY <2>1, <2>2, <2>3, <2>4, <2>6
  <1>2. BuildInv => (EnvKey = WatchedKey \/ main = "run_with_default" => UpToDate)
    BY <1>1 DEF UpToDate
  <1> QED
    BY <1>2, BuildInvariant, PTL

=============================================================================
