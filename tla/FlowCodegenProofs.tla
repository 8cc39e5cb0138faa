-------------------------- MODULE FlowCodegenProofs --------------------------
(***************************************************************************)
(* What holds of FlowCodegen and GeneratedFlow for every set of outputs,   *)
(* identifiers and paths, every sanitize_ident, every index and every      *)
(* contents of the flow files: exactly the valid ones are rendered, what   *)
(* is rendered resolves, the output file is written whole or left alone,   *)
(* and the generated code, run, builds the flow that its file describes.   *)
(***************************************************************************)
EXTENDS GeneratedFlow, FlowGraphProofs

(***************************************************************************)
(* The inductive invariant.  ProgressInv says how many functions are       *)
(* finished at each step of generate().                                    *)
(***************************************************************************)
FlowSteps == {"check", "name", "connect", "sort", "emit"}

Flows == Len(rendered["runner"])

ProgressInv ==
  /\ step = "index" => paths = <<>> /\ Flows = 0 /\ Len(rendered["builder"]) = 0
  /\ step \in {"check", "name"} => func = "builder"
  /\ step \in FlowSteps => Flows < Len(paths)
  /\ step \in FlowSteps =>
       Len(rendered["builder"]) = IF func = "builder" THEN Flows ELSE Flows + 1
  /\ step \in {"flow", "done"} => Len(rendered["builder"]) = Flows /\ Flows <= Len(paths)
  /\ step = "done" => Flows = Len(paths)
  /\ out_file # "old" => step \in {"done", "failed"}
  /\ out_file = "new" => step = "done"
  /\ out_file = "torn" => error = "io"

\* What FlowFilesAssumption says of a flow file.
FileShape(f) ==
  /\ f \in Seq(Node) /\ f # <<>>
  /\ \A i \in DOMAIN f : /\ f[i].sink <=> i = Len(f)
                         /\ f[i].sink => ~f[i].source

(***************************************************************************)
(* What the checks made so far say of the flow file; when the runner is    *)
(* rendered the builder was, so the file is valid.                         *)
(***************************************************************************)
NodesComplete == \A i \in DOMAIN nodes : Complaint(nodes[i]) = "none"

CheckedInv ==
  /\ \A p \in DOMAIN disk : p \in Paths /\ disk[p] \in FlowFiles[p]
  /\ step \in FlowSteps => FileShape(nodes)
  /\ step \in FlowSteps \ {"check"} => NodesComplete
  /\ step \in {"connect", "sort", "emit"} => ~VarsCollide
  /\ step \in {"sort", "emit"} => ~UnknownDependency
  /\ step \in FlowSteps /\ func = "runner" => Valid
  /\ step = "failed" /\ error # "io" =>
       /\ ~Valid
       /\ func = "builder"
       /\ error \notin {"duplicate_output", "sink_not_found"}
       /\ out_file = "old"

(***************************************************************************)
(* topo_sort: an in-degree counts the dependencies whose producer is not   *)
(* in order yet; a node is in the queue or in order exactly if it has      *)
(* none; and order is a topological one.                                   *)
(***************************************************************************)
Pending(i) ==
  {k \in DOMAIN nodes[i].dependencies :
     \A c \in Range(order) : nodes[c].output # nodes[i].dependencies[k]}

OrderSorted ==
  \A l \in DOMAIN order : \A d \in Range(nodes[order[l]].dependencies) :
    \E m \in 1 .. l - 1 : nodes[order[m]].output = d

SortInv ==
  step \in {"sort", "emit"} =>
    /\ order \in Seq(DOMAIN nodes) /\ queue \in Seq(DOMAIN nodes)
    /\ IsInjective(order) /\ IsInjective(queue)
    /\ Range(order) \cap Range(queue) = {}
    /\ DOMAIN indegree = DOMAIN nodes
    /\ \A i \in DOMAIN nodes :
         /\ indegree[i] = Cardinality(Pending(i))
         /\ i \in Range(order) \cup Range(queue) <=> indegree[i] = 0
    /\ OrderSorted
    /\ step = "emit" => queue = <<>> /\ Range(order) = DOMAIN nodes

(***************************************************************************)
(* The statements rendered so far are those of order, and every body, of   *)
(* this function and of the finished ones, resolves.                       *)
(***************************************************************************)
Resolves(b) ==
  \A j \in DOMAIN b :
    /\ \A v \in Range(b[j].moves) : \E i \in 1 .. j - 1 : b[i].binds = v
    /\ \A i \in 1 .. j - 1 : b[i].binds # b[j].binds

BodyFollowsOrder ==
  /\ Len(body) <= Len(order)
  /\ \A k \in DOMAIN body : body[k] = Let(order[k])

FinishedResolve ==
  \A f \in Funcs : \A k \in DOMAIN rendered[f] : Resolves(rendered[f][k])

BodyInv ==
  /\ step = "sort" => body = <<>>
  /\ step = "emit" => BodyFollowsOrder
  /\ Resolves(body)
  /\ FinishedResolve

CodegenInv == CodegenTypeOK /\ ProgressInv /\ CheckedInv /\ SortInv /\ BodyInv

-----------------------------------------------------------------------------
(***************************************************************************)
(* Sequences of node indices.                                              *)
(***************************************************************************)

Ascending(s) == \A k, l \in DOMAIN s : k < l => s[k] < s[l]

\* The greatest element of a set is appended to an enumeration of the others.
LEMMA AscendingExists ==
  ASSUME NEW n \in Nat, NEW S \in SUBSET (1 .. n)
  PROVE  \E s \in [1 .. Cardinality(S) -> S] : Ascending(s)
  <1> DEFINE Enumerated(T) == \E s \in [1 .. Cardinality(T) -> T] : Ascending(s)
             Bad == {m \in Nat : \E T \in SUBSET (1 .. m) : ~Enumerated(T)}
  <1> SUFFICES ASSUME Bad # {}
               PROVE  FALSE
    OBVIOUS
  <1>1. PICK m \in Bad : \A j \in Bad : m <= j
    <2>1. Bad \in SUBSET Nat
      OBVIOUS
    <2> HIDE DEF Bad
    <2> QED
      BY <2>1, LeastNatural
  <1>2. PICK T \in SUBSET (1 .. m) : ~Enumerated(T)
    OBVIOUS
  <1>3. m \in Nat
    OBVIOUS
  <1>4. CASE m = 0
    <2>1. T = {} /\ Cardinality(T) = 0
      <3>1. 1 .. m = {}
        BY <1>4
      <3>2. T = {}
        BY <3>1
      <3> QED
        BY <3>2, FS_EmptySet
    <2>2. [i \in {} |-> i] \in [1 .. Cardinality(T) -> T] /\ Ascending([i \in {} |-> i])
      <3>1. 1 .. 0 = {}
        OBVIOUS
      <3> QED
        BY <2>1, <3>1 DEF Ascending
    <2> QED
      BY <1>2, <2>2
  <1>5. CASE m # 0
    <2> DEFINE U == T \ {m}
               c == Cardinality(U)
    <2>1. m - 1 \in Nat /\ U \in SUBSET (1 .. m - 1)
      BY <1>3, <1>5
    <2>2. Enumerated(U)
      <3>1. m - 1 \notin Bad
        <4>1. ~(m <= m - 1)
          BY <1>3
        <4> HIDE DEF Bad
        <4> QED
          BY <1>1, <4>1
      <3> HIDE DEF Enumerated, U
      <3> QED
        BY <3>1, <2>1
    <2>3. IsFiniteSet(T) /\ IsFiniteSet(U) /\ c \in Nat
      <3>1. IsFiniteSet(1 .. m)
        BY <1>3, FS_Interval
      <3>2. IsFiniteSet(T)
        BY <3>1, FS_Subset
      <3> QED
        BY <3>2, FS_RemoveElement, FS_CardinalityType
    <2>4. m \in T
      <3>1. m \notin T => U = T
        OBVIOUS
      <3> QED
        BY <3>1, <1>2, <2>2
    <2>5. Cardinality(T) = c + 1
      <3>1. T = U \cup {m} /\ m \notin U
        BY <2>4
      <3> QED
        BY <3>1, <2>3, FS_AddElement
    <2>6. PICK t \in [1 .. c -> U] : Ascending(t)
      BY <2>2
    <2> DEFINE s == [i \in 1 .. c + 1 |-> IF i = c + 1 THEN m ELSE t[i]]
    <2> HIDE DEF c, U, Enumerated, Bad
    <2>7. s \in [1 .. c + 1 -> T]
      <3>1. \A i \in 1 .. c : t[i] \in U
        OBVIOUS
      <3>2. \A i \in 1 .. c + 1 : i # c + 1 => i \in 1 .. c
        BY <2>3
      <3>3. U \subseteq T
        BY DEF U
      <3> QED
        BY <3>1, <3>2, <3>3, <2>4
    <2>8. Ascending(s)
      <3>1. \A i \in 1 .. c : t[i] \in Int /\ t[i] < m
        <4>1. \A i \in 1 .. c : t[i] \in 1 .. m - 1
          BY <2>1
        <4> QED
          BY <4>1, <1>3
      <3>2. \A k, l \in 1 .. c : k < l => t[k] < t[l]
        BY <2>6 DEF Ascending
      <3>3. ASSUME NEW k \in 1 .. c + 1, NEW l \in 1 .. c + 1, k < l
            PROVE  s[k] < s[l]
        <4>1. k \in 1 .. c
          BY <2>3, <3>3
        <4>2. l # c + 1 => l \in 1 .. c
          BY <2>3
        <4> QED
          BY <4>1, <4>2, <3>1, <3>2, <3>3, <2>3
      <3> QED
        BY <3>3 DEF Ascending
    <2> QED
      BY <1>2, <2>5, <2>7, <2>8 DEF Enumerated
  <1> QED
    BY <1>4, <1>5

\* InFileOrder lists every member of the set once.
LEMMA FileOrder ==
  ASSUME NEW n \in Nat, NEW S \in SUBSET (1 .. n)
  PROVE  /\ InFileOrder(S) \in Seq(S)
         /\ IsInjective(InFileOrder(S))
         /\ Range(InFileOrder(S)) = S
  <1> DEFINE c == Cardinality(S)
  <1>1. IsFiniteSet(S) /\ c \in Nat
    <2>1. IsFiniteSet(1 .. n)
      BY FS_Interval
    <2> QED
      BY <2>1, FS_Subset, FS_CardinalityType
  <1>2. PICK s \in [1 .. c -> S] : s = InFileOrder(S) /\ Ascending(s)
    BY AscendingExists DEF InFileOrder, Ascending
  <1> HIDE DEF c
  <1>3. s \in Seq(S)
    BY <1>1
  <1>4. IsInjective(s)
    <2>1. \A k, l \in 1 .. c : k < l => s[k] < s[l]
      BY <1>2 DEF Ascending
    <2>2. \A k \in 1 .. c : s[k] \in Int
      <3>1. \A k \in 1 .. c : s[k] \in S
        BY <1>2
      <3>2. \A x \in S : x \in Int
        OBVIOUS
      <3> QED
        BY <3>1, <3>2
    <2>3. \A k, l \in 1 .. c : s[k] = s[l] => k = l
      BY <2>1, <2>2, <1>1
    <2> QED
      BY <2>3 DEF IsInjective
  <1>5. s \in Surjection(1 .. c, S)
    <2>1. s \in Injection(1 .. c, S)
      BY <1>4 DEF Injection
    <2>2. Cardinality(1 .. c) = Cardinality(S)
      BY <1>1, FS_Interval DEF c
    <2> QED
      BY <2>1, <2>2, <1>1, FS_Injection
  <1>6. Range(s) = S
    BY <1>5 DEF Surjection, Range
  <1> QED
    BY <1>2, <1>3, <1>4, <1>6

\* Appending a new element keeps a sequence without repetitions.
LEMMA AppendInjection ==
  ASSUME NEW S, NEW seq \in Seq(S), NEW x \in S, IsInjective(seq), x \notin Range(seq)
  PROVE  IsInjective(Append(seq, x))
  <1> DEFINE r == Append(seq, x)
             n == Len(seq)
  <1>1. /\ n \in Nat /\ DOMAIN seq = 1 .. n /\ DOMAIN r = 1 .. n + 1
        /\ \A i \in 1 .. n : r[i] = seq[i]
        /\ r[n + 1] = x
    OBVIOUS
  <1> HIDE DEF r, n
  <1>2. \A i \in 1 .. n + 1 : i = n + 1 \/ i \in 1 .. n
    BY <1>1
  <1>3. \A i \in 1 .. n : seq[i] # x
    BY <1>1 DEF Range
  <1>4. \A i, j \in 1 .. n : seq[i] = seq[j] => i = j
    BY <1>1 DEF IsInjective
  <1> QED
    BY <1>1, <1>2, <1>3, <1>4 DEF IsInjective, r

\* Neither the head nor a repetition is in the tail of such a sequence.
LEMMA TailInjection ==
  ASSUME NEW S, NEW seq \in Seq(S), seq # <<>>, IsInjective(seq)
  PROVE  IsInjective(Tail(seq)) /\ Head(seq) \notin Range(Tail(seq))
  <1> DEFINE n == Len(seq)
  <1>1. /\ n \in Nat /\ n # 0 /\ DOMAIN seq = 1 .. n
        /\ DOMAIN Tail(seq) = 1 .. n - 1
        /\ Head(seq) = seq[1]
        /\ \A i \in 1 .. n - 1 : Tail(seq)[i] = seq[i + 1]
    BY HeadTailProperties
  <1> HIDE DEF n
  <1>2. \A i \in 1 .. n - 1 : i + 1 \in 1 .. n /\ i + 1 # 1
    BY <1>1
  <1>3. \A i, j \in 1 .. n : seq[i] = seq[j] => i = j
    BY <1>1 DEF IsInjective
  <1>4. 1 \in 1 .. n
    BY <1>1
  <1>5. \A i, j \in 1 .. n - 1 : i + 1 = j + 1 => i = j
    BY <1>1
  <1>6. IsInjective(Tail(seq))
    BY <1>1, <1>2, <1>3, <1>5 DEF IsInjective
  <1>7. Head(seq) \notin Range(Tail(seq))
    BY <1>1, <1>2, <1>3, <1>4 DEF Range
  <1> QED
    BY <1>6, <1>7

\* The concatenation of two such sequences with nothing in common.
LEMMA ConcatInjection ==
  ASSUME NEW S, NEW s \in Seq(S), NEW t \in Seq(S), IsInjective(s), IsInjective(t)
  PROVE  /\ Range(s \o t) = Range(s) \cup Range(t)
         /\ Range(s) \cap Range(t) = {} => IsInjective(s \o t)
  <1> DEFINE n == Len(s)
             m == Len(t)
             r == s \o t
  <1>1. /\ n \in Nat /\ m \in Nat
        /\ DOMAIN s = 1 .. n /\ DOMAIN t = 1 .. m /\ DOMAIN r = 1 .. n + m
        /\ \A i \in 1 .. n + m : r[i] = IF i <= n THEN s[i] ELSE t[i - n]
    BY ConcatProperties
  <1> HIDE DEF n, m, r
  <1>2. \A i \in 1 .. n + m : \/ i \in 1 .. n /\ r[i] = s[i]
                              \/ i \notin 1 .. n /\ i - n \in 1 .. m /\ r[i] = t[i - n]
    BY <1>1
  <1>3. \A i \in 1 .. n : i \in 1 .. n + m /\ r[i] = s[i]
    BY <1>1
  <1>4. \A i \in 1 .. m : i + n \in 1 .. n + m /\ r[i + n] = t[i]
    BY <1>1
  <1>5. Range(r) = Range(s) \cup Range(t)
    <2>1. ASSUME NEW i \in 1 .. n + m
          PROVE  r[i] \in Range(s) \cup Range(t)
      BY <1>1, <1>2, <2>1 DEF Range
    <2>2. \A i \in 1 .. n : s[i] \in Range(r)
      BY <1>1, <1>3 DEF Range
    <2>3. \A i \in 1 .. m : t[i] \in Range(r)
      BY <1>1, <1>4 DEF Range
    <2> QED
      BY <1>1, <2>1, <2>2, <2>3 DEF Range
  <1>6. ASSUME Range(s) \cap Range(t) = {}, NEW i \in 1 .. n + m, NEW j \in 1 .. n + m,
               r[i] = r[j]
        PROVE  i = j
    <2>1. \A a \in 1 .. n, b \in 1 .. m : s[a] # t[b]
      BY <1>1, <1>6 DEF Range
    <2>2. \A a, b \in 1 .. n : s[a] = s[b] => a = b
      BY <1>1 DEF IsInjective
    <2>3. \A a, b \in 1 .. m : t[a] = t[b] => a = b
      BY <1>1 DEF IsInjective
    <2>4. i - n = j - n => i = j
      BY <1>1
    <2> QED
      BY <2>1, <2>2, <2>3, <2>4, <1>2, <1>6
  <1>7. Range(s) \cap Range(t) = {} => IsInjective(r)
    BY <1>1, <1>6 DEF IsInjective
  <1> QED
    BY <1>5, <1>7 DEF r

-----------------------------------------------------------------------------
(***************************************************************************)
(* The nodes of a flow file.                                               *)
(***************************************************************************)

LEMMA NodeTypes ==
  ASSUME FileShape(nodes)
  PROVE  /\ Len(nodes) \in Nat \ {0}
         /\ DOMAIN nodes = 1 .. Len(nodes)
         /\ \A i \in DOMAIN nodes :
              /\ nodes[i] \in Node
              /\ nodes[i].output \in Outputs
              /\ nodes[i].source \in BOOLEAN
              /\ nodes[i].dependencies \in Seq(Outputs)
              /\ Len(nodes[i].dependencies) \in Nat
              /\ DOMAIN nodes[i].dependencies = 1 .. Len(nodes[i].dependencies)
              /\ nodes[i].dependencies = <<>> <=> Len(nodes[i].dependencies) = 0
  <1>1. nodes \in Seq(Node) /\ nodes # <<>>
    BY DEF FileShape
  <1>2. Len(nodes) \in Nat \ {0} /\ DOMAIN nodes = 1 .. Len(nodes)
    BY <1>1, EmptySeq, LenProperties
  <1>3. ASSUME NEW i \in DOMAIN nodes
        PROVE  /\ nodes[i] \in Node
               /\ nodes[i].output \in Outputs
               /\ nodes[i].source \in BOOLEAN
               /\ nodes[i].dependencies \in Seq(Outputs)
    <2>1. nodes[i] \in Node
      BY <1>1, <1>2, ElementOfSeq
    <2> QED
      BY <2>1 DEF Node
  <1>4. ASSUME NEW i \in DOMAIN nodes
        PROVE  /\ Len(nodes[i].dependencies) \in Nat
               /\ DOMAIN nodes[i].dependencies = 1 .. Len(nodes[i].dependencies)
               /\ nodes[i].dependencies = <<>> <=> Len(nodes[i].dependencies) = 0
    BY <1>3, EmptySeq, LenProperties
  <1> QED
    BY <1>2, <1>3, <1>4

\* Nodes with distinct variables have distinct outputs.
LEMMA DistinctOutputs ==
  ASSUME ~VarsCollide
  PROVE  \A i, j \in DOMAIN nodes : nodes[i].output = nodes[j].output => i = j
  BY DEF VarsCollide

\* The positions at which node i mentions the output of cur.
Mentions(cur, i) ==
  {k \in DOMAIN nodes[i].dependencies : nodes[i].dependencies[k] = nodes[cur].output}

LEMMA PendingFinite ==
  ASSUME FileShape(nodes), NEW i \in DOMAIN nodes
  PROVE  /\ IsFiniteSet(Pending(i))
         /\ Cardinality(Pending(i)) \in Nat
         /\ \A c : IsFiniteSet(Mentions(c, i)) /\ Listed(c, i) = Cardinality(Mentions(c, i))
  <1>1. IsFiniteSet(DOMAIN nodes[i].dependencies)
    BY NodeTypes, FS_Interval
  <1>2. IsFiniteSet(Pending(i))
    BY <1>1, FS_Subset DEF Pending
  <1>3. \A c : IsFiniteSet(Mentions(c, i))
    BY <1>1, FS_Subset DEF Mentions
  <1> QED
    BY <1>2, <1>3, FS_CardinalityType DEF Listed, Mentions

(***************************************************************************)
(* topo_sort starts with the nodes without dependencies.                   *)
(***************************************************************************)
LEMMA ConnectSorts ==
  ASSUME CodegenInv, Connect
  PROVE  /\ SortInv'
         /\ indegree' \in Seq(Nat) /\ queue' \in Seq(Nat) /\ order' \in Seq(Nat)
  <1> DEFINE n == Len(nodes)
             S == {i \in DOMAIN nodes : nodes[i].dependencies = <<>>}
  <1>1. FileShape(nodes)
    BY DEF CodegenInv, CheckedInv, Connect, FlowSteps
  <1>2. /\ n \in Nat /\ DOMAIN nodes = 1 .. n
        /\ \A i \in 1 .. n :
             /\ Len(nodes[i].dependencies) \in Nat
             /\ DOMAIN nodes[i].dependencies = 1 .. Len(nodes[i].dependencies)
             /\ nodes[i].dependencies = <<>> <=> Len(nodes[i].dependencies) = 0
    BY <1>1, NodeTypes
  <1>3. /\ queue' = InFileOrder(S) /\ order' = <<>> /\ nodes' = nodes
        /\ indegree' = [i \in DOMAIN nodes |-> Len(nodes[i].dependencies)]
        /\ step' # "emit"
    BY DEF Connect, Goto, Fail
  <1>4. queue' \in Seq(S) /\ IsInjective(queue') /\ Range(queue') = S
    <2>1. S \in SUBSET (1 .. n)
      BY <1>2
    <2> HIDE DEF S, n
    <2> QED
      BY <1>2, <1>3, <2>1, FileOrder
  <1>5. queue' \in Seq(DOMAIN nodes) /\ queue' \in Seq(Nat)
    <2>1. S \subseteq DOMAIN nodes /\ S \subseteq Nat
      BY <1>2
    <2> HIDE DEF S
    <2> QED
      BY <1>4, <2>1, SeqMonotonic
  <1>6. indegree' \in Seq(Nat) /\ DOMAIN indegree' = DOMAIN nodes
    BY <1>2, <1>3
  <1>7. order' \in Seq(DOMAIN nodes) /\ order' \in Seq(Nat)
    BY <1>3, EmptySeq
  <1>8. Range(order') = {} /\ IsInjective(order') /\ DOMAIN order' = {}
    BY <1>3 DEF Range, IsInjective
  <1>9. ASSUME NEW i \in DOMAIN nodes
        PROVE  indegree'[i] = Cardinality(Pending(i)')
    <2>1. Pending(i)' = DOMAIN nodes[i].dependencies
      BY <1>3, <1>8 DEF Pending
    <2>2. Cardinality(1 .. Len(nodes[i].dependencies)) = Len(nodes[i].dependencies)
      <3>1. \A m \in Nat : Cardinality(1 .. m) = m
        BY FS_Interval
      <3> QED
        BY <3>1, <1>2
    <2> QED
      BY <2>1, <2>2, <1>2, <1>3
  <1>10. ASSUME NEW i \in DOMAIN nodes
         PROVE  i \in Range(order') \cup Range(queue') <=> indegree'[i] = 0
    BY <1>2, <1>3, <1>4, <1>8
  <1>11. OrderSorted'
    BY <1>8 DEF OrderSorted
  <1>12. SortInv'
    BY <1>3, <1>4, <1>5, <1>6, <1>7, <1>8, <1>9, <1>10, <1>11 DEF SortInv
  <1> QED
    BY <1>5, <1>6, <1>7, <1>12

(***************************************************************************)
(* Taking a node out of the queue takes its mentions off the in-degrees,   *)
(* and releases exactly the nodes that were waiting for nothing else.      *)
(***************************************************************************)
LEMMA MentionsLeave ==
  ASSUME CodegenInv, step = "sort", NEW cur \in DOMAIN nodes, cur \notin Range(order),
         NEW i \in DOMAIN nodes, order' = Append(order, cur), UNCHANGED nodes
  PROVE  /\ Pending(i)' = Pending(i) \ Mentions(cur, i)
         /\ Mentions(cur, i) \subseteq Pending(i)
         /\ Cardinality(Pending(i)') = Cardinality(Pending(i)) - Listed(cur, i)
  <1>1. FileShape(nodes) /\ ~VarsCollide /\ order \in Seq(DOMAIN nodes)
    BY DEF CodegenInv, CheckedInv, SortInv, FlowSteps
  <1>2. Range(order') = Range(order) \cup {cur}
    BY <1>1, AppendRange
  <1>3. Pending(i)' = Pending(i) \ Mentions(cur, i)
    BY <1>2 DEF Pending, Mentions
  <1>4. Range(order) \subseteq DOMAIN nodes
    BY <1>1, LenProperties DEF Range
  <1>5. Mentions(cur, i) \subseteq Pending(i)
    BY <1>1, <1>4, DistinctOutputs DEF Pending, Mentions
  <1>6. Cardinality(Pending(i) \ Mentions(cur, i))
          = Cardinality(Pending(i)) - Cardinality(Mentions(cur, i))
    <2>1. IsFiniteSet(Pending(i)) /\ Pending(i) \cap Mentions(cur, i) = Mentions(cur, i)
      BY <1>1, <1>5, PendingFinite
    <2> QED
      BY <2>1, FS_Difference
  <1>7. Listed(cur, i) = Cardinality(Mentions(cur, i))
    BY <1>1, PendingFinite
  <1> QED
    BY <1>3, <1>5, <1>6, <1>7

LEMMA SortStepSorts ==
  ASSUME CodegenInv, SortStep
  PROVE  /\ SortInv'
         /\ indegree' \in Seq(Nat) /\ queue' \in Seq(Nat) /\ order' \in Seq(Nat)
  <1> DEFINE n == Len(nodes)
             cur == Head(queue)
             S == {i \in DOMAIN nodes : Listed(cur, i) > 0 /\ indegree[i] = Listed(cur, i)}
  <1>1. /\ FileShape(nodes)
        /\ order \in Seq(DOMAIN nodes) /\ queue \in Seq(DOMAIN nodes) /\ queue # <<>>
        /\ IsInjective(order) /\ IsInjective(queue)
        /\ Range(order) \cap Range(queue) = {}
        /\ DOMAIN indegree = DOMAIN nodes
        /\ \A i \in DOMAIN nodes :
             /\ indegree[i] = Cardinality(Pending(i))
             /\ i \in Range(order) \cup Range(queue) <=> indegree[i] = 0
        /\ OrderSorted
        /\ step = "sort"
    BY DEF CodegenInv, CheckedInv, SortInv, FlowSteps, SortStep
  <1>2. /\ order' = Append(order, cur) /\ nodes' = nodes /\ step' = "sort"
        /\ indegree' = [i \in DOMAIN nodes |-> indegree[i] - Listed(cur, i)]
        /\ queue' = Tail(queue) \o InFileOrder(S)
    BY <1>1 DEF SortStep, Released, PopFront
  <1>3. n \in Nat /\ DOMAIN nodes = 1 .. n
    BY <1>1, NodeTypes
  <1>4. /\ cur \in DOMAIN nodes /\ Tail(queue) \in Seq(DOMAIN nodes)
        /\ Range(queue) = {cur} \cup Range(Tail(queue))
        /\ IsInjective(Tail(queue)) /\ cur \notin Range(Tail(queue))
    BY <1>1, HeadTailRange, TailInjection
  <1> HIDE DEF cur, n
  <1>5. cur \notin Range(order) /\ indegree[cur] = 0
    BY <1>1, <1>4
  <1>6. /\ order' \in Seq(DOMAIN nodes) /\ IsInjective(order')
        /\ Range(order') = Range(order) \cup {cur}
    BY <1>1, <1>2, <1>4, <1>5, AppendProperties, AppendInjection, AppendRange
  <1>7. ASSUME NEW i \in DOMAIN nodes
        PROVE  /\ Cardinality(Pending(i)') = indegree[i] - Listed(cur, i)
               /\ Cardinality(Pending(i)') \in Nat
               /\ Listed(cur, i) \in Nat
               /\ indegree[i] \in Nat
               /\ indegree[i] = 0 => Listed(cur, i) = 0
    <2>1. /\ Pending(i)' = Pending(i) \ Mentions(cur, i)
          /\ Mentions(cur, i) \subseteq Pending(i)
          /\ Cardinality(Pending(i)') = Cardinality(Pending(i)) - Listed(cur, i)
      BY <1>1, <1>2, <1>4, <1>5, MentionsLeave
    <2>2. /\ IsFiniteSet(Pending(i)) /\ Cardinality(Pending(i)) \in Nat
          /\ IsFiniteSet(Mentions(cur, i)) /\ Listed(cur, i) = Cardinality(Mentions(cur, i))
      BY <1>1, PendingFinite
    <2>3. IsFiniteSet(Pending(i)')
      BY <2>1, <2>2, FS_Subset
    <2>4. Cardinality(Pending(i)) = 0 => Listed(cur, i) = 0
      BY <2>1, <2>2, FS_EmptySet
    <2> QED
      BY <2>1, <2>2, <2>3, <2>4, <1>1, FS_CardinalityType
  <1>8. InFileOrder(S) \in Seq(S) /\ IsInjective(InFileOrder(S)) /\ Range(InFileOrder(S)) = S
    <2>1. S \in SUBSET (1 .. n)
      BY <1>3
    <2> HIDE DEF S
    <2> QED
      BY <1>3, <2>1, FileOrder
  <1>9. InFileOrder(S) \in Seq(DOMAIN nodes)
    <2>1. S \subseteq DOMAIN nodes
      OBVIOUS
    <2> HIDE DEF S
    <2> QED
      BY <1>8, <2>1, SeqMonotonic
  <1>10. \A i \in S : i \notin Range(order) /\ i \notin Range(queue)
    <2>1. \A i \in S : indegree[i] # 0
      BY <1>7
    <2> QED
      BY <1>1, <2>1
  <1>11. queue' \in Seq(DOMAIN nodes)
    BY <1>2, <1>4, <1>9, ConcatProperties
  <1>12. Range(queue') = Range(Tail(queue)) \cup S /\ IsInjective(queue')
    <2>1. Range(Tail(queue)) \cap Range(InFileOrder(S)) = {}
      BY <1>4, <1>8, <1>10
    <2> DEFINE a == Tail(queue)
               b == InFileOrder(S)
    <2>2. a \in Seq(DOMAIN nodes) /\ b \in Seq(DOMAIN nodes) /\ IsInjective(a) /\ IsInjective(b)
      BY <1>4, <1>8, <1>9
    <2>3. queue' = a \o b /\ Range(a) \cap Range(b) = {} /\ Range(b) = S
      BY <1>2, <1>8, <2>1
    <2> HIDE DEF a, b, S
    <2>4. Range(a \o b) = Range(a) \cup Range(b) /\ IsInjective(a \o b)
      BY <2>2, <2>3, ConcatInjection
    <2>5. Range(queue') = Range(a) \cup S /\ IsInjective(queue')
      BY <2>3, <2>4
    <2> QED
      BY <2>5 DEF a
  <1>13. Range(order') \cap Range(queue') = {}
    BY <1>1, <1>4, <1>6, <1>10, <1>12
  <1>14. DOMAIN indegree' = DOMAIN nodes /\ indegree' \in Seq(Nat)
    <2>1. \A i \in 1 .. n : indegree'[i] \in Nat
      BY <1>2, <1>3, <1>7
    <2> QED
      BY <1>2, <1>3, <2>1
  <1>15. ASSUME NEW i \in DOMAIN nodes
         PROVE  /\ indegree'[i] = Cardinality(Pending(i)')
                /\ i \in Range(order') \cup Range(queue') <=> indegree'[i] = 0
    <2>1. indegree'[i] = indegree[i] - Listed(cur, i)
      BY <1>2
    <2>2. i \in Range(order') \cup Range(queue') <=> i \in Range(order) \cup Range(queue) \cup S
      BY <1>4, <1>6, <1>12
    <2>3. i \in S <=> Listed(cur, i) > 0 /\ indegree[i] = Listed(cur, i)
      OBVIOUS
    <2> HIDE DEF S
    <2> QED
      BY <2>1, <2>2, <2>3, <1>1, <1>7
  <1>16. OrderSorted'
    <2> DEFINE m == Len(order)
    <2>1. /\ m \in Nat /\ DOMAIN order = 1 .. m /\ DOMAIN order' = 1 .. m + 1
          /\ \A l \in 1 .. m : order'[l] = order[l]
          /\ order'[m + 1] = cur
      BY <1>1, <1>2, <1>4, <1>6, AppendProperties, LenProperties
    <2> HIDE DEF m
    <2>2. ASSUME NEW l \in 1 .. m, NEW d \in Range(nodes[order[l]].dependencies)
          PROVE  \E k \in 1 .. l - 1 : nodes[order'[k]].output = d
      <3>1. PICK k \in 1 .. l - 1 : nodes[order[k]].output = d
        BY <1>1, <2>1 DEF OrderSorted
      <3>2. k \in 1 .. m
        BY <2>1
      <3> QED
        BY <2>1, <3>1, <3>2
    <2>3. ASSUME NEW d \in Range(nodes[cur].dependencies)
          PROVE  \E k \in 1 .. m : nodes[order'[k]].output = d
      <3>1. Pending(cur) = {}
        BY <1>1, <1>4, <1>5, PendingFinite, FS_EmptySet
      <3>2. PICK c \in Range(order) : nodes[c].output = d
        BY <3>1 DEF Pending, Range
      <3> QED
        BY <2>1, <3>2 DEF Range
    <2>4. ASSUME NEW l \in 1 .. m + 1, NEW d \in Range(nodes[order'[l]].dependencies)
          PROVE  \E k \in 1 .. l - 1 : nodes[order'[k]].output = d
      <3>1. CASE l = m + 1
        <4>1. 1 .. l - 1 = 1 .. m
          BY <3>1, <2>1
        <4> QED
          BY <2>1, <2>3, <2>4, <3>1, <4>1
      <3>2. CASE l # m + 1
        <4>1. l \in 1 .. m
          BY <3>2, <2>1
        <4> QED
          BY <2>1, <2>2, <2>4, <4>1
      <3> QED
        BY <3>1, <3>2
    <2>5. \A l \in DOMAIN order' : \A d \in Range(nodes[order'[l]].dependencies) :
            \E k \in 1 .. l - 1 : nodes[order'[k]].output = d
      BY <2>1, <2>4
    <2>6. nodes' = nodes
      BY <1>2
    <2> QED
      BY <2>5, <2>6, Zenon DEF OrderSorted
  <1>17. SortInv'
    <2>1. step' # "emit"
      BY <1>2
    <2> QED
      BY <1>2, <1>6, <1>11, <1>12, <1>13, <1>14, <1>15, <1>16, <2>1 DEF SortInv
  <1>18. queue' \in Seq(Nat) /\ order' \in Seq(Nat)
    <2>1. DOMAIN nodes \subseteq Nat
      BY <1>3
    <2> QED
      BY <1>6, <1>11, <2>1, SeqMonotonic
  <1> QED
    BY <1>14, <1>17, <1>18

-----------------------------------------------------------------------------
(***************************************************************************)
(* The verdict of topo_sort.                                               *)
(***************************************************************************)

\* Every node is in order if as many nodes are in order as there are.
LEMMA AllInOrder ==
  ASSUME FileShape(nodes), order \in Seq(DOMAIN nodes), IsInjective(order)
  PROVE  Len(order) = Len(nodes) <=> Range(order) = DOMAIN nodes
  <1> DEFINE n == Len(nodes)
             m == Len(order)
  <1>1. /\ n \in Nat /\ DOMAIN nodes = 1 .. n
        /\ m \in Nat /\ order \in [1 .. m -> 1 .. n] /\ DOMAIN order = 1 .. m
    BY NodeTypes, LenProperties
  <1> HIDE DEF n, m
  <1>2. \A k \in Nat : IsFiniteSet(1 .. k) /\ Cardinality(1 .. k) = k
    BY FS_Interval
  <1>3. order \in Injection(1 .. m, 1 .. n)
    BY <1>1 DEF Injection
  <1>4. m = n <=> order \in Surjection(1 .. m, 1 .. n)
    BY <1>1, <1>2, <1>3, FS_Injection
  <1>5. order \in Surjection(1 .. m, 1 .. n) <=> Range(order) = 1 .. n
    BY <1>1 DEF Surjection, Range
  <1> QED
    BY <1>1, <1>4, <1>5 DEF n, m

\* What the first loop of render_flow_builder lets through.
LEMMA CompleteNodes ==
  ASSUME FileShape(nodes)
  PROVE  NodesComplete <=> \A i \in DOMAIN nodes : /\ ~nodes[i].blank
                                                   /\ nodes[i].source <=> nodes[i].dependencies = <<>>
  <1>1. ASSUME NEW i \in DOMAIN nodes
        PROVE  Complaint(nodes[i]) = "none" <=>
                 ~nodes[i].blank /\ (nodes[i].source <=> nodes[i].dependencies = <<>>)
    <2>1. nodes[i].blank \in BOOLEAN /\ nodes[i].source \in BOOLEAN
      BY NodeTypes DEF Node
    <2> QED
      BY <2>1 DEF Complaint
  <1> QED
    BY <1>1 DEF NodesComplete

\* A dependency is known if some node produces it.
LEMMA KnownDependencies ==
  ~UnknownDependency <=> \A i \in DOMAIN nodes : Range(nodes[i].dependencies) \subseteq Produced
  BY DEF UnknownDependency, Range

(***************************************************************************)
(* A file whose nodes are all in order is valid: a node ranks as it stands *)
(* in order.                                                               *)
(***************************************************************************)
LEMMA SortedIsValid ==
  ASSUME CodegenInv, step = "emit"
  PROVE  Valid
  <1>1. /\ FileShape(nodes) /\ NodesComplete /\ ~VarsCollide /\ ~UnknownDependency
        /\ order \in Seq(DOMAIN nodes) /\ IsInjective(order) /\ OrderSorted
        /\ Range(order) = DOMAIN nodes
    BY DEF CodegenInv, CheckedInv, SortInv, FlowSteps
  <1>2. \A i \in DOMAIN nodes :
          /\ ~nodes[i].blank
          /\ nodes[i].source <=> nodes[i].dependencies = <<>>
          /\ Range(nodes[i].dependencies) \subseteq Produced
    BY <1>1, CompleteNodes, KnownDependencies
  <1>3. \A i, j \in DOMAIN nodes : Ident[nodes[i].output] = Ident[nodes[j].output] => i = j
    BY <1>1 DEF VarsCollide
  <1>4. Len(order) \in Nat /\ DOMAIN order = 1 .. Len(order) /\ DOMAIN nodes = 1 .. Len(order)
    BY <1>1, AllInOrder, NodeTypes, LenProperties
  <1> DEFINE rank == [i \in DOMAIN nodes |-> CHOOSE l \in DOMAIN order : order[l] = i]
  <1>5. \A i \in DOMAIN nodes : rank[i] \in DOMAIN order /\ order[rank[i]] = i
    BY <1>1 DEF Range
  <1>6. rank \in [DOMAIN nodes -> DOMAIN nodes]
    BY <1>4, <1>5
  <1> HIDE DEF rank
  <1>7. ASSUME NEW i \in DOMAIN nodes, NEW j \in DOMAIN nodes, Feeds(i, j)
        PROVE  rank[i] < rank[j]
    <2>1. PICK m \in 1 .. rank[j] - 1 : nodes[order[m]].output = nodes[i].output
      <3>1. rank[j] \in DOMAIN order /\ order[rank[j]] = j
        BY <1>5
      <3>2. nodes[i].output \in Range(nodes[order[rank[j]]].dependencies)
        BY <1>7, <3>1 DEF Feeds
      <3> QED
        BY <1>1, <3>1, <3>2 DEF OrderSorted
    <2>2. m \in DOMAIN order /\ m < rank[j] /\ rank[j] \in Nat
      BY <1>4, <1>5
    <2>3. order[m] \in DOMAIN nodes
      BY <1>1, <2>2 DEF Range
    <2>4. order[m] = i
      BY <1>1, <2>1, <2>3, DistinctOutputs
    <2>5. m = rank[i]
      BY <1>1, <1>5, <2>2, <2>4 DEF IsInjective
    <2> QED
      BY <2>2, <2>5
  <1> QED
    BY <1>2, <1>3, <1>6, <1>7 DEF Valid

(***************************************************************************)
(* When the queue has run dry before every node was in order, there is no  *)
(* ranking: the lowest of the nodes left would have nothing to wait for.   *)
(***************************************************************************)
LEMMA StuckIsInvalid ==
  ASSUME CodegenInv, step = "sort", queue = <<>>, Len(order) # Len(nodes)
  PROVE  ~Valid
  <1>1. /\ FileShape(nodes) /\ ~UnknownDependency
        /\ order \in Seq(DOMAIN nodes) /\ IsInjective(order)
        /\ \A i \in DOMAIN nodes :
             /\ indegree[i] = Cardinality(Pending(i))
             /\ i \in Range(order) \cup Range(queue) <=> indegree[i] = 0
    BY DEF CodegenInv, CheckedInv, SortInv, FlowSteps
  <1>2. Range(queue) = {} /\ Range(order) \subseteq DOMAIN nodes
    BY <1>1, LenProperties DEF Range
  <1>3. Range(order) # DOMAIN nodes
    BY <1>1, AllInOrder
  <1> SUFFICES ASSUME NEW rank \in [DOMAIN nodes -> DOMAIN nodes],
                      \A i, j \in DOMAIN nodes : Feeds(i, j) => rank[i] < rank[j]
               PROVE  FALSE
    BY DEF Valid
  <1> DEFINE Left == DOMAIN nodes \ Range(order)
             Ranks == {rank[i] : i \in Left}
  <1>4. DOMAIN nodes \subseteq Nat
    BY <1>1, NodeTypes
  <1>5. Ranks \in SUBSET Nat /\ Ranks # {}
    BY <1>2, <1>3, <1>4
  <1>6. PICK r \in Ranks : \A s \in Ranks : r <= s
    <2> HIDE DEF Ranks
    <2> QED
      BY <1>5, LeastNatural
  <1>7. PICK j \in Left : \A i \in Left : rank[j] <= rank[i]
    BY <1>6
  <1>8. Pending(j) # {}
    <2>1. indegree[j] # 0
      BY <1>1, <1>2
    <2> QED
      BY <2>1, <1>1, FS_EmptySet
  <1>9. PICK k \in DOMAIN nodes[j].dependencies :
          \A c \in Range(order) : nodes[c].output # nodes[j].dependencies[k]
    BY <1>8 DEF Pending
  <1>10. PICK i \in DOMAIN nodes : nodes[i].output = nodes[j].dependencies[k]
    BY <1>1, <1>9 DEF UnknownDependency, Produced
  <1>11. i \in Left /\ Feeds(i, j)
    BY <1>9, <1>10 DEF Feeds, Range
  <1>12. rank[i] < rank[j] /\ rank[j] <= rank[i]
    BY <1>7, <1>11
  <1>13. rank[i] \in Nat /\ rank[j] \in Nat
    BY <1>4
  <1> QED
    BY <1>12, <1>13

-----------------------------------------------------------------------------
(***************************************************************************)
(* The invariant holds at first and is kept by every step.                 *)
(***************************************************************************)

LEMMA CodegenStart == Init => CodegenInv
  <1> SUFFICES ASSUME Init
               PROVE  CodegenInv
    OBVIOUS
  <1>1. DOMAIN disk = {} /\ DOMAIN paths = {}
    BY DEF Init
  <1>2. \A S : <<>> \in Seq(S) /\ Len(<<>>) = 0
    BY EmptySeq
  <1>3. rendered = [f \in Funcs |-> <<>>] /\ rendered["runner"] = <<>> /\ rendered["builder"] = <<>>
    BY DEF Init, Funcs
  <1>4. CodegenTypeOK
    BY <1>1, <1>2, <1>3 DEF Init, CodegenTypeOK, Funcs
  <1>5. ProgressInv
    BY <1>2, <1>3 DEF Init, ProgressInv, FlowSteps, Flows
  <1>6. CheckedInv
    BY <1>1 DEF Init, CheckedInv, FlowSteps
  <1>7. SortInv
    BY DEF Init, SortInv
  <1>8. BodyInv
    BY <1>3 DEF Init, BodyInv, Resolves, FinishedResolve
  <1> QED
    BY <1>4, <1>5, <1>6, <1>7, <1>8 DEF CodegenInv

\* What a flow file read is like.
LEMMA FilesHaveShape ==
  ASSUME NEW p \in Paths, NEW f \in FlowFiles[p]
  PROVE  FileShape(f)
  BY FlowFilesAssumption DEF FileShape

\* An index lists paths.
LEMMA PathsTyped ==
  ASSUME CodegenInv
  PROVE  paths \in Seq(Paths) /\ Len(paths) \in Nat
  <1>1. paths \in Seq(Paths)
    BY IndexesAssumption, EmptySeq DEF CodegenInv, CodegenTypeOK
  <1> QED
    BY <1>1, LenProperties

\* The next file is found at a path of the index, as it was read before or anew.
LEMMA NextFile ==
  ASSUME CodegenInv, ReadFlow, step' = "check"
  PROVE  /\ FileShape(nodes')
         /\ \A p \in DOMAIN disk' : p \in Paths /\ disk'[p] \in FlowFiles[p]
         /\ DOMAIN disk' \subseteq Range(paths)
  <1> DEFINE path == paths[Len(rendered["runner"]) + 1]
  <1>1. path \in Paths /\ path \in Range(paths)
    <2>1. paths \in Seq(Paths) /\ Len(paths) \in Nat /\ DOMAIN paths = 1 .. Len(paths)
      BY PathsTyped, LenProperties
    <2>2. Len(rendered["runner"]) \in Nat
      BY LenProperties DEF CodegenInv, CodegenTypeOK, Funcs
    <2>3. Len(rendered["runner"]) + 1 \in 1 .. Len(paths)
      BY <2>1, <2>2 DEF ReadFlow
    <2> QED
      BY <2>1, <2>3, ElementOfSeq DEF Range
  <1>2. /\ nodes' \in IF path \in DOMAIN disk THEN {disk[path]} ELSE FlowFiles[path]
        /\ disk' = [q \in DOMAIN disk \cup {path} |-> IF q = path THEN nodes' ELSE disk[q]]
    BY DEF ReadFlow, Fail
  <1>3. /\ \A p \in DOMAIN disk : p \in Paths /\ disk[p] \in FlowFiles[p]
        /\ DOMAIN disk \subseteq Range(paths)
    BY DEF CodegenInv, CheckedInv, CodegenTypeOK
  <1> HIDE DEF path
  <1>4. nodes' \in FlowFiles[path]
    BY <1>2, <1>3
  <1>5. FileShape(nodes')
    BY <1>1, <1>4, FilesHaveShape
  <1>6. DOMAIN disk' = DOMAIN disk \cup {path} /\ disk'[path] = nodes'
        /\ \A q \in DOMAIN disk : q # path => disk'[q] = disk[q]
    BY <1>2
  <1> QED
    BY <1>1, <1>3, <1>4, <1>5, <1>6

\* The statements of a function are statements.
LEMMA LetTypes ==
  ASSUME FileShape(nodes), NEW i \in DOMAIN nodes
  PROVE  Let(i) \in Statement
  <1>1. /\ i \in Nat /\ nodes[i].output \in Outputs
        /\ nodes[i].dependencies \in Seq(Outputs)
        /\ Len(nodes[i].dependencies) \in Nat
        /\ DOMAIN nodes[i].dependencies = 1 .. Len(nodes[i].dependencies)
    BY NodeTypes
  <1>2. \A o \in Outputs : Ident[o] \in Vars
    BY IdentAssumption
  <1>3. [k \in DOMAIN nodes[i].dependencies |-> Ident[nodes[i].dependencies[k]]] \in Seq(Vars)
    <2>1. \A k \in DOMAIN nodes[i].dependencies : nodes[i].dependencies[k] \in Outputs
      BY <1>1
    <2> QED
      BY <1>1, <1>2, <2>1
  <1>4. <<>> \in Seq(Vars)
    BY EmptySeq
  <1> QED
    BY <1>1, <1>2, <1>3, <1>4 DEF Let, Statement

\* The sink is the last node of its file, and is rendered when all nodes are.
LEMMA SinkNode ==
  ASSUME FileShape(nodes)
  PROVE  /\ (CHOOSE i \in DOMAIN nodes : nodes[i].sink) = Len(nodes)
         /\ Len(nodes) \in DOMAIN nodes
         /\ Range(order) = DOMAIN nodes => SinkRendered
  <1>1. Len(nodes) \in DOMAIN nodes /\ Len(nodes) \in Nat
    BY NodeTypes
  <1>2. \A i \in DOMAIN nodes : (nodes[i].sink <=> i = Len(nodes)) /\ (nodes[i].sink => ~nodes[i].source)
    BY DEF FileShape
  <1> QED
    BY <1>1, <1>2 DEF SinkRendered

LEMMA TailTypes ==
  ASSUME FileShape(nodes), NEW f \in Funcs
  PROVE  /\ Tail_(f) \in Statement
         /\ Tail_(f).binds = f
         /\ Tail_(f).moves = <<Ident[nodes[Len(nodes)].output]>>
  <1>1. Tail_(f) = [binds |-> f, node |-> Len(nodes), moves |-> <<Ident[nodes[Len(nodes)].output]>>]
    BY SinkNode DEF Tail_
  <1>2. Len(nodes) \in Nat /\ nodes[Len(nodes)].output \in Outputs
    BY NodeTypes
  <1>3. Ident[nodes[Len(nodes)].output] \in Vars
    BY <1>2, IdentAssumption
  <1>4. <<Ident[nodes[Len(nodes)].output]>> \in Seq(Vars)
    BY <1>3
  <1> QED
    BY <1>1, <1>2, <1>4 DEF Statement

\* The functions finished: one more of the kind being rendered.
LEMMA EmitEndFinishes ==
  ASSUME CodegenInv, EmitEnd
  PROVE  /\ FileShape(nodes) /\ Range(order) = DOMAIN nodes /\ func \in Funcs
         /\ rendered' = [rendered EXCEPT ![func] = Append(@, Append(body, Tail_(func)))]
         /\ step' = IF func = "builder" THEN "connect" ELSE "flow"
         /\ error' = error
         /\ rendered' \in [Funcs -> Seq(Seq(Statement))]
         /\ Len(rendered'[func]) = Len(rendered[func]) + 1
         /\ \A f \in Funcs : f # func => rendered'[f] = rendered[f]
         /\ Append(body, Tail_(func)) \in Seq(Statement)
         /\ rendered'[func] = Append(rendered[func], Append(body, Tail_(func)))
  <1>1. /\ FileShape(nodes) /\ Range(order) = DOMAIN nodes /\ func \in Funcs
        /\ body \in Seq(Statement)
        /\ rendered \in [Funcs -> Seq(Seq(Statement))]
    BY DEF EmitEnd, CodegenInv, CheckedInv, SortInv, CodegenTypeOK, FlowSteps
  <1>2. /\ rendered' = [rendered EXCEPT ![func] = Append(@, Append(body, Tail_(func)))]
        /\ step' = IF func = "builder" THEN "connect" ELSE "flow"
        /\ error' = error
    BY <1>1, SinkNode DEF EmitEnd, Goto
  <1>3. Append(body, Tail_(func)) \in Seq(Statement)
    BY <1>1, TailTypes, AppendProperties
  <1>4. rendered[func] \in Seq(Seq(Statement))
    BY <1>1
  <1>5. /\ Append(rendered[func], Append(body, Tail_(func))) \in Seq(Seq(Statement))
        /\ Len(Append(rendered[func], Append(body, Tail_(func)))) = Len(rendered[func]) + 1
    BY <1>3, <1>4, AppendProperties
  <1>6. rendered'[func] = Append(rendered[func], Append(body, Tail_(func)))
    BY <1>1, <1>2
  <1>7. \A f \in Funcs : f # func => rendered'[f] = rendered[f]
    BY <1>1, <1>2
  <1>8. rendered' \in [Funcs -> Seq(Seq(Statement))]
    BY <1>1, <1>2, <1>5
  <1> QED
    BY <1>1, <1>2, <1>3, <1>5, <1>6, <1>7, <1>8

\* Rendering the next node appends its statement.
LEMMA EmitNodeAppends ==
  ASSUME CodegenInv, EmitNode
  PROVE  /\ FileShape(nodes)
         /\ Len(body) + 1 \in DOMAIN order
         /\ order[Len(body) + 1] \in DOMAIN nodes
         /\ body \in Seq(Statement)
         /\ Let(order[Len(body) + 1]) \in Statement
         /\ body' = Append(body, Let(order[Len(body) + 1]))
  <1>1. /\ FileShape(nodes) /\ body \in Seq(Statement) /\ order \in Seq(DOMAIN nodes)
        /\ Len(body) < Len(order)
        /\ body' = Append(body, Let(order[Len(body) + 1]))
    BY DEF EmitNode, CodegenInv, CheckedInv, SortInv, CodegenTypeOK, FlowSteps
  <1>2. Len(body) \in Nat /\ Len(order) \in Nat /\ DOMAIN order = 1 .. Len(order)
    BY <1>1, LenProperties
  <1>3. Len(body) + 1 \in DOMAIN order
    BY <1>1, <1>2
  <1>4. order[Len(body) + 1] \in DOMAIN nodes
    BY <1>1, <1>2, <1>3, ElementOfSeq
  <1> QED
    BY <1>1, <1>3, <1>4, LetTypes

LEMMA TypesStep ==
  ASSUME CodegenInv, [Next]_vars
  PROVE  CodegenTypeOK'
  <1>1. CodegenTypeOK
    BY DEF CodegenInv
  <1>2. CASE ReadIndex
    <2>1. step' \in {"flow", "failed"} /\ (error' = "none" <=> step' # "failed")
      BY <1>1, <1>2 DEF ReadIndex, Fail, Goto, CodegenTypeOK
    <2>2. paths' \in Indexes \cup {<<>>} /\ DOMAIN disk \subseteq Range(paths')
      <3>1. paths = <<>> /\ DOMAIN disk = {}
        <4>1. paths = <<>>
          BY <1>2 DEF ReadIndex, CodegenInv, ProgressInv
        <4>2. Range(<<>>) = {}
          BY DEF Range
        <4> QED
          BY <1>1, <4>1, <4>2 DEF CodegenTypeOK
      <3> QED
        BY <3>1, <1>1, <1>2 DEF ReadIndex
    <2> QED
      BY <1>1, <1>2, <2>1, <2>2 DEF ReadIndex, renderVars, CodegenTypeOK
  <1>3. CASE ReadFlow
    <2>1. step' \in {"check", "failed"} /\ (error' = "none" <=> step' # "failed")
      BY <1>1, <1>3 DEF ReadFlow, Fail, Goto, CodegenTypeOK
    <2>2. DOMAIN disk' \subseteq Range(paths) /\ nodes' \in Seq(Node)
      <3>1. CASE step' = "check"
        BY <1>3, <3>1, NextFile DEF FileShape
      <3>2. CASE step' # "check"
        BY <1>1, <1>3, <3>2 DEF ReadFlow, Goto, CodegenTypeOK
      <3> QED
        BY <3>1, <3>2
    <2> QED
      BY <1>1, <1>3, <2>1, <2>2 DEF ReadFlow, CodegenTypeOK, Funcs
  <1>4. CASE CheckNodes
    <2> DEFINE bad == {i \in DOMAIN nodes : Complaint(nodes[i]) # "none"}
    <2>1. FileShape(nodes)
      BY <1>4 DEF CodegenInv, CheckedInv, CheckNodes, FlowSteps
    <2>2. step' \in {"name", "failed"} /\ (error' = "none" <=> step' # "failed")
      <3>1. CASE bad = {}
        BY <1>1, <1>4, <3>1 DEF CheckNodes, Goto, CodegenTypeOK
      <3>2. CASE bad # {}
        <4>1. bad \in SUBSET Nat
          BY <2>1, NodeTypes
        <4>2. PICK k \in bad : \A j \in bad : k <= j
          <5> HIDE DEF bad
          <5> QED
            BY <3>2, <4>1, LeastNatural
        <4>3. (CHOOSE i \in bad : \A j \in bad : i <= j) \in bad
          BY <4>2
        <4> QED
          BY <1>4, <3>2, <4>3 DEF CheckNodes, Fail
      <3> QED
        BY <3>1, <3>2
    <2> QED
      BY <1>1, <1>4, <2>2 DEF CheckNodes, renderVars, CodegenTypeOK
  <1>5. CASE NameOutputs
    BY <1>1, <1>5 DEF NameOutputs, Fail, Goto, renderVars, CodegenTypeOK
  <1>6. CASE Connect
    <2>1. step' \in {"sort", "failed"} /\ (error' = "none" <=> step' # "failed")
      BY <1>1, <1>6 DEF Connect, Fail, Goto, CodegenTypeOK
    <2>2. body' \in Seq(Statement)
      BY <1>6, EmptySeq DEF Connect
    <2>3. indegree' \in Seq(Nat) /\ queue' \in Seq(Nat) /\ order' \in Seq(Nat)
      BY <1>6, ConnectSorts
    <2> QED
      BY <1>1, <1>6, <2>1, <2>2, <2>3 DEF Connect, CodegenTypeOK
  <1>7. CASE SortStep
    <2>1. indegree' \in Seq(Nat) /\ queue' \in Seq(Nat) /\ order' \in Seq(Nat)
      BY <1>7, SortStepSorts
    <2> QED
      BY <1>1, <1>7, <2>1 DEF SortStep, CodegenTypeOK
  <1>8. CASE SortDone
    BY <1>1, <1>8 DEF SortDone, Fail, Goto, renderVars, CodegenTypeOK
  <1>9. CASE EmitNode
    <2>1. body' \in Seq(Statement)
      BY <1>9, EmitNodeAppends, AppendProperties
    <2> QED
      BY <1>1, <1>9, <2>1 DEF EmitNode, CodegenTypeOK
  <1>10. CASE EmitEnd
    <2>1. /\ step' \in {"connect", "flow"} /\ error' = error /\ step = "emit"
          /\ rendered' \in [Funcs -> Seq(Seq(Statement))]
      BY <1>10, EmitEndFinishes DEF EmitEnd
    <2> QED
      BY <1>1, <1>10, <2>1 DEF EmitEnd, CodegenTypeOK, Funcs
  <1>11. CASE WriteFile
    BY <1>1, <1>11 DEF WriteFile, Fail, Goto, renderVars, CodegenTypeOK
  <1>12. CASE UNCHANGED vars
    BY <1>1, <1>12 DEF vars, CodegenTypeOK
  <1> QED
    BY <1>2, <1>3, <1>4, <1>5, <1>6, <1>7, <1>8, <1>9, <1>10, <1>11, <1>12 DEF Next

LEMMA ProgressStep ==
  ASSUME CodegenInv, [Next]_vars
  PROVE  ProgressInv'
  <1>1. ProgressInv /\ CodegenTypeOK
    BY DEF CodegenInv
  <1>2. Len(rendered["builder"]) \in Nat /\ Flows \in Nat /\ Len(paths) \in Nat
    <2>1. rendered["builder"] \in Seq(Seq(Statement)) /\ rendered["runner"] \in Seq(Seq(Statement))
      BY <1>1 DEF CodegenTypeOK, Funcs
    <2> QED
      BY <2>1, PathsTyped, LenProperties DEF Flows
  <1>3. CASE ReadIndex
    <2>1. CASE step' = "failed"
      BY <1>1, <1>3, <2>1 DEF ReadIndex, ProgressInv, FlowSteps, renderVars
    <2>2. CASE step' # "failed"
      <3>1. Len(paths') \in Nat
        <4>1. paths' \in Seq(Paths)
          BY <1>3, <2>2, IndexesAssumption DEF ReadIndex, Fail
        <4> QED
          BY <4>1, LenProperties
      <3> QED
        BY <1>1, <1>2, <1>3, <2>2, <3>1
           DEF ReadIndex, Fail, Goto, ProgressInv, FlowSteps, Flows, renderVars
    <2> QED
      BY <2>1, <2>2
  <1>4. CASE ReadFlow
    BY <1>1, <1>2, <1>4 DEF ReadFlow, Fail, Goto, ProgressInv, FlowSteps, Flows
  <1>5. CASE CheckNodes
    <2>1. step = "check" /\ step' \in {"name", "failed"}
      BY <1>5 DEF CheckNodes, Fail, Goto
    <2>2. UNCHANGED <<paths, func, rendered, out_file>>
      BY <1>5 DEF CheckNodes, renderVars
    <2> QED
      BY <1>1, <2>1, <2>2 DEF ProgressInv, FlowSteps, Flows
  <1>6. CASE NameOutputs
    BY <1>1, <1>6 DEF NameOutputs, Fail, Goto, ProgressInv, FlowSteps, Flows, renderVars
  <1>7. CASE Connect
    BY <1>1, <1>7 DEF Connect, Fail, Goto, ProgressInv, FlowSteps, Flows
  <1>8. CASE SortStep
    BY <1>1, <1>8 DEF SortStep, ProgressInv, FlowSteps, Flows
  <1>9. CASE SortDone
    BY <1>1, <1>9 DEF SortDone, Fail, Goto, ProgressInv, FlowSteps, Flows, renderVars
  <1>10. CASE EmitNode
    BY <1>1, <1>10 DEF EmitNode, ProgressInv, FlowSteps, Flows
  <1>11. CASE EmitEnd
    <2>1. /\ func \in Funcs
          /\ step' = IF func = "builder" THEN "connect" ELSE "flow"
          /\ Len(rendered'[func]) = Len(rendered[func]) + 1
          /\ \A f \in Funcs : f # func => rendered'[f] = rendered[f]
      BY <1>11, EmitEndFinishes
    <2>2. step = "emit" /\ UNCHANGED <<paths, out_file>> /\ func' = "runner"
      BY <1>11 DEF EmitEnd
    <2>3. CASE func = "builder"
      BY <1>1, <1>2, <2>1, <2>2, <2>3 DEF ProgressInv, FlowSteps, Flows, Funcs
    <2>4. CASE func = "runner"
      BY <1>1, <1>2, <2>1, <2>2, <2>4 DEF ProgressInv, FlowSteps, Flows, Funcs
    <2> QED
      BY <2>1, <2>3, <2>4 DEF Funcs
  <1>12. CASE WriteFile
    BY <1>1, <1>12 DEF WriteFile, AllRendered, Fail, Goto, ProgressInv, FlowSteps, Flows, renderVars
  <1>13. CASE UNCHANGED vars
    BY <1>1, <1>13 DEF vars, ProgressInv, FlowSteps, Flows
  <1> QED
    BY <1>3, <1>4, <1>5, <1>6, <1>7, <1>8, <1>9, <1>10, <1>11, <1>12, <1>13 DEF Next

\* Verdicts on a flow file depend on nothing else.
LEMMA SameNodes ==
  ASSUME UNCHANGED nodes
  PROVE  /\ Valid' <=> Valid
         /\ NodesComplete' <=> NodesComplete
         /\ VarsCollide' <=> VarsCollide
         /\ UnknownDependency' <=> UnknownDependency
         /\ FileShape(nodes') <=> FileShape(nodes)
  BY DEF Valid, Feeds, Produced, NodesComplete, VarsCollide, UnknownDependency

\* A file is valid only if each check of the code lets it through.
LEMMA ValidPasses ==
  ASSUME FileShape(nodes), Valid
  PROVE  NodesComplete /\ ~VarsCollide /\ ~UnknownDependency
  <1>1. NodesComplete
    BY CompleteNodes DEF Valid
  <1>2. ~VarsCollide
    BY DEF Valid, VarsCollide
  <1>3. ~UnknownDependency
    BY KnownDependencies DEF Valid
  <1> QED
    BY <1>1, <1>2, <1>3

LEMMA CheckedStep ==
  ASSUME CodegenInv, [Next]_vars
  PROVE  CheckedInv'
  <1>1. CheckedInv /\ ProgressInv /\ CodegenTypeOK
    BY DEF CodegenInv
  <1>2. CASE ReadIndex
    <2>1. step' \in {"flow", "failed"} /\ (step' = "failed" => error' = "io") /\ UNCHANGED disk
      BY <1>2 DEF ReadIndex, Fail, Goto
    <2> QED
      BY <1>1, <2>1 DEF CheckedInv, FlowSteps
  <1>3. CASE ReadFlow
    <2>1. CASE step' = "check"
      <3>1. func' = "builder"
        BY <1>3 DEF ReadFlow
      <3> QED
        BY <1>3, <2>1, <3>1, NextFile DEF CheckedInv, FlowSteps
    <2>2. CASE step' # "check"
      <3>1. step' = "failed" /\ error' = "io" /\ UNCHANGED disk
        BY <1>3, <2>2 DEF ReadFlow, Fail, Goto
      <3> QED
        BY <1>1, <3>1 DEF CheckedInv, FlowSteps
    <2> QED
      BY <2>1, <2>2
  <1>4. CASE CheckNodes
    <2> DEFINE bad == {i \in DOMAIN nodes : Complaint(nodes[i]) # "none"}
    <2>1. /\ step = "check" /\ FileShape(nodes) /\ func = "builder" /\ out_file = "old"
          /\ UNCHANGED <<nodes, disk, func, out_file>>
      BY <1>1, <1>4 DEF CheckedInv, ProgressInv, CheckNodes, FlowSteps, renderVars
    <2>2. bad = {} <=> NodesComplete
      BY DEF NodesComplete
    <2>3. CASE bad = {}
      <3>1. step' = "name"
        BY <1>4, <2>3 DEF CheckNodes, Goto
      <3> QED
        BY <1>1, <2>1, <2>2, <2>3, <3>1, SameNodes DEF CheckedInv, FlowSteps
    <2>4. CASE bad # {}
      <3>1. PICK k : /\ step' = "failed" /\ error' = Complaint(nodes[k])
        BY <1>4, <2>4 DEF CheckNodes, Fail
      <3>2. error' \notin {"duplicate_output", "sink_not_found"}
        BY <3>1 DEF Complaint
      <3>3. ~Valid
        BY <2>1, <2>2, <2>4, ValidPasses
      <3> QED
        BY <1>1, <2>1, <3>1, <3>2, <3>3, SameNodes DEF CheckedInv, FlowSteps
    <2> QED
      BY <2>3, <2>4
  <1>5. CASE NameOutputs
    <2>1. /\ step = "name" /\ FileShape(nodes) /\ NodesComplete
          /\ func = "builder" /\ out_file = "old"
          /\ UNCHANGED <<nodes, disk, func, out_file>>
      BY <1>1, <1>5 DEF CheckedInv, ProgressInv, NameOutputs, FlowSteps, renderVars
    <2>2. \/ VarsCollide /\ step' = "failed" /\ error' = "same_variable"
          \/ ~VarsCollide /\ step' = "connect"
      BY <1>5 DEF NameOutputs, Fail, Goto
    <2>3. VarsCollide => ~Valid
      BY <2>1, ValidPasses
    <2> QED
      BY <1>1, <2>1, <2>2, <2>3, SameNodes DEF CheckedInv, FlowSteps
  <1>6. CASE Connect
    <2>1. /\ step = "connect" /\ FileShape(nodes) /\ NodesComplete /\ ~VarsCollide
          /\ func \in Funcs /\ (func = "runner" => Valid) /\ out_file = "old"
          /\ UNCHANGED <<nodes, disk, func, out_file>>
      BY <1>1, <1>6 DEF CheckedInv, ProgressInv, CodegenTypeOK, Connect, FlowSteps
    <2>2. ~DuplicateOutput
      BY <2>1, DistinctOutputs DEF DuplicateOutput
    <2>3. \/ UnknownDependency /\ step' = "failed" /\ error' = "unknown_dependency"
          \/ ~UnknownDependency /\ step' = "sort"
      BY <1>6, <2>2 DEF Connect, Fail, Goto
    <2>4. UnknownDependency => ~Valid
      BY <2>1, ValidPasses
    <2>5. UnknownDependency => func = "builder"
      BY <2>1, <2>4 DEF Funcs
    <2> QED
      BY <1>1, <2>1, <2>3, <2>4, <2>5, SameNodes DEF CheckedInv, FlowSteps
  <1>7. CASE SortStep
    <2>1. step = "sort" /\ UNCHANGED <<step, error, nodes, disk, func, out_file>>
      BY <1>7 DEF SortStep
    <2> QED
      BY <1>1, <2>1, SameNodes DEF CheckedInv, FlowSteps
  <1>8. CASE SortDone
    <2>1. /\ step = "sort" /\ queue = <<>> /\ FileShape(nodes) /\ NodesComplete
          /\ ~VarsCollide /\ ~UnknownDependency
          /\ func \in Funcs /\ (func = "runner" => Valid) /\ out_file = "old"
          /\ UNCHANGED <<nodes, disk, func, out_file>>
      BY <1>1, <1>8 DEF CheckedInv, ProgressInv, CodegenTypeOK, SortDone, FlowSteps, renderVars
    <2>2. \/ Len(order) # Len(nodes) /\ step' = "failed" /\ error' = "cycle"
          \/ Len(order) = Len(nodes) /\ step' = "emit"
      BY <1>8 DEF SortDone, Fail, Goto
    <2>3. Len(order) # Len(nodes) => ~Valid
      BY <2>1, StuckIsInvalid
    <2>4. Len(order) # Len(nodes) => func = "builder"
      BY <2>1, <2>3 DEF Funcs
    <2> QED
      BY <1>1, <2>1, <2>2, <2>3, <2>4, SameNodes DEF CheckedInv, FlowSteps
  <1>9. CASE EmitNode
    <2>1. step = "emit" /\ UNCHANGED <<step, error, nodes, disk, func, out_file>>
      BY <1>9 DEF EmitNode
    <2> QED
      BY <1>1, <2>1, SameNodes DEF CheckedInv, FlowSteps
  <1>10. CASE EmitEnd
    <2>1. /\ step = "emit" /\ step' \in {"connect", "flow"}
          /\ UNCHANGED <<nodes, disk>>
      BY <1>10, EmitEndFinishes DEF EmitEnd
    <2>2. Valid
      BY <2>1, SortedIsValid
    <2> QED
      BY <1>1, <2>1, <2>2, SameNodes DEF CheckedInv, FlowSteps
  <1>11. CASE WriteFile
    <2>1. step' \in {"done", "failed"} /\ (step' = "failed" => error' = "io") /\ UNCHANGED disk
      BY <1>11 DEF WriteFile, Fail, Goto
    <2> QED
      BY <1>1, <2>1 DEF CheckedInv, FlowSteps
  <1>12. CASE UNCHANGED vars
    <2>1. UNCHANGED <<step, error, nodes, disk, func, out_file>>
      BY <1>12 DEF vars, renderVars
    <2> QED
      BY <1>1, <2>1, SameNodes DEF CheckedInv, FlowSteps
  <1> QED
    BY <1>2, <1>3, <1>4, <1>5, <1>6, <1>7, <1>8, <1>9, <1>10, <1>11, <1>12 DEF Next

\* The conditions on topo_sort's locals depend on nothing else.
LEMMA SameSorting ==
  ASSUME UNCHANGED <<nodes, order, queue, indegree>>, SortInv,
         step \in {"sort", "emit"}, step' \in {"sort", "emit"},
         step' = "emit" => queue = <<>> /\ Range(order) = DOMAIN nodes
  PROVE  SortInv'
  BY DEF SortInv, Pending, OrderSorted

LEMMA SortInvStep ==
  ASSUME CodegenInv, [Next]_vars
  PROVE  SortInv'
  <1>1. SortInv /\ CheckedInv
    BY DEF CodegenInv
  <1>2. CASE Connect
    BY <1>2, ConnectSorts
  <1>3. CASE SortStep
    BY <1>3, SortStepSorts
  <1>4. CASE SortDone
    <2>1. CASE step' = "emit"
      <3>1. /\ step = "sort" /\ queue = <<>> /\ Len(order) = Len(nodes)
            /\ UNCHANGED <<nodes, order, queue, indegree>>
        BY <1>4, <2>1 DEF SortDone, Fail, renderVars
      <3>2. Range(order) = DOMAIN nodes
        BY <1>1, <3>1, AllInOrder DEF SortInv, CheckedInv, FlowSteps
      <3> QED
        BY <1>1, <2>1, <3>1, <3>2, SameSorting
    <2>2. CASE step' # "emit"
      <3>1. step' \notin {"sort", "emit"}
        BY <1>4, <2>2 DEF SortDone, Fail, Goto
      <3> QED
        BY <3>1 DEF SortInv
    <2> QED
      BY <2>1, <2>2
  <1>5. CASE EmitNode
    <2>1. step = "emit" /\ step' = "emit" /\ UNCHANGED <<nodes, order, queue, indegree>>
      BY <1>5 DEF EmitNode
    <2>2. queue = <<>> /\ Range(order) = DOMAIN nodes
      BY <1>1, <2>1 DEF SortInv
    <2> QED
      BY <1>1, <2>1, <2>2, SameSorting
  <1>6. CASE ReadIndex \/ ReadFlow \/ CheckNodes \/ NameOutputs \/ EmitEnd \/ WriteFile
    <2>1. step' \notin {"sort", "emit"}
      <3>1. EmitEnd => step' \in {"connect", "flow"}
        BY EmitEndFinishes
      <3>2. ReadIndex \/ ReadFlow \/ NameOutputs \/ WriteFile => step' \notin {"sort", "emit"}
        BY DEF ReadIndex, ReadFlow, NameOutputs, WriteFile, Fail, Goto
      <3>3. CheckNodes => step' \notin {"sort", "emit"}
        BY DEF CheckNodes, Fail, Goto
      <3> QED
        BY <1>6, <3>1, <3>2, <3>3
    <2> QED
      BY <2>1 DEF SortInv
  <1>7. CASE UNCHANGED vars
    <2>1. UNCHANGED <<step, nodes, order, queue, indegree>>
      BY <1>7 DEF vars, renderVars
    <2>2. CASE step \in {"sort", "emit"}
      <3>1. step = "emit" => queue = <<>> /\ Range(order) = DOMAIN nodes
        BY <1>1 DEF SortInv
      <3> QED
        BY <1>1, <2>1, <2>2, <3>1, SameSorting
    <2>3. CASE step \notin {"sort", "emit"}
      BY <2>1, <2>3 DEF SortInv
    <2> QED
      BY <2>2, <2>3
  <1> QED
    BY <1>2, <1>3, <1>4, <1>5, <1>6, <1>7 DEF Next

(***************************************************************************)
(* A body that resolves still does when a statement is added that mentions *)
(* only variables bound before and binds another one.                      *)
(***************************************************************************)
LEMMA AppendResolves ==
  ASSUME NEW b \in Seq(Statement), Resolves(b), NEW s \in Statement,
         \A v \in Range(s.moves) : \E i \in DOMAIN b : b[i].binds = v,
         \A i \in DOMAIN b : b[i].binds # s.binds
  PROVE  Resolves(Append(b, s))
  <1> DEFINE n == Len(b)
             c == Append(b, s)
  <1>1. /\ n \in Nat /\ DOMAIN b = 1 .. n /\ DOMAIN c = 1 .. n + 1
        /\ \A i \in 1 .. n : c[i] = b[i]
        /\ c[n + 1] = s
    BY LenProperties, AppendProperties
  <1> HIDE DEF n, c
  <1>2. ASSUME NEW j \in 1 .. n
        PROVE  /\ \A v \in Range(c[j].moves) : \E i \in 1 .. j - 1 : c[i].binds = v
               /\ \A i \in 1 .. j - 1 : c[i].binds # c[j].binds
    <2>1. \A i \in 1 .. j - 1 : i \in 1 .. n
      BY <1>1
    <2>2. /\ \A v \in Range(b[j].moves) : \E i \in 1 .. j - 1 : b[i].binds = v
          /\ \A i \in 1 .. j - 1 : b[i].binds # b[j].binds
      BY <1>1 DEF Resolves
    <2>3. \A i \in 1 .. j - 1 : c[i] = b[i]
      BY <1>1, <2>1
    <2>4. c[j] = b[j]
      BY <1>1
    <2> QED
      BY <2>2, <2>3, <2>4
  <1>3. \A i \in 1 .. (n + 1) - 1 : i \in 1 .. n
    BY <1>1
  <1>4. \A i \in 1 .. n : i \in 1 .. (n + 1) - 1
    BY <1>1
  <1>5. /\ \A v \in Range(c[n + 1].moves) : \E i \in 1 .. (n + 1) - 1 : c[i].binds = v
        /\ \A i \in 1 .. (n + 1) - 1 : c[i].binds # c[n + 1].binds
    BY <1>1, <1>3, <1>4
  <1>6. \A j \in 1 .. n + 1 : j \in 1 .. n \/ j = n + 1
    BY <1>1
  <1>7. \A j \in 1 .. n + 1 :
          /\ \A v \in Range(c[j].moves) : \E i \in 1 .. j - 1 : c[i].binds = v
          /\ \A i \in 1 .. j - 1 : c[i].binds # c[j].binds
    BY <1>2, <1>5, <1>6
  <1>8. Resolves(c)
    BY <1>1, <1>7 DEF Resolves
  <1> QED
    BY <1>8 DEF c

\* What is known of the body while the statements are rendered.
LEMMA BodySoFar ==
  ASSUME CodegenInv, step = "emit"
  PROVE  /\ FileShape(nodes) /\ ~VarsCollide
         /\ order \in Seq(DOMAIN nodes) /\ IsInjective(order) /\ OrderSorted
         /\ Range(order) = DOMAIN nodes
         /\ Len(order) \in Nat /\ DOMAIN order = 1 .. Len(order)
         /\ body \in Seq(Statement) /\ Len(body) \in Nat /\ DOMAIN body = 1 .. Len(body)
         /\ Len(body) <= Len(order) /\ Resolves(body)
         /\ \A k \in DOMAIN body : /\ k \in DOMAIN order /\ body[k] = Let(order[k])
                                   /\ body[k].binds = Ident[nodes[order[k]].output]
  <1>1. /\ FileShape(nodes) /\ ~VarsCollide
        /\ order \in Seq(DOMAIN nodes) /\ IsInjective(order) /\ OrderSorted
        /\ Range(order) = DOMAIN nodes
        /\ body \in Seq(Statement)
        /\ Len(body) <= Len(order) /\ Resolves(body)
        /\ \A k \in DOMAIN body : body[k] = Let(order[k])
    BY DEF CodegenInv, CheckedInv, SortInv, BodyInv, BodyFollowsOrder, CodegenTypeOK, FlowSteps
  <1>2. /\ Len(order) \in Nat /\ DOMAIN order = 1 .. Len(order)
        /\ Len(body) \in Nat /\ DOMAIN body = 1 .. Len(body)
    BY <1>1, LenProperties
  <1>3. \A k \in DOMAIN body : k \in DOMAIN order
    BY <1>1, <1>2
  <1>4. \A k \in DOMAIN body : body[k].binds = Ident[nodes[order[k]].output]
    BY <1>1 DEF Let
  <1> QED
    BY <1>1, <1>2, <1>3, <1>4

\* The next statement mentions the outputs of nodes that come before in order.
LEMMA EmitNodeResolves ==
  ASSUME CodegenInv, EmitNode
  PROVE  Resolves(body')
  <1> DEFINE m == Len(body) + 1
             node == order[m]
  <1>1. step = "emit"
    BY DEF EmitNode
  <1>2. /\ m \in DOMAIN order /\ node \in DOMAIN nodes /\ body \in Seq(Statement)
        /\ Let(node) \in Statement /\ body' = Append(body, Let(node))
        /\ FileShape(nodes)
    BY EmitNodeAppends
  <1>3. DOMAIN body = 1 .. m - 1 /\ m \in Nat
    BY <1>1, BodySoFar
  <1> HIDE DEF m, node
  <1>4. ASSUME NEW v \in Range(Let(node).moves)
        PROVE  \E i \in DOMAIN body : body[i].binds = v
    <2>1. PICK k \in DOMAIN nodes[node].dependencies : v = Ident[nodes[node].dependencies[k]]
      <3>1. CASE nodes[node].source
        BY <3>1, <1>4 DEF Let, Range
      <3>2. CASE ~nodes[node].source
        BY <3>2, <1>4 DEF Let, Range
      <3> QED
        BY <3>1, <3>2
    <2>2. nodes[node].dependencies[k] \in Range(nodes[order[m]].dependencies)
      BY <2>1 DEF Range, node
    <2>3. PICK i \in 1 .. m - 1 : nodes[order[i]].output = nodes[node].dependencies[k]
      BY <1>1, <1>2, <2>2, BodySoFar DEF OrderSorted
    <2>4. body[i].binds = Ident[nodes[order[i]].output]
      BY <1>1, <1>3, BodySoFar
    <2> QED
      BY <1>3, <2>1, <2>3, <2>4
  <1>5. ASSUME NEW i \in DOMAIN body
        PROVE  body[i].binds # Let(node).binds
    <2>1. i \in DOMAIN order /\ i # m /\ body[i].binds = Ident[nodes[order[i]].output]
      BY <1>1, <1>3, BodySoFar
    <2>2. order[i] # node /\ order[i] \in DOMAIN nodes
      <3>1. IsInjective(order) /\ Range(order) = DOMAIN nodes
        BY <1>1, BodySoFar
      <3> QED
        BY <3>1, <1>2, <2>1 DEF IsInjective, Range, node
    <2>3. ~VarsCollide
      BY <1>1, BodySoFar
    <2> QED
      BY <1>2, <2>1, <2>2, <2>3 DEF VarsCollide, Let
  <1>6. Resolves(body)
    BY <1>1, BodySoFar
  <1> QED
    BY <1>2, <1>4, <1>5, <1>6, AppendResolves

\* The tail mentions the sink, which is bound, and binds no variable.
LEMMA EmitEndResolves ==
  ASSUME CodegenInv, EmitEnd
  PROVE  Resolves(Append(body, Tail_(func)))
  <1>1. step = "emit" /\ Len(body) = Len(order)
    BY DEF EmitEnd
  <1>2. /\ FileShape(nodes) /\ func \in Funcs /\ body \in Seq(Statement) /\ Resolves(body)
        /\ Range(order) = DOMAIN nodes /\ DOMAIN body = DOMAIN order
        /\ \A k \in DOMAIN body : body[k].binds = Ident[nodes[order[k]].output]
    BY <1>1, BodySoFar, EmitEndFinishes
  <1>3. /\ Tail_(func) \in Statement /\ Tail_(func).binds = func
        /\ Tail_(func).moves = <<Ident[nodes[Len(nodes)].output]>>
    BY <1>2, TailTypes
  <1>4. PICK k \in DOMAIN body : order[k] = Len(nodes)
    BY <1>2, SinkNode DEF Range
  <1>5. \A v \in Range(Tail_(func).moves) : v = Ident[nodes[Len(nodes)].output]
    BY <1>3 DEF Range
  <1>6. \A i \in DOMAIN body : body[i].binds # func
    <2>1. \A i \in DOMAIN body : order[i] \in DOMAIN nodes
      BY <1>2 DEF Range
    <2>2. \A i \in DOMAIN body : body[i].binds \in Vars
      BY <1>2, <2>1, NodeTypes, IdentAssumption
    <2> QED
      BY <1>2, <2>2, IdentAssumption
  <1>7. \A v \in Range(Tail_(func).moves) : \E i \in DOMAIN body : body[i].binds = v
    BY <1>2, <1>4, <1>5
  <1>8. \A i \in DOMAIN body : body[i].binds # Tail_(func).binds
    BY <1>3, <1>6
  <1> QED
    BY <1>2, <1>3, <1>7, <1>8, AppendResolves

LEMMA SameFinished ==
  ASSUME UNCHANGED rendered
  PROVE  FinishedResolve' <=> FinishedResolve
  BY DEF FinishedResolve

LEMMA BodyStep ==
  ASSUME CodegenInv, [Next]_vars
  PROVE  BodyInv'
  <1>1. BodyInv /\ CodegenTypeOK
    BY DEF CodegenInv
  <1>2. CASE EmitNode
    <2>1. Resolves(body') /\ step' = "emit" /\ UNCHANGED <<rendered, nodes, order>>
      BY <1>2, EmitNodeResolves DEF EmitNode
    <2>2. /\ Len(body') <= Len(order)
          /\ \A k \in DOMAIN body' : body'[k] = Let(order[k])
      <3>1. /\ Len(body) + 1 \in DOMAIN order /\ body \in Seq(Statement)
            /\ Let(order[Len(body) + 1]) \in Statement
            /\ body' = Append(body, Let(order[Len(body) + 1]))
        BY <1>2, EmitNodeAppends
      <3>2. /\ Len(body) \in Nat /\ Len(order) \in Nat /\ DOMAIN order = 1 .. Len(order)
            /\ DOMAIN body = 1 .. Len(body)
            /\ \A k \in DOMAIN body : body[k] = Let(order[k])
        BY <1>2, BodySoFar DEF EmitNode
      <3>3. /\ Len(body') = Len(body) + 1 /\ DOMAIN body' = 1 .. Len(body) + 1
            /\ \A k \in 1 .. Len(body) : body'[k] = body[k]
            /\ body'[Len(body) + 1] = Let(order[Len(body) + 1])
        BY <3>1, AppendProperties, LenProperties
      <3>4. \A k \in 1 .. Len(body) + 1 : k \in 1 .. Len(body) \/ k = Len(body) + 1
        BY <3>2
      <3> QED
        BY <3>1, <3>2, <3>3, <3>4
    <2>3. FinishedResolve'
      BY <1>1, <2>1, SameFinished DEF BodyInv
    <2>4. \A k : Let(order[k])' = Let(order[k])
      BY <2>1 DEF Let
    <2>5. \A k \in DOMAIN body' : body'[k] = Let(order[k])'
      BY <2>2, <2>4
    <2>6. BodyFollowsOrder'
      BY <2>1, <2>2, <2>5 DEF BodyFollowsOrder
    <2> QED
      BY <2>1, <2>3, <2>6 DEF BodyInv
  <1>3. CASE EmitEnd
    <2>1. /\ step' \notin {"sort", "emit"} /\ UNCHANGED body /\ func \in Funcs
          /\ \A f \in Funcs : f # func => rendered'[f] = rendered[f]
          /\ rendered'[func] = Append(rendered[func], Append(body, Tail_(func)))
          /\ rendered[func] \in Seq(Seq(Statement))
          /\ Append(body, Tail_(func)) \in Seq(Statement)
      BY <1>1, <1>3, EmitEndFinishes DEF EmitEnd, CodegenTypeOK
    <2>2. ASSUME NEW k \in DOMAIN rendered'[func]
          PROVE  Resolves(rendered'[func][k])
      <3> DEFINE r == rendered[func]
                 b == Append(body, Tail_(func))
      <3>1. Resolves(b)
        BY <1>3, EmitEndResolves
      <3>2. \A i \in DOMAIN r : Resolves(r[i])
        BY <1>1, <2>1 DEF BodyInv, FinishedResolve
      <3>3. /\ Len(r) \in Nat /\ DOMAIN r = 1 .. Len(r)
            /\ DOMAIN Append(r, b) = 1 .. Len(r) + 1
            /\ \A i \in 1 .. Len(r) : Append(r, b)[i] = r[i]
            /\ Append(r, b)[Len(r) + 1] = b
        BY <2>1, AppendProperties, LenProperties
      <3>4. k \in 1 .. Len(r) + 1
        BY <2>1, <3>3
      <3>5. k \in 1 .. Len(r) \/ k = Len(r) + 1
        BY <3>3, <3>4
      <3> HIDE DEF r, b
      <3>6. rendered'[func] = Append(r, b)
        BY <2>1 DEF r, b
      <3> QED
        BY <3>1, <3>2, <3>3, <3>5, <3>6
    <2>3. ASSUME NEW f \in Funcs, NEW k \in DOMAIN rendered'[f]
          PROVE  Resolves(rendered'[f][k])
      BY <1>1, <2>1, <2>2 DEF BodyInv, FinishedResolve
    <2>4. FinishedResolve'
      BY <2>3 DEF FinishedResolve
    <2>5. Resolves(body')
      BY <1>1, <2>1 DEF BodyInv
    <2> QED
      BY <2>1, <2>4, <2>5 DEF BodyInv
  <1>4. CASE Connect
    <2>1. body' = <<>> /\ UNCHANGED rendered /\ step' # "emit"
      BY <1>4 DEF Connect, Fail, Goto
    <2>2. Resolves(body')
      BY <2>1 DEF Resolves
    <2> QED
      BY <1>1, <2>1, <2>2, SameFinished DEF BodyInv
  <1>5. CASE SortStep
    <2>1. step = "sort" /\ UNCHANGED <<step, body, rendered>>
      BY <1>5 DEF SortStep
    <2> QED
      BY <1>1, <2>1, SameFinished DEF BodyInv
  <1>6. CASE SortDone
    <2>1. step = "sort" /\ UNCHANGED <<body, rendered>> /\ step' # "sort" /\ UNCHANGED order
      BY <1>6 DEF SortDone, Fail, Goto, renderVars
    <2>2. body = <<>> /\ Len(body) = 0 /\ DOMAIN body = {}
      BY <1>1, <2>1 DEF BodyInv
    <2>3. Len(order) \in Nat
      BY <1>1, LenProperties DEF CodegenTypeOK
    <2> QED
      BY <1>1, <2>1, <2>2, <2>3, SameFinished DEF BodyInv, BodyFollowsOrder
  <1>7. CASE ReadIndex \/ ReadFlow \/ CheckNodes \/ NameOutputs \/ WriteFile
    <2>1. step' \notin {"sort", "emit"} /\ UNCHANGED <<body, rendered>>
      <3>1. ReadIndex \/ ReadFlow \/ NameOutputs \/ WriteFile =>
              step' \notin {"sort", "emit"} /\ UNCHANGED <<body, rendered>>
        BY DEF ReadIndex, ReadFlow, NameOutputs, WriteFile, Fail, Goto, renderVars
      <3>2. CheckNodes => step' \notin {"sort", "emit"} /\ UNCHANGED <<body, rendered>>
        BY DEF CheckNodes, Fail, Goto, renderVars
      <3> QED
        BY <1>7, <3>1, <3>2
    <2> QED
      BY <1>1, <2>1, SameFinished DEF BodyInv
  <1>8. CASE UNCHANGED vars
    <2>1. UNCHANGED <<step, body, rendered, order, nodes>>
      BY <1>8 DEF vars, renderVars
    <2>2. BodyFollowsOrder' <=> BodyFollowsOrder
      BY <2>1 DEF BodyFollowsOrder, Let
    <2> QED
      BY <1>1, <2>1, <2>2, SameFinished DEF BodyInv
  <1> QED
    BY <1>2, <1>3, <1>4, <1>5, <1>6, <1>7, <1>8 DEF Next

THEOREM CodegenInvariant == Spec => []CodegenInv
  <1>1. CodegenInv /\ [Next]_vars => CodegenInv'
    BY TypesStep, ProgressStep, CheckedStep, SortInvStep, BodyStep DEF CodegenInv
  <1> QED
    BY CodegenStart, <1>1, PTL DEF Spec

-----------------------------------------------------------------------------
(***************************************************************************)
(* What the invariant says of the generator.                               *)
(***************************************************************************)

\* The variables are of their types; no in-degree is counted below zero.
THEOREM CodegenTypes == Spec => []CodegenTypeOK
  <1>1. CodegenInv => CodegenTypeOK
    BY DEF CodegenInv
  <1> QED
    BY <1>1, CodegenInvariant, PTL

(***************************************************************************)
(* generate() rejects a flow file only if it is invalid, and renders a     *)
(* function only of a valid one: topo_sort's count of visited nodes is a   *)
(* test for cycles, with dependencies mentioned any number of times.       *)
(***************************************************************************)
THEOREM RejectsOnlyTheInvalid == Spec => []RejectsExactlyTheInvalid
  <1>1. CodegenInv => RejectsExactlyTheInvalid
    BY SortedIsValid DEF CodegenInv, CheckedInv, RejectsExactlyTheInvalid
  <1> QED
    BY <1>1, CodegenInvariant, PTL

(***************************************************************************)
(* The checks of render_flow_builder leave nothing for those of topo_sort  *)
(* and of the renderers' ends to find, so no runner fails to render.       *)
(***************************************************************************)
THEOREM FirstChecksAlwaysSuffice == Spec => []FirstChecksSuffice
  <1>1. ASSUME CodegenInv
        PROVE  FirstChecksSuffice
    <2>1. step # "failed" => error = "none"
      BY <1>1 DEF CodegenInv, CodegenTypeOK
    <2> QED
      BY <1>1, <2>1 DEF CodegenInv, CheckedInv, FirstChecksSuffice
  <1> QED
    BY <1>1, CodegenInvariant, PTL

(***************************************************************************)
(* Every rendered function binds each variable once and before it is used. *)
(***************************************************************************)
THEOREM AlwaysDefinedBeforeUse == Spec => []DefinedBeforeUse
  <1>1. ASSUME CodegenInv
        PROVE  DefinedBeforeUse
    <2>1. Resolves(body) /\ FinishedResolve
      BY <1>1 DEF CodegenInv, BodyInv
    <2>2. ASSUME NEW b \in Bodies
          PROVE  Resolves(b)
      BY <2>1 DEF Bodies, FinishedResolve, Range
    <2> QED
      BY <2>2 DEF DefinedBeforeUse, Resolves
  <1> QED
    BY <1>1, CodegenInvariant, PTL

(***************************************************************************)
(* The file written holds both functions of every path of the index, and   *)
(* an invalid flow file leaves the old one in place.                       *)
(***************************************************************************)
THEOREM AlwaysAllOrNothing == Spec => []AllOrNothing
  <1>1. ASSUME CodegenInv
        PROVE  AllOrNothing
    <2>1. out_file = "new" => \A f \in Funcs : Len(rendered[f]) = Len(paths)
      BY <1>1 DEF CodegenInv, ProgressInv, Flows, Funcs
    <2> QED
      BY <1>1, <2>1 DEF CodegenInv, ProgressInv, CheckedInv, AllOrNothing
  <1> QED
    BY <1>1, CodegenInvariant, PTL

-----------------------------------------------------------------------------
(***************************************************************************)
(* The generated code, run (GeneratedFlow).  A function that was rendered  *)
(* for a path spells out the file found there: a statement for each node,  *)
(* with the variables of its outputs, and the sink last.                   *)
(***************************************************************************)
VarOf(n) == Ident[n.output]

Spells(s, n) ==
  /\ s.binds = VarOf(n)
  /\ s.moves = [k \in DOMAIN n.dependencies |-> Ident[n.dependencies[k]]]

Renders(b, file) ==
  /\ b \in Seq(Statement)
  /\ Len(b) = Len(file) + 1
  /\ FileShape(file)
  /\ \A l \in 1 .. Len(file) : b[l].node \in DOMAIN file /\ Spells(b[l], file[b[l].node])
  /\ \A l, m \in 1 .. Len(file) : b[l].node = b[m].node => l = m
  /\ b[Len(b)].moves = <<VarOf(file[Len(file)])>>
  /\ \A i, j \in DOMAIN file : VarOf(file[i]) = VarOf(file[j]) => i = j
  /\ \A i \in DOMAIN file : \A d \in Range(file[i].dependencies) :
       \E j \in DOMAIN file : file[j].output = d

\* The generator renders what it found at the paths of the index, in order.
FilesInv ==
  /\ step \in FlowSteps =>
       paths[Flows + 1] \in DOMAIN disk /\ nodes = disk[paths[Flows + 1]]
  /\ \A f \in Funcs : \A k \in DOMAIN rendered[f] :
       paths[k] \in DOMAIN disk /\ Renders(rendered[f][k], disk[paths[k]])

(***************************************************************************)
(* How far the function b that was called has come: the tasks of its first *)
(* statements are committed in order, wired to what the statements mention *)
(* and bound to their variables; the builder works on the next one.        *)
(***************************************************************************)
StatementsRun(b) == Len(b) - (IF code = <<>> THEN 1 ELSE Len(code))

\* Task ids stand for the variables that the statements of their tasks bind.
WiredTo(b, ids, moves) ==
  /\ ids \in Seq(Nat)
  /\ DOMAIN ids = DOMAIN moves
  /\ \A k \in DOMAIN ids : /\ ids[k] + 1 \in 1 .. Len(b) - 1
                           /\ b[ids[k] + 1].binds = moves[k]

CodeLeft(b) ==
  /\ code \in Seq(Statement) /\ Len(code) <= Len(b)
  /\ code # <<>> => \A j \in DOMAIN code : code[j] = b[StatementsRun(b) + j]
  /\ pc # "idle" => Len(code) > 1
  /\ pc \in GraphPcs

TasksMade(b) ==
  /\ numTasks = IF pc = "idle" THEN StatementsRun(b) ELSE StatementsRun(b) + 1
  /\ numTasks <= MaxTasks
  /\ made \in Seq(Nat) /\ Len(made) = numTasks
  /\ \A l \in 1 .. numTasks : made[l] = b[l].node

VarsBound(b) ==
  \A l \in 1 .. StatementsRun(b) : b[l].binds \in DOMAIN env /\ env[b[l].binds] = l - 1

TasksWired(b) ==
  /\ rev_edges \in [TaskId -> Seq(Nat)]
  /\ \A l \in 1 .. StatementsRun(b) : WiredTo(b, rev_edges[l - 1], b[l].moves)
  /\ \A t \in TaskId : t >= numTasks => rev_edges[t] = <<>>
  /\ pc # "idle" => builder \in [id : {StatementsRun(b)}, todo : Seq(Nat)]
  /\ pc = "building" => rev_edges[builder.id] = <<>>
  /\ pc = "wiring" =>
       WiredTo(b, rev_edges[builder.id] \o builder.todo, b[builder.id + 1].moves)

SinkTaken(b) ==
  /\ code = <<>> <=> sink_id # <<>>
  /\ sink_id # <<>> => /\ sink_id[1] + 1 \in 1 .. Len(b) - 1
                       /\ b[sink_id[1] + 1].binds = b[Len(b)].moves[1]

Running(b) == CodeLeft(b) /\ TasksMade(b) /\ VarsBound(b) /\ TasksWired(b) /\ SinkTaken(b)

RunInv ==
  /\ asked = <<>> => /\ pc = "idle" /\ numTasks = 0 /\ code = <<>> /\ made = <<>>
                     /\ sink_id = <<>> /\ rev_edges = [t \in TaskId |-> <<>>]
  /\ asked # <<>> => step = "done"
  /\ asked # <<>> /\ Arms(asked[1]) = {} => pc = "idle" /\ code = <<>> /\ sink_id = <<>>
  /\ asked # <<>> /\ Arms(asked[1]) # {} =>
       \E f \in Funcs : Running(rendered[f][FirstArm(asked[1])])

GenInv == CodegenInv /\ FilesInv /\ RunInv

-----------------------------------------------------------------------------
(***************************************************************************)
(* What is rendered spells out the file.                                   *)
(***************************************************************************)

\* A statement that is not the sink's tail spells out its node.
LEMMA LetSpells ==
  ASSUME FileShape(nodes), NodesComplete, NEW i \in DOMAIN nodes
  PROVE  Let(i).node = i /\ Spells(Let(i), nodes[i])
  <1>1. nodes[i].source <=> nodes[i].dependencies = <<>>
    BY CompleteNodes
  <1>2. nodes[i].source => [k \in DOMAIN nodes[i].dependencies |-> Ident[nodes[i].dependencies[k]]] = <<>>
    BY <1>1
  <1> QED
    BY <1>2 DEF Let, Spells, VarOf

LEMMA RenderedSpells ==
  ASSUME CodegenInv, EmitEnd
  PROVE  Renders(Append(body, Tail_(func)), nodes)
  <1> DEFINE b == Append(body, Tail_(func))
             n == Len(nodes)
  <1>1. step = "emit" /\ Len(body) = Len(order)
    BY DEF EmitEnd
  <1>2. /\ FileShape(nodes) /\ ~VarsCollide /\ body \in Seq(Statement)
        /\ order \in Seq(DOMAIN nodes) /\ IsInjective(order)
        /\ Range(order) = DOMAIN nodes /\ DOMAIN body = 1 .. Len(body)
        /\ \A k \in DOMAIN body : k \in DOMAIN order /\ body[k] = Let(order[k])
    BY <1>1, BodySoFar
  <1>3. NodesComplete /\ ~UnknownDependency
    BY <1>1 DEF CodegenInv, CheckedInv, FlowSteps
  <1>4. Len(body) = n /\ n \in Nat /\ n \in DOMAIN nodes
    BY <1>1, <1>2, AllInOrder, SinkNode, NodeTypes
  <1>5. b \in Seq(Statement) /\ Tail_(func).moves = <<VarOf(nodes[n])>>
    BY <1>2, EmitEndFinishes, TailTypes DEF VarOf
  <1>6. /\ Len(b) = n + 1 /\ b[n + 1] = Tail_(func)
        /\ \A l \in 1 .. n : b[l] = body[l]
    BY <1>2, <1>4, AppendProperties, EmitEndFinishes, TailTypes
  <1> HIDE DEF b, n
  <1>7. \A l \in 1 .. n : l \in DOMAIN order /\ order[l] \in DOMAIN nodes /\ b[l] = Let(order[l])
    BY <1>2, <1>4, <1>6 DEF Range
  <1>8. \A l \in 1 .. n : /\ b[l].node = order[l]
                          /\ b[l].node \in DOMAIN nodes /\ Spells(b[l], nodes[b[l].node])
    BY <1>2, <1>3, <1>7, LetSpells
  <1>9. \A l, m \in 1 .. n : b[l].node = b[m].node => l = m
    BY <1>2, <1>7, <1>8 DEF IsInjective
  <1>10. \A i, j \in DOMAIN nodes : VarOf(nodes[i]) = VarOf(nodes[j]) => i = j
    BY <1>2 DEF VarsCollide, VarOf
  <1>11. \A i \in DOMAIN nodes : \A d \in Range(nodes[i].dependencies) :
           \E j \in DOMAIN nodes : nodes[j].output = d
    BY <1>3, KnownDependencies DEF Produced
  <1>12. b[Len(b)].moves = <<VarOf(nodes[Len(nodes)])>>
    BY <1>5, <1>6 DEF n
  <1>13. Renders(b, nodes)
    BY <1>2, <1>5, <1>6, <1>8, <1>9, <1>10, <1>11, <1>12 DEF Renders, n
  <1> QED
    BY <1>13 DEF b

\* A file that was read stays as it was read.
LEMMA DiskKept ==
  ASSUME CodegenInv, Next, NEW p \in DOMAIN disk
  PROVE  p \in DOMAIN disk' /\ disk'[p] = disk[p]
  <1>1. CASE ReadFlow
    BY <1>1 DEF ReadFlow, Fail
  <1>2. CASE ~ReadFlow
    <2>1. UNCHANGED disk
      BY <1>2 DEF Next, ReadIndex, CheckNodes, NameOutputs, Connect, SortStep, SortDone,
                  EmitNode, EmitEnd, WriteFile
    <2> QED
      BY <2>1
  <1> QED
    BY <1>1, <1>2

LEMMA FilesStep ==
  ASSUME CodegenInv, FilesInv, Next
  PROVE  FilesInv'
  <1>1. \A f \in Funcs : \A k \in DOMAIN rendered[f] :
          paths[k] \in DOMAIN disk /\ Renders(rendered[f][k], disk[paths[k]])
    BY DEF FilesInv
  <1>2. CASE ReadIndex
    <2>1. \A f \in Funcs : rendered[f] \in Seq(Seq(Statement)) /\ Len(rendered[f]) = 0
      BY <1>2 DEF ReadIndex, CodegenInv, CodegenTypeOK, ProgressInv, Flows, Funcs
    <2>2. \A f \in Funcs : DOMAIN rendered[f] = {}
      BY <2>1, LenProperties
    <2>3. step' \notin FlowSteps /\ UNCHANGED rendered
      BY <1>2 DEF ReadIndex, Fail, Goto, FlowSteps
    <2> QED
      BY <2>2, <2>3 DEF FilesInv
  <1>3. CASE ~ReadIndex /\ ~EmitEnd
    <2>1. UNCHANGED <<paths, rendered>>
      BY <1>3 DEF Next, ReadFlow, CheckNodes, NameOutputs, Connect, SortStep, SortDone,
                  EmitNode, WriteFile
    <2>2. \A f \in Funcs : \A k \in DOMAIN rendered[f] :
            paths[k] \in DOMAIN disk' /\ Renders(rendered[f][k], disk'[paths[k]])
      BY <1>1, DiskKept
    <2>3. step' \in FlowSteps =>
            paths[Flows + 1] \in DOMAIN disk' /\ nodes' = disk'[paths[Flows + 1]]
      <3>1. CASE ReadFlow
        BY <3>1 DEF ReadFlow, Fail, Goto, FlowSteps, Flows
      <3>2. CASE ~ReadFlow
        <4>1. UNCHANGED <<disk, nodes>> /\ (step' \in FlowSteps => step \in FlowSteps)
          <5>1. CheckNodes => UNCHANGED <<disk, nodes>> /\ step \in FlowSteps
            BY DEF CheckNodes, FlowSteps
          <5>2. ~CheckNodes => UNCHANGED <<disk, nodes>> /\ (step' \in FlowSteps => step \in FlowSteps)
            BY <1>3, <3>2 DEF Next, NameOutputs, Connect, SortStep, SortDone,
                  EmitNode, WriteFile, FlowSteps, Fail, Goto
          <5> QED
            BY <5>1, <5>2
        <4> QED
          BY <4>1 DEF FilesInv
      <3> QED
        BY <3>1, <3>2
    <2> QED
      BY <2>1, <2>2, <2>3 DEF FilesInv, Flows
  <1>4. CASE EmitEnd
    <2>1. /\ func \in Funcs
          /\ step' = IF func = "builder" THEN "connect" ELSE "flow"
          /\ \A f \in Funcs : f # func => rendered'[f] = rendered[f]
          /\ rendered'[func] = Append(rendered[func], Append(body, Tail_(func)))
          /\ Append(body, Tail_(func)) \in Seq(Statement)
      BY <1>4, EmitEndFinishes
    <2>2. step = "emit" /\ UNCHANGED <<paths, disk, nodes>>
      BY <1>4 DEF EmitEnd
    <2>3. paths[Flows + 1] \in DOMAIN disk /\ nodes = disk[paths[Flows + 1]]
      BY <2>2 DEF FilesInv, FlowSteps
    <2>4. rendered[func] \in Seq(Seq(Statement)) /\ Len(rendered[func]) = Flows
      BY <2>1, <2>2 DEF CodegenInv, CodegenTypeOK, ProgressInv, Flows, Funcs, FlowSteps
    <2>5. Renders(Append(body, Tail_(func)), nodes)
      BY <1>4, RenderedSpells
    <2>6. ASSUME NEW k \in DOMAIN rendered'[func]
          PROVE  paths[k] \in DOMAIN disk /\ Renders(rendered'[func][k], disk[paths[k]])
      <3> DEFINE r == rendered[func]
                 b == Append(body, Tail_(func))
      <3>1. /\ Len(r) \in Nat /\ DOMAIN r = 1 .. Len(r)
            /\ DOMAIN Append(r, b) = 1 .. Len(r) + 1
            /\ \A i \in 1 .. Len(r) : Append(r, b)[i] = r[i]
            /\ Append(r, b)[Len(r) + 1] = b
        BY <2>1, <2>4, AppendProperties, LenProperties
      <3>2. rendered'[func] = Append(r, b) /\ k \in 1 .. Len(r) + 1
        BY <2>1, <3>1
      <3>3. \A i \in 1 .. Len(r) : paths[i] \in DOMAIN disk /\ Renders(r[i], disk[paths[i]])
        BY <1>1, <2>1, <3>1
      <3>4. Len(r) = Flows /\ Renders(b, nodes)
        BY <2>4, <2>5
      <3> HIDE DEF r, b
      <3>5. CASE k = Len(r) + 1
        BY <2>3, <3>1, <3>2, <3>4, <3>5
      <3>6. CASE k # Len(r) + 1
        <4>1. k \in 1 .. Len(r)
          BY <3>1, <3>2, <3>6
        <4> QED
          BY <3>1, <3>2, <3>3, <4>1
      <3> QED
        BY <3>5, <3>6
    <2>7. ASSUME NEW f \in Funcs, NEW k \in DOMAIN rendered'[f]
          PROVE  paths[k] \in DOMAIN disk /\ Renders(rendered'[f][k], disk[paths[k]])
      BY <1>1, <2>1, <2>6
    <2>8. step' \in FlowSteps => Flows' = Flows
      BY <2>1 DEF FlowSteps, Flows, Funcs
    <2> QED
      BY <2>2, <2>3, <2>7, <2>8 DEF FilesInv
  <1> QED
    BY <1>2, <1>3, <1>4

-----------------------------------------------------------------------------
(***************************************************************************)
(* A function that was rendered, run statement by statement.               *)
(***************************************************************************)
Called(b) == Resolves(b) /\ \E file : Renders(b, file)

\* The shape of a rendered function: statements, and a last one that takes the sink.
LEMMA CalledShape ==
  ASSUME NEW b, Called(b)
  PROVE  /\ b \in Seq(Statement) /\ Len(b) \in Nat /\ Len(b) >= 2 /\ DOMAIN b = 1 .. Len(b)
         /\ \A j \in 1 .. Len(b) : b[j] \in Statement
         /\ \E v : b[Len(b)].moves = <<v>>
  <1>1. PICK file : Renders(b, file)
    BY DEF Called
  <1>2. file \in Seq(Node) /\ file # <<>>
    BY <1>1 DEF Renders, FileShape
  <1>3. Len(file) \in Nat /\ Len(file) # 0
    BY <1>2, LenProperties, EmptySeq
  <1>4. b \in Seq(Statement) /\ Len(b) = Len(file) + 1
    BY <1>1 DEF Renders
  <1>5. Len(b) \in Nat /\ Len(b) >= 2 /\ DOMAIN b = 1 .. Len(b)
    BY <1>3, <1>4, LenProperties
  <1>6. \A j \in 1 .. Len(b) : b[j] \in Statement
    BY <1>4, ElementOfSeq
  <1> QED
    BY <1>1, <1>4, <1>5, <1>6 DEF Renders

\* The statement to be run next is the one after those that were run.
LEMMA StatementNext ==
  ASSUME NEW b, Called(b), CodeLeft(b), code # <<>>
  PROVE  /\ StatementsRun(b) \in Nat
         /\ StatementsRun(b) = Len(b) - Len(code)
         /\ StatementsRun(b) + 1 \in 1 .. Len(b)
         /\ Len(code) \in Nat \ {0}
         /\ Len(code) > 1 => StatementsRun(b) + 1 \in 1 .. Len(b) - 1
         /\ Len(code) = 1 => StatementsRun(b) + 1 = Len(b)
         /\ Head(code) = b[StatementsRun(b) + 1]
         /\ b[StatementsRun(b) + 1] \in Statement
  <1>1. /\ Len(b) \in Nat /\ Len(b) >= 2
        /\ \A j \in 1 .. Len(b) : b[j] \in Statement
    BY CalledShape
  <1>2. code \in Seq(Statement) /\ Len(code) <= Len(b)
    BY DEF CodeLeft
  <1>3. Len(code) \in Nat /\ Len(code) # 0 /\ DOMAIN code = 1 .. Len(code) /\ Head(code) = code[1]
    BY <1>2, HeadTailProperties, LenProperties, EmptySeq
  <1>4. StatementsRun(b) = Len(b) - Len(code)
    BY DEF StatementsRun
  <1>5. code[1] = b[StatementsRun(b) + 1]
    <2>1. 1 \in DOMAIN code
      BY <1>3
    <2> QED
      BY <2>1 DEF CodeLeft
  <1> QED
    BY <1>1, <1>2, <1>3, <1>4, <1>5

\* A statement's variable is bound to its task, and the next statement is up.
LEMMA BindStep ==
  ASSUME NEW b, Called(b), CodeLeft(b), VarsBound(b), Len(code) > 1, code # <<>>,
         BindTo(StatementsRun(b))
  PROVE  /\ StatementsRun(b)' = StatementsRun(b) + 1
         /\ code' \in Seq(Statement) /\ code' # <<>> /\ Len(code') <= Len(b)
         /\ \A j \in DOMAIN code' : code'[j] = b[StatementsRun(b)' + j]
         /\ VarsBound(b)'
  <1> DEFINE d == StatementsRun(b)
             x == b[d + 1].binds
  <1>1. /\ d \in Nat /\ d = Len(b) - Len(code) /\ d + 1 \in 1 .. Len(b) - 1
        /\ Head(code) = b[d + 1] /\ Len(code) \in Nat
    BY StatementNext
  <1>2. /\ Len(b) \in Nat /\ Len(b) >= 2 /\ DOMAIN b = 1 .. Len(b)
    BY CalledShape
  <1>3. code \in Seq(Statement) /\ Len(code) <= Len(b)
    BY DEF CodeLeft
  <1>4. code' = Tail(code) /\ env' = [v \in DOMAIN env \cup {x} |-> IF v = x THEN d ELSE env[v]]
    BY <1>1 DEF BindTo
  <1>5. /\ code' \in Seq(Statement) /\ Len(code') = Len(code) - 1
        /\ DOMAIN code' = 1 .. Len(code) - 1
        /\ \A j \in 1 .. Len(code) - 1 : code'[j] = code[j + 1]
    BY <1>3, <1>4, HeadTailProperties, LenProperties
  <1>6. code' # <<>>
    BY <1>1, <1>5, EmptySeq
  <1>7. StatementsRun(b)' = d + 1
    BY <1>1, <1>2, <1>5, <1>6 DEF StatementsRun
  <1>8. ASSUME NEW j \in DOMAIN code'
        PROVE  code'[j] = b[(d + 1) + j]
    <2>1. j \in 1 .. Len(code) - 1 /\ j + 1 \in 1 .. Len(code) /\ DOMAIN code = 1 .. Len(code)
      BY <1>1, <1>3, <1>5, LenProperties
    <2>2. code[j + 1] = b[d + (j + 1)]
      BY <2>1 DEF CodeLeft
    <2>3. d + (j + 1) = (d + 1) + j
      BY <1>1, <2>1
    <2> QED
      BY <1>5, <2>1, <2>2, <2>3
  <1>9. \A i \in 1 .. d : b[i].binds # x
    <2>1. d + 1 \in DOMAIN b /\ (d + 1) - 1 = d
      BY <1>1, <1>2
    <2> QED
      BY <2>1 DEF Called, Resolves
  <1>10. \A l \in 1 .. d : b[l].binds \in DOMAIN env /\ env[b[l].binds] = l - 1
    BY DEF VarsBound
  <1>11. ASSUME NEW l \in 1 .. d + 1
         PROVE  b[l].binds \in DOMAIN env' /\ env'[b[l].binds] = l - 1
    <2>1. CASE l = d + 1
      <3>1. b[l].binds = x /\ l - 1 = d
        BY <1>1, <2>1
      <3> QED
        BY <1>4, <3>1
    <2>2. CASE l # d + 1
      <3>1. l \in 1 .. d
        BY <1>1, <2>2
      <3> HIDE DEF x, d
      <3> QED
        BY <1>4, <1>9, <1>10, <3>1
    <2> QED
      BY <2>1, <2>2
  <1>12. VarsBound(b)'
    <2>1. \A l \in 1 .. StatementsRun(b)' : b[l].binds \in DOMAIN env' /\ env'[b[l].binds] = l - 1
      BY <1>7, <1>11
    <2> QED
      BY <2>1 DEF VarsBound
  <1> QED
    BY <1>3, <1>5, <1>1, <1>2, <1>6, <1>7, <1>8, <1>12

\* A variable that a statement mentions holds the task of an earlier one.
LEMMA MentionedBound ==
  ASSUME NEW b, Called(b), VarsBound(b), StatementsRun(b) \in Nat,
         StatementsRun(b) + 1 \in 1 .. Len(b),
         NEW k \in DOMAIN b[StatementsRun(b) + 1].moves
  PROVE  LET v == b[StatementsRun(b) + 1].moves[k]
         IN  env[v] \in Nat /\ env[v] + 1 \in 1 .. Len(b) - 1 /\ b[env[v] + 1].binds = v
  <1> DEFINE d == StatementsRun(b)
             v == b[d + 1].moves[k]
  <1>1. DOMAIN b = 1 .. Len(b) /\ Len(b) \in Nat
    BY CalledShape
  <1>2. d + 1 \in DOMAIN b /\ (d + 1) - 1 = d
    BY <1>1
  <1>3. v \in Range(b[d + 1].moves)
    BY DEF Range
  <1>4. \E i \in 1 .. (d + 1) - 1 : b[i].binds = v
    <2>1. \A j \in DOMAIN b : \A w \in Range(b[j].moves) : \E i \in 1 .. j - 1 : b[i].binds = w
      BY DEF Called, Resolves
    <2> HIDE DEF d, v
    <2> QED
      BY <1>2, <1>3, <2>1
  <1>5. PICK i \in 1 .. d : b[i].binds = v
    BY <1>2, <1>4
  <1>6. env[v] = i - 1
    BY <1>5 DEF VarsBound
  <1> HIDE DEF v
  <1>7. env[v] \in Nat /\ env[v] + 1 = i /\ i \in 1 .. Len(b) - 1
    BY <1>1, <1>5, <1>6
  <1>8. env[v] \in Nat /\ env[v] + 1 \in 1 .. Len(b) - 1 /\ b[env[v] + 1].binds = v
    BY <1>5, <1>7
  <1> QED
    BY <1>8 DEF v, d

\* A step that commits the task of the next statement.
LEMMA CommitStep ==
  ASSUME NEW b, Called(b), Running(b), code # <<>>, Len(code) > 1, pc = "idle",
         NEW s, PushTask(s), made' = Append(made, Head(code).node)
  PROVE  /\ numTasks' = StatementsRun(b) + 1 /\ numTasks' <= MaxTasks
         /\ made' \in Seq(Nat) /\ Len(made') = numTasks'
         /\ \A l \in 1 .. numTasks' : made'[l] = b[l].node
         /\ numTasks = StatementsRun(b) /\ numTasks \in TaskId
         /\ rev_edges[numTasks] = <<>>
         /\ UNCHANGED rev_edges
  <1>1. /\ StatementsRun(b) \in Nat /\ StatementsRun(b) + 1 \in 1 .. Len(b) - 1
        /\ Head(code) = b[StatementsRun(b) + 1]
        /\ b[StatementsRun(b) + 1] \in Statement
    BY StatementNext DEF Running
  <1>2. /\ numTasks = StatementsRun(b) /\ made \in Seq(Nat) /\ Len(made) = numTasks
        /\ \A l \in 1 .. numTasks : made[l] = b[l].node
    BY DEF Running, TasksMade
  <1>3. numTasks < MaxTasks /\ numTasks' = numTasks + 1 /\ UNCHANGED rev_edges
    BY DEF PushTask
  <1>4. numTasks \in TaskId /\ numTasks' <= MaxTasks
    BY <1>1, <1>2, <1>3, BoundsAssumption DEF TaskId
  <1>5. rev_edges[numTasks] = <<>>
    BY <1>1, <1>2, <1>4 DEF Running, TasksWired
  <1>6. Head(code).node \in Nat
    BY <1>1 DEF Statement
  <1>7. /\ made' \in Seq(Nat) /\ Len(made') = numTasks + 1
        /\ \A l \in 1 .. numTasks : made'[l] = made[l]
        /\ made'[numTasks + 1] = Head(code).node
    BY <1>1, <1>2, <1>6, AppendProperties
  <1>8. ASSUME NEW l \in 1 .. numTasks'
        PROVE  made'[l] = b[l].node
    <2>1. l \in 1 .. numTasks \/ l = numTasks + 1
      BY <1>1, <1>2, <1>3
    <2> QED
      BY <2>1, <1>1, <1>2, <1>7
  <1> QED
    BY <1>2, <1>3, <1>4, <1>5, <1>7, <1>8

\* Rows that no step touches stay wired; a task not yet committed has none.
LEMMA NothingWired ==
  ASSUME NEW b, Called(b)
  PROVE  WiredTo(b, <<>>, <<>>)
  BY EmptySeq DEF WiredTo

LEMMA SourceRun ==
  ASSUME NEW b, Called(b), Running(b), RunSource
  PROVE  Running(b)'
  <1> DEFINE d == StatementsRun(b)
  <1>1. Len(code) > 1 /\ pc = "idle" /\ PushTask(TaskOf(0)) /\ Head(code).moves = <<>>
        /\ made' = Append(made, Head(code).node) /\ BindTo(numTasks)
        /\ UNCHANGED <<pc, builder, sink_id>>
    BY DEF RunSource, commit_source_task
  <1>2. code \in Seq(Statement)
    BY DEF Running, CodeLeft
  <1>3. code # <<>>
    BY <1>1, EmptySeq
  <1>4. /\ numTasks' = d + 1 /\ numTasks' <= MaxTasks
        /\ made' \in Seq(Nat) /\ Len(made') = numTasks'
        /\ \A l \in 1 .. numTasks' : made'[l] = b[l].node
        /\ numTasks = d /\ numTasks \in TaskId
        /\ rev_edges[numTasks] = <<>>
        /\ UNCHANGED rev_edges
    BY <1>1, <1>3, CommitStep
  <1>5. /\ StatementsRun(b)' = d + 1
        /\ code' \in Seq(Statement) /\ code' # <<>> /\ Len(code') <= Len(b)
        /\ \A j \in DOMAIN code' : code'[j] = b[StatementsRun(b)' + j]
        /\ VarsBound(b)'
    BY <1>1, <1>3, <1>4, BindStep DEF Running
  <1>6. d \in Nat /\ b[d + 1].moves = <<>>
    BY <1>1, <1>3, StatementNext DEF Running
  <1>7. CodeLeft(b)'
    BY <1>1, <1>5 DEF CodeLeft, GraphPcs
  <1>8. TasksMade(b)'
    BY <1>1, <1>4, <1>5 DEF TasksMade
  <1>9. TasksWired(b)'
    <2>1. /\ rev_edges \in [TaskId -> Seq(Nat)]
          /\ \A l \in 1 .. d : WiredTo(b, rev_edges[l - 1], b[l].moves)
          /\ \A t \in TaskId : t >= numTasks => rev_edges[t] = <<>>
      BY DEF Running, TasksWired
    <2>2. WiredTo(b, rev_edges[(d + 1) - 1], b[d + 1].moves)
      BY <1>4, <1>6, NothingWired
    <2>3. \A l \in 1 .. d + 1 : WiredTo(b, rev_edges[l - 1], b[l].moves)
      BY <2>1, <2>2, <1>6
    <2>4. \A t \in TaskId : t >= numTasks' => t >= numTasks
      BY <1>4, <1>6 DEF TaskId
    <2>5. pc' = "idle" /\ rev_edges' = rev_edges /\ StatementsRun(b)' = d + 1
      BY <1>1, <1>4, <1>5
    <2>6. \A l \in 1 .. StatementsRun(b)' : WiredTo(b, rev_edges'[l - 1], b[l].moves)
      BY <2>3, <2>5
    <2> QED
      BY <2>1, <2>4, <2>5, <2>6 DEF TasksWired
  <1>10. SinkTaken(b)'
    BY <1>1, <1>3, <1>5 DEF Running, SinkTaken
  <1> QED
    BY <1>5, <1>7, <1>8, <1>9, <1>10 DEF Running

\* The statements already run stay wired when only the builder's task is touched.
LEMMA OtherRowsWired ==
  ASSUME NEW b, Called(b), Running(b), numTasks = StatementsRun(b) + 1,
         StatementsRun(b) \in Nat, StatementsRun(b)' = StatementsRun(b),
         numTasks' = numTasks, rev_edges' \in [TaskId -> Seq(Nat)],
         \A t \in TaskId : t # StatementsRun(b) => rev_edges'[t] = rev_edges[t]
  PROVE  /\ \A l \in 1 .. StatementsRun(b)' : WiredTo(b, rev_edges'[l - 1], b[l].moves)
         /\ \A t \in TaskId : t >= numTasks' => rev_edges'[t] = <<>>
  <1> DEFINE d == StatementsRun(b)
  <1>1. /\ \A l \in 1 .. d : WiredTo(b, rev_edges[l - 1], b[l].moves)
        /\ \A t \in TaskId : t >= numTasks => rev_edges[t] = <<>>
        /\ numTasks <= MaxTasks
    BY DEF Running, TasksWired, TasksMade
  <1>2. \A l \in 1 .. d : l - 1 \in TaskId /\ l - 1 # d
    BY <1>1, BoundsAssumption DEF TaskId
  <1>3. \A l \in 1 .. d : WiredTo(b, rev_edges'[l - 1], b[l].moves)
    BY <1>1, <1>2
  <1>4. \A t \in TaskId : t >= numTasks => t # d
    BY DEF TaskId
  <1> QED
    BY <1>1, <1>3, <1>4

\* The builder is in use: its task is that of the next statement.
LEMMA BuilderRuns ==
  ASSUME NEW b, Called(b), Running(b), pc # "idle"
  PROVE  /\ Len(code) > 1 /\ code # <<>> /\ code \in Seq(Statement)
         /\ StatementsRun(b) \in Nat /\ StatementsRun(b) + 1 \in 1 .. Len(b) - 1
         /\ StatementsRun(b) + 1 \in 1 .. Len(b)
         /\ Head(code) = b[StatementsRun(b) + 1]
         /\ numTasks = StatementsRun(b) + 1
         /\ StatementsRun(b) \in TaskId
         /\ builder \in [id : {StatementsRun(b)}, todo : Seq(Nat)]
         /\ builder.id = StatementsRun(b)
         /\ rev_edges \in [TaskId -> Seq(Nat)]
  <1>1. Len(code) > 1 /\ code \in Seq(Statement)
    BY DEF Running, CodeLeft
  <1>2. code # <<>>
    BY <1>1, EmptySeq
  <1>3. /\ StatementsRun(b) \in Nat /\ StatementsRun(b) + 1 \in 1 .. Len(b) - 1
        /\ StatementsRun(b) + 1 \in 1 .. Len(b)
        /\ Head(code) = b[StatementsRun(b) + 1]
    BY <1>1, <1>2, StatementNext DEF Running
  <1>4. numTasks = StatementsRun(b) + 1 /\ numTasks <= MaxTasks
    BY DEF Running, TasksMade
  <1>5. StatementsRun(b) \in TaskId
    BY <1>3, <1>4, BoundsAssumption DEF TaskId
  <1>6. builder \in [id : {StatementsRun(b)}, todo : Seq(Nat)] /\ rev_edges \in [TaskId -> Seq(Nat)]
    BY DEF Running, TasksWired
  <1> QED
    BY <1>1, <1>2, <1>3, <1>4, <1>5, <1>6

LEMMA CommitRun ==
  ASSUME NEW b, Called(b), Running(b), RunCommit
  PROVE  Running(b)'
  <1> DEFINE d == StatementsRun(b)
  <1>1. /\ Len(code) > 1 /\ pc = "idle" /\ PushTask(TaskOf(Len(Head(code).moves)))
        /\ made' = Append(made, Head(code).node)
        /\ pc' = "building" /\ builder' = [id |-> numTasks, todo |-> <<>>]
        /\ UNCHANGED <<code, env, sink_id>>
    BY DEF RunCommit, commit_task
  <1>2. code \in Seq(Statement)
    BY DEF Running, CodeLeft
  <1>3. code # <<>>
    BY <1>1, EmptySeq
  <1>4. /\ numTasks' = d + 1 /\ numTasks' <= MaxTasks
        /\ made' \in Seq(Nat) /\ Len(made') = numTasks'
        /\ \A l \in 1 .. numTasks' : made'[l] = b[l].node
        /\ numTasks = d /\ numTasks \in TaskId
        /\ rev_edges[numTasks] = <<>>
        /\ UNCHANGED rev_edges
    BY <1>1, <1>3, CommitStep
  <1>5. StatementsRun(b)' = d /\ d \in Nat
    BY <1>1, <1>3, StatementNext DEF StatementsRun, Running
  <1>6. CodeLeft(b)' /\ VarsBound(b)' /\ SinkTaken(b)'
    <2>1. CodeLeft(b)'
      BY <1>1, <1>5 DEF Running, CodeLeft, GraphPcs
    <2>2. VarsBound(b)' /\ SinkTaken(b)'
      BY <1>1, <1>5 DEF Running, VarsBound, SinkTaken
    <2> QED
      BY <2>1, <2>2
  <1>7. TasksMade(b)'
    BY <1>1, <1>4, <1>5 DEF TasksMade
  <1>8. TasksWired(b)'
    <2>1. /\ rev_edges \in [TaskId -> Seq(Nat)]
          /\ \A l \in 1 .. d : WiredTo(b, rev_edges[l - 1], b[l].moves)
          /\ \A t \in TaskId : t >= numTasks => rev_edges[t] = <<>>
      BY DEF Running, TasksWired
    <2>2. \A t \in TaskId : t >= numTasks' => t >= numTasks
      BY <1>4, <1>5 DEF TaskId
    <2>3. builder' \in [id : {d}, todo : Seq(Nat)] /\ builder'.id = d
      BY <1>1, <1>4, EmptySeq
    <2>4. rev_edges'[builder'.id] = <<>>
      BY <1>4, <2>3
    <2> QED
      BY <1>1, <1>4, <1>5, <2>1, <2>2, <2>3, <2>4 DEF TasksWired
  <1> QED
    BY <1>6, <1>7, <1>8 DEF Running

LEMMA DependenciesRun ==
  ASSUME NEW b, Called(b), Running(b), RunDependencies
  PROVE  Running(b)'
  <1> DEFINE d == StatementsRun(b)
             moves == b[d + 1].moves
             ids == [k \in DOMAIN moves |-> env[moves[k]]]
  <1>1. /\ pc = "building" /\ pc' = "wiring"
        /\ \E deps : builder' = [builder EXCEPT !.todo = deps]
        /\ builder'.todo = [k \in DOMAIN Head(code).moves |-> env[Head(code).moves[k]]]
        /\ UNCHANGED <<code, env, made, sink_id, numTasks, rev_edges>>
    <2>1. \E deps \in [DOMAIN sig[builder.id].ins -> Wrappers] :
            builder' = [builder EXCEPT !.todo = IdsOf(deps)]
      BY DEF RunDependencies, with_dependencies
    <2> QED
      BY <2>1 DEF RunDependencies, with_dependencies
  <1>2. /\ code # <<>> /\ d \in Nat /\ d + 1 \in 1 .. Len(b) /\ d + 1 \in 1 .. Len(b) - 1
        /\ Head(code) = b[d + 1] /\ numTasks = d + 1 /\ d \in TaskId
        /\ builder \in [id : {d}, todo : Seq(Nat)] /\ builder.id = d
        /\ rev_edges \in [TaskId -> Seq(Nat)]
    BY <1>1, BuilderRuns
  <1>3. moves \in Seq(Vars)
    BY <1>2, CalledShape DEF Statement
  <1>4. builder'.todo = ids
    BY <1>1, <1>2
  <1>5. \A k \in DOMAIN moves : env[moves[k]] \in Nat /\ env[moves[k]] + 1 \in 1 .. Len(b) - 1
                                /\ b[env[moves[k]] + 1].binds = moves[k]
    BY <1>2, MentionedBound DEF Running
  <1>6. ids \in Seq(Nat) /\ DOMAIN ids = DOMAIN moves /\ \A k \in DOMAIN ids : ids[k] = env[moves[k]]
    <2>1. Len(moves) \in Nat /\ DOMAIN moves = 1 .. Len(moves)
      BY <1>3, LenProperties
    <2> HIDE DEF moves
    <2>2. ids \in [1 .. Len(moves) -> Nat]
      BY <1>5, <2>1
    <2>3. ids \in Seq(Nat)
      BY <2>1, <2>2, SeqDef
    <2> QED
      BY <2>3
  <1>7. WiredTo(b, ids, moves)
    <2> HIDE DEF moves, ids
    <2> QED
      BY <1>5, <1>6 DEF WiredTo
  <1>8. builder' \in [id : {d}, todo : Seq(Nat)] /\ builder'.id = d
    <2>1. PICK deps : builder' = [builder EXCEPT !.todo = deps]
      BY <1>1
    <2>2. builder' = [id |-> d, todo |-> deps]
      BY <1>2, <2>1
    <2>3. deps \in Seq(Nat)
      BY <1>4, <1>6, <2>2
    <2> QED
      BY <2>2, <2>3
  <1> HIDE DEF ids
  <1>9. StatementsRun(b)' = d
    BY <1>1, <1>2 DEF StatementsRun
  <1>10. CodeLeft(b)' /\ VarsBound(b)' /\ SinkTaken(b)' /\ TasksMade(b)'
    <2>1. CodeLeft(b)'
      BY <1>1, <1>9 DEF Running, CodeLeft, GraphPcs
    <2>2. VarsBound(b)' /\ SinkTaken(b)'
      BY <1>1, <1>9 DEF Running, VarsBound, SinkTaken
    <2>3. TasksMade(b)'
      BY <1>1, <1>9 DEF Running, TasksMade
    <2> QED
      BY <2>1, <2>2, <2>3
  <1>11. TasksWired(b)'
    <2>1. rev_edges[d] = <<>>
      BY <1>1, <1>2 DEF Running, TasksWired
    <2>2. rev_edges'[builder'.id] \o builder'.todo = ids
      <3>1. <<>> \o ids = ids
        BY <1>6, ConcatEmptySeq
      <3>2. rev_edges'[builder'.id] = <<>> /\ builder'.todo = ids
        BY <1>1, <1>4, <1>8, <2>1
      <3> QED
        BY <3>1, <3>2
    <2>3. /\ \A l \in 1 .. StatementsRun(b)' : WiredTo(b, rev_edges'[l - 1], b[l].moves)
          /\ \A t \in TaskId : t >= numTasks' => rev_edges'[t] = <<>>
      BY <1>1, <1>2, <1>9, OtherRowsWired
    <2>4. rev_edges' \in [TaskId -> Seq(Nat)]
      BY <1>1, <1>2
    <2>5. WiredTo(b, rev_edges'[builder'.id] \o builder'.todo, b[builder'.id + 1].moves)
      BY <1>7, <1>8, <2>2
    <2> HIDE DEF d, moves
    <2> QED
      BY <1>1, <1>8, <1>9, <2>3, <2>4, <2>5 DEF TasksWired
  <1> QED
    BY <1>10, <1>11 DEF Running

\* What is registered next goes from the ids to do to those done.
LEMMA RegisterMoves ==
  ASSUME NEW done \in Seq(Nat), NEW todo \in Seq(Nat), todo # <<>>
  PROVE  /\ Append(done, Head(todo)) \o Tail(todo) = done \o todo
         /\ Append(done, Head(todo)) \in Seq(Nat) /\ Tail(todo) \in Seq(Nat)
         /\ Head(todo) \in Nat
  <1> DEFINE n == Len(done)
             m == Len(todo)
             l == Append(done, Head(todo))
             r == Tail(todo)
  <1>1. /\ n \in Nat /\ m \in Nat /\ m # 0
        /\ Head(todo) = todo[1] /\ Head(todo) \in Nat
        /\ r \in Seq(Nat) /\ Len(r) = m - 1
        /\ \A i \in 1 .. m - 1 : r[i] = todo[i + 1]
    BY HeadTailProperties, LenProperties, EmptySeq
  <1>2. /\ l \in Seq(Nat) /\ Len(l) = n + 1
        /\ \A i \in 1 .. n : l[i] = done[i]
        /\ l[n + 1] = todo[1]
    BY <1>1, AppendProperties
  <1> DEFINE was == done \o todo
             is == l \o r
  <1>3. /\ is \in Seq(Nat) /\ Len(is) = Len(l) + Len(r)
        /\ \A i \in 1 .. Len(l) + Len(r) : is[i] = IF i <= Len(l) THEN l[i] ELSE r[i - Len(l)]
    <2> HIDE DEF l, r
    <2> QED
      BY <1>1, <1>2, ConcatProperties
  <1>4. /\ was \in Seq(Nat) /\ Len(was) = n + m
        /\ \A i \in 1 .. n + m : was[i] = IF i <= n THEN done[i] ELSE todo[i - n]
    BY ConcatProperties
  <1> HIDE DEF n, m, l, r, was, is
  <1>5. Len(is) = n + m /\ Len(l) + Len(r) = n + m
    BY <1>1, <1>2, <1>3
  <1>6. ASSUME NEW i \in 1 .. n + m
        PROVE  is[i] = was[i]
    <2>1. is[i] = IF i <= n + 1 THEN l[i] ELSE r[i - (n + 1)]
      BY <1>2, <1>3, <1>5
    <2>2. was[i] = IF i <= n THEN done[i] ELSE todo[i - n]
      BY <1>4
    <2>3. CASE i <= n
      <3>1. i \in 1 .. n /\ i <= n + 1
        BY <1>1, <2>3
      <3> QED
        BY <2>1, <2>2, <2>3, <3>1, <1>2
    <2>4. CASE i = n + 1
      <3>1. i - n = 1 /\ ~(i <= n) /\ i <= n + 1
        BY <1>1, <2>4
      <3> QED
        BY <3>1, <2>1, <2>2, <1>2, <2>4
    <2>5. CASE i > n + 1
      <3>1. /\ i - (n + 1) \in 1 .. m - 1 /\ (i - (n + 1)) + 1 = i - n
            /\ ~(i <= n + 1) /\ ~(i <= n)
        BY <1>1, <2>5
      <3>2. r[i - (n + 1)] = todo[(i - (n + 1)) + 1]
        BY <3>1, <1>1
      <3> QED
        BY <3>1, <3>2, <2>1, <2>2
    <2> QED
      BY <1>1, <2>3, <2>4, <2>5
  <1>7. is = was
    BY <1>3, <1>4, <1>5, <1>6, SeqEqual
  <1> QED
    BY <1>1, <1>2, <1>7 DEF l, r, was, is

LEMMA RegisterRun ==
  ASSUME NEW b, Called(b), Running(b), RunRegister
  PROVE  Running(b)'
  <1> DEFINE d == StatementsRun(b)
             todo == builder.todo
  <1>1. /\ pc = "wiring" /\ todo # <<>>
        /\ rev_edges' = [rev_edges EXCEPT ![builder.id] = Append(@, Head(todo))]
        /\ builder' = [builder EXCEPT !.todo = Tail(@)]
        /\ pc' \in {"panicked", "wiring"}
        /\ UNCHANGED <<code, env, made, sink_id, numTasks>>
    BY DEF RunRegister, WireOne, add_edges
  <1>2. /\ code # <<>> /\ d \in Nat /\ numTasks = d + 1 /\ d \in TaskId
        /\ builder \in [id : {d}, todo : Seq(Nat)] /\ builder.id = d
        /\ rev_edges \in [TaskId -> Seq(Nat)]
    BY <1>1, BuilderRuns
  <1>3. todo \in Seq(Nat) /\ rev_edges[d] \in Seq(Nat)
    BY <1>2
  <1>4. /\ Append(rev_edges[d], Head(todo)) \o Tail(todo) = rev_edges[d] \o todo
        /\ Append(rev_edges[d], Head(todo)) \in Seq(Nat) /\ Tail(todo) \in Seq(Nat)
    BY <1>1, <1>3, RegisterMoves
  <1>5. /\ rev_edges' \in [TaskId -> Seq(Nat)]
        /\ rev_edges'[d] = Append(rev_edges[d], Head(todo))
        /\ \A t \in TaskId : t # d => rev_edges'[t] = rev_edges[t]
    BY <1>1, <1>2, <1>4
  <1>6. builder' \in [id : {d}, todo : Seq(Nat)] /\ builder'.id = d /\ builder'.todo = Tail(todo)
    BY <1>1, <1>2, <1>4
  <1> HIDE DEF todo
  <1>7. StatementsRun(b)' = d
    BY <1>1, <1>2 DEF StatementsRun
  <1>8. CodeLeft(b)' /\ VarsBound(b)' /\ SinkTaken(b)' /\ TasksMade(b)'
    <2>1. CodeLeft(b)'
      BY <1>1, <1>7 DEF Running, CodeLeft, GraphPcs
    <2>2. VarsBound(b)' /\ SinkTaken(b)'
      BY <1>1, <1>7 DEF Running, VarsBound, SinkTaken
    <2>3. TasksMade(b)'
      BY <1>1, <1>7 DEF Running, TasksMade
    <2> QED
      BY <2>1, <2>2, <2>3
  <1>9. TasksWired(b)'
    <2>1. WiredTo(b, rev_edges[d] \o todo, b[d + 1].moves)
      BY <1>1, <1>2 DEF Running, TasksWired, todo
    <2>2. /\ \A l \in 1 .. StatementsRun(b)' : WiredTo(b, rev_edges'[l - 1], b[l].moves)
          /\ \A t \in TaskId : t >= numTasks' => rev_edges'[t] = <<>>
      BY <1>1, <1>2, <1>5, <1>7, OtherRowsWired
    <2>3. WiredTo(b, rev_edges'[builder'.id] \o builder'.todo, b[builder'.id + 1].moves)
      BY <1>4, <1>5, <1>6, <2>1
    <2> HIDE DEF d
    <2> QED
      BY <1>1, <1>5, <1>6, <1>7, <2>2, <2>3 DEF TasksWired
  <1> QED
    BY <1>8, <1>9 DEF Running

LEMMA BindRun ==
  ASSUME NEW b, Called(b), Running(b), RunBind
  PROVE  Running(b)'
  <1> DEFINE d == StatementsRun(b)
  <1>1. /\ pc = "wiring" /\ builder.todo = <<>> /\ pc' = "idle" /\ BindTo(builder.id)
        /\ UNCHANGED <<made, sink_id, numTasks, rev_edges>>
    BY DEF RunBind, WiringDone
  <1>2. /\ code # <<>> /\ d \in Nat /\ numTasks = d + 1 /\ d \in TaskId /\ Len(code) > 1
        /\ builder.id = d /\ rev_edges \in [TaskId -> Seq(Nat)]
    BY <1>1, BuilderRuns
  <1>3. /\ StatementsRun(b)' = d + 1
        /\ code' \in Seq(Statement) /\ code' # <<>> /\ Len(code') <= Len(b)
        /\ \A j \in DOMAIN code' : code'[j] = b[StatementsRun(b)' + j]
        /\ VarsBound(b)'
    BY <1>1, <1>2, BindStep DEF Running
  <1>4. CodeLeft(b)'
    BY <1>1, <1>3 DEF CodeLeft, GraphPcs
  <1>5. TasksMade(b)'
    <2>1. /\ numTasks <= MaxTasks /\ made \in Seq(Nat) /\ Len(made) = numTasks
          /\ \A l \in 1 .. numTasks : made[l] = b[l].node
      BY DEF Running, TasksMade
    <2> QED
      BY <1>1, <1>2, <1>3, <2>1 DEF TasksMade
  <1>6. TasksWired(b)'
    <2>1. /\ \A l \in 1 .. d : WiredTo(b, rev_edges[l - 1], b[l].moves)
          /\ \A t \in TaskId : t >= numTasks => rev_edges[t] = <<>>
          /\ WiredTo(b, rev_edges[d] \o builder.todo, b[d + 1].moves)
      BY <1>1, <1>2 DEF Running, TasksWired
    <2>2. rev_edges[d] \o builder.todo = rev_edges[d]
      BY <1>1, <1>2, ConcatEmptySeq
    <2>3. (d + 1) - 1 = d
      BY <1>2
    <2>4. \A l \in 1 .. d + 1 : WiredTo(b, rev_edges[l - 1], b[l].moves)
      BY <1>2, <2>1, <2>2, <2>3
    <2>5. \A l \in 1 .. StatementsRun(b)' : WiredTo(b, rev_edges'[l - 1], b[l].moves)
      BY <1>1, <1>3, <2>4
    <2>6. \A t \in TaskId : t >= numTasks' => rev_edges'[t] = <<>>
      BY <1>1, <2>1
    <2>7. rev_edges' \in [TaskId -> Seq(Nat)] /\ pc' = "idle"
      BY <1>1, <1>2
    <2> QED
      BY <2>5, <2>6, <2>7 DEF TasksWired
  <1>7. SinkTaken(b)'
    BY <1>1, <1>2, <1>3 DEF Running, SinkTaken
  <1> QED
    BY <1>3, <1>4, <1>5, <1>6, <1>7 DEF Running

LEMMA TailRun ==
  ASSUME NEW b, Called(b), Running(b), RunTail
  PROVE  Running(b)'
  <1> DEFINE d == StatementsRun(b)
  <1>1. /\ pc = "idle" /\ Len(code) = 1 /\ code' = <<>>
        /\ sink_id' = <<env[Head(code).moves[1]]>>
        /\ UNCHANGED <<pc, env, made, numTasks, rev_edges, builder>>
    BY DEF RunTail, graphVars
  <1>2. code # <<>>
    <2>1. code = <<>> => Len(code) = 0
      OBVIOUS
    <2> QED
      BY <1>1, <2>1
  <1>3. /\ d \in Nat /\ d + 1 = Len(b) /\ d + 1 \in 1 .. Len(b) /\ Head(code) = b[d + 1]
        /\ Len(b) \in Nat
    BY <1>1, <1>2, StatementNext, CalledShape DEF Running
  <1>4. StatementsRun(b)' = d
    <2>1. StatementsRun(b)' = Len(b) - 1
      BY <1>1 DEF StatementsRun
    <2> QED
      BY <2>1, <1>3
  <1>5. PICK v : b[d + 1].moves = <<v>>
    BY <1>3, CalledShape
  <1>6. 1 \in DOMAIN b[d + 1].moves /\ b[d + 1].moves[1] = v
    BY <1>5
  <1>7. env[v] + 1 \in 1 .. Len(b) - 1 /\ b[env[v] + 1].binds = v
    BY <1>3, <1>6, MentionedBound DEF Running
  <1>8. SinkTaken(b)'
    <2>1. sink_id' = <<env[v]>> /\ b[Len(b)].moves[1] = v
      BY <1>1, <1>3, <1>6
    <2>2. sink_id' # <<>> /\ sink_id'[1] = env[v]
      BY <2>1
    <2> QED
      BY <1>1, <1>7, <2>1, <2>2 DEF SinkTaken
  <1>9. CodeLeft(b)'
    <2>1. Len(b) >= 2
      BY CalledShape
    <2> QED
      BY <1>1, <1>3, <2>1, EmptySeq DEF CodeLeft, GraphPcs
  <1>10. TasksMade(b)' /\ VarsBound(b)' /\ TasksWired(b)'
    <2>1. TasksMade(b)'
      BY <1>1, <1>4 DEF Running, TasksMade
    <2>2. VarsBound(b)'
      BY <1>1, <1>4 DEF Running, VarsBound
    <2>3. TasksWired(b)'
      BY <1>1, <1>4 DEF Running, TasksWired
    <2> QED
      BY <2>1, <2>2, <2>3
  <1> QED
    BY <1>8, <1>9, <1>10 DEF Running

-----------------------------------------------------------------------------
(***************************************************************************)
(* The call by path, and the steps of both programs together.              *)
(***************************************************************************)

LEMMA CodegenStep ==
  ASSUME CodegenInv, [Next]_vars
  PROVE  CodegenInv'
  BY TypesStep, ProgressStep, CheckedStep, SortInvStep, BodyStep DEF CodegenInv

\* The first arm that matches calls what was rendered of the first such path.
LEMMA FirstArmFinds ==
  ASSUME CodegenInv, FilesInv, step = "done", NEW entry, Arms(entry) # {}
  PROVE  /\ FirstArm(entry) \in Arms(entry)
         /\ \A j \in Arms(entry) : FirstArm(entry) <= j
         /\ FirstArm(entry) \in Nat
         /\ \A f \in Funcs : LET b == rendered[f][FirstArm(entry)]
                             IN  Called(b) /\ Renders(b, disk[paths[FirstArm(entry)]])
  <1> DEFINE i == FirstArm(entry)
  <1>1. paths \in Seq(Paths) /\ Len(paths) \in Nat /\ DOMAIN paths = 1 .. Len(paths)
    BY PathsTyped, LenProperties
  <1>2. Arms(entry) \in SUBSET Nat /\ Arms(entry) \subseteq DOMAIN paths
    BY <1>1 DEF Arms
  <1>3. \E k \in Arms(entry) : \A j \in Arms(entry) : k <= j
    BY <1>2, LeastNatural
  <1>4. i \in Arms(entry) /\ \A j \in Arms(entry) : i <= j
    BY <1>3 DEF FirstArm
  <1>5. ASSUME NEW f \in Funcs
        PROVE  i \in DOMAIN rendered[f]
    <2>1. Len(rendered[f]) = Len(paths)
      BY DEF CodegenInv, ProgressInv, Flows, Funcs
    <2>2. rendered[f] \in Seq(Seq(Statement))
      BY DEF CodegenInv, CodegenTypeOK
    <2>3. DOMAIN rendered[f] = 1 .. Len(rendered[f])
      BY <2>2, LenProperties
    <2> QED
      BY <2>1, <2>3, <1>1, <1>2, <1>4
  <1>6. ASSUME NEW f \in Funcs
        PROVE  Called(rendered[f][i]) /\ Renders(rendered[f][i], disk[paths[i]])
    <2>1. Resolves(rendered[f][i])
      BY <1>5 DEF CodegenInv, BodyInv, FinishedResolve
    <2>2. Renders(rendered[f][i], disk[paths[i]])
      BY <1>5 DEF FilesInv
    <2> QED
      BY <2>1, <2>2 DEF Called
  <1> QED
    BY <1>2, <1>4, <1>6

\* Nothing was run yet when the function is entered.
LEMMA CallRuns ==
  ASSUME GenInv, NEW f \in Funcs, NEW entry \in Entries, CallByPath(f, entry)
  PROVE  RunInv'
  <1>1. /\ step = "done" /\ asked = <<>> /\ asked' = <<entry>>
        /\ code' = IF Arms(entry) = {} THEN <<>> ELSE rendered[f][FirstArm(entry)]
        /\ UNCHANGED <<step, paths, rendered, pc, numTasks, rev_edges, made, sink_id>>
    BY DEF CallByPath, vars, graphVars
  <1>2. /\ pc = "idle" /\ numTasks = 0 /\ made = <<>> /\ sink_id = <<>>
        /\ rev_edges = [t \in TaskId |-> <<>>]
    BY <1>1 DEF GenInv, RunInv
  <1>3. asked' # <<>> /\ asked'[1] = entry
    BY <1>1
  <1>4. Arms(asked[1])' = Arms(entry) /\ FirstArm(asked[1])' = FirstArm(entry)
    BY <1>1, <1>3 DEF Arms, FirstArm
  <1>5. CASE Arms(entry) = {}
    BY <1>1, <1>2, <1>3, <1>4, <1>5 DEF RunInv
  <1>6. CASE Arms(entry) # {}
    <2>1. PICK b : b = rendered[f][FirstArm(entry)]
      OBVIOUS
    <2>2. Called(b)
      BY <1>1, <1>6, <2>1, FirstArmFinds DEF GenInv
    <2>3. /\ b \in Seq(Statement) /\ Len(b) \in Nat /\ Len(b) >= 2 /\ DOMAIN b = 1 .. Len(b)
      BY <2>2, CalledShape
    <2>4. code' = b /\ b # <<>>
      BY <1>1, <1>6, <2>1, <2>3, EmptySeq
    <2>5. StatementsRun(b)' = 0
      BY <2>3, <2>4 DEF StatementsRun
    <2>6. CodeLeft(b)'
      <3>1. \A j \in DOMAIN b : 0 + j = j
        BY <2>3
      <3> QED
        BY <1>1, <1>2, <2>3, <2>4, <2>5, <3>1 DEF CodeLeft, GraphPcs
    <2>7. TasksMade(b)'
      BY <1>1, <1>2, <2>5, BoundsAssumption, EmptySeq DEF TasksMade
    <2>8. VarsBound(b)'
      BY <2>5 DEF VarsBound
    <2>9. TasksWired(b)'
      <3>1. rev_edges' \in [TaskId -> Seq(Nat)]
        BY <1>1, <1>2, EmptySeq
      <3> QED
        BY <1>1, <1>2, <2>5, <3>1 DEF TasksWired
    <2>10. SinkTaken(b)'
      BY <1>1, <1>2, <2>4 DEF SinkTaken
    <2>11. Running(b)'
      BY <2>6, <2>7, <2>8, <2>9, <2>10 DEF Running
    <2>12. Running(rendered[f][FirstArm(asked[1])])'
      BY <1>1, <1>4, <2>1, <2>11
    <2> QED
      BY <1>1, <1>3, <1>4, <1>6, <2>12 DEF RunInv
  <1> QED
    BY <1>5, <1>6

StatementStep ==
  RunSource \/ RunCommit \/ RunDependencies \/ RunRegister \/ RunBind \/ RunTail

LEMMA StatementKeeps ==
  ASSUME GenInv, StatementStep
  PROVE  RunInv'
  <1>1. UNCHANGED <<step, paths, rendered, asked>>
    BY DEF StatementStep, RunSource, RunCommit, RunDependencies, RunRegister, RunBind,
           RunTail, vars
  <1>2. ~(pc = "idle" /\ code = <<>>)
    <2>1. code = <<>> => Len(code) = 0
      OBVIOUS
    <2> QED
      BY <2>1 DEF StatementStep, RunSource, RunCommit, RunDependencies, RunRegister, RunBind,
           RunTail, with_dependencies, WireOne, WiringDone
  <1>3. asked # <<>> /\ step = "done" /\ Arms(asked[1]) # {}
    BY <1>2 DEF GenInv, RunInv
  <1>4. PICK f \in Funcs : Running(rendered[f][FirstArm(asked[1])])
    BY <1>3 DEF GenInv, RunInv
  <1>5. PICK b : b = rendered[f][FirstArm(asked[1])]
    OBVIOUS
  <1>6. Called(b) /\ Running(b)
    BY <1>3, <1>4, <1>5, FirstArmFinds DEF GenInv
  <1>7. Running(b)'
    BY <1>6, SourceRun, CommitRun, DependenciesRun, RegisterRun, BindRun, TailRun
       DEF StatementStep
  <1>8. Arms(asked[1])' = Arms(asked[1]) /\ FirstArm(asked[1])' = FirstArm(asked[1])
    BY <1>1 DEF Arms, FirstArm
  <1>9. Running(rendered[f][FirstArm(asked[1])])'
    BY <1>1, <1>5, <1>7, <1>8
  <1> QED
    BY <1>1, <1>3, <1>8, <1>9 DEF RunInv

\* The generator and the code it generated never run at the same time.
LEMMA GeneratorKeeps ==
  ASSUME GenInv, Next, UNCHANGED flowVars
  PROVE  RunInv'
  <1>1. step # "done"
    BY DEF Next, ReadIndex, ReadFlow, CheckNodes, NameOutputs, Connect, SortStep, SortDone,
           EmitNode, EmitEnd, WriteFile
  <1>2. /\ asked = <<>> /\ pc = "idle" /\ numTasks = 0 /\ code = <<>> /\ made = <<>>
        /\ sink_id = <<>> /\ rev_edges = [t \in TaskId |-> <<>>]
    BY <1>1 DEF GenInv, RunInv
  <1>3. UNCHANGED <<asked, pc, numTasks, code, made, sink_id, rev_edges>>
    BY DEF flowVars, graphVars
  <1> QED
    BY <1>2, <1>3 DEF RunInv

\* The files that were rendered are the state of the generator alone.
LEMMA SameFiles ==
  ASSUME FilesInv, UNCHANGED vars
  PROVE  FilesInv'
  <1>1. UNCHANGED <<step, paths, disk, nodes, rendered>>
    BY DEF vars
  <1> QED
    BY <1>1 DEF FilesInv, Flows

LEMMA GenStart == GenInit => GenInv
  <1> SUFFICES ASSUME GenInit
               PROVE  GenInv
    OBVIOUS
  <1>1. CodegenInv
    BY CodegenStart DEF GenInit
  <1>2. FilesInv
    <2>1. step = "index" /\ \A f \in Funcs : rendered[f] = <<>>
      BY DEF GenInit, Init
    <2> QED
      BY <2>1 DEF FilesInv, FlowSteps
  <1>3. RunInv
    BY DEF GenInit, GraphInit, RunInv
  <1> QED
    BY <1>1, <1>2, <1>3 DEF GenInv

LEMMA GenStep ==
  ASSUME GenInv, [GenNext]_genVars
  PROVE  GenInv'
  <1>1. CASE Next /\ UNCHANGED flowVars
    BY <1>1, CodegenStep, FilesStep, GeneratorKeeps DEF GenInv
  <1>2. CASE UNCHANGED vars
    <2>1. CodegenInv' /\ FilesInv'
      BY <1>2, CodegenStep, SameFiles DEF GenInv
    <2>2. CASE StatementStep
      BY <2>1, <2>2, StatementKeeps DEF GenInv
    <2>3. CASE \E f \in Funcs, entry \in Entries : CallByPath(f, entry)
      BY <2>1, <2>3, CallRuns DEF GenInv
    <2>4. CASE UNCHANGED genVars
      <3>1. UNCHANGED <<step, paths, rendered, asked, pc, numTasks, code, made, sink_id,
                        rev_edges, env, builder>>
        BY <2>4 DEF genVars, flowVars, vars, graphVars
      <3>2. Arms(asked[1])' = Arms(asked[1]) /\ FirstArm(asked[1])' = FirstArm(asked[1])
        BY <3>1 DEF Arms, FirstArm
      <3>3. \A b : Running(b)' <=> Running(b)
        BY <3>1 DEF Running, CodeLeft, TasksMade, VarsBound, TasksWired, SinkTaken, StatementsRun
      <3>4. RunInv'
        BY <3>1, <3>2, <3>3 DEF GenInv, RunInv
      <3> QED
        BY <2>1, <3>4 DEF GenInv
    <2>5. CASE Next /\ UNCHANGED flowVars
      BY <1>1, <2>5
    <2> QED
      BY <2>2, <2>3, <2>4, <2>5 DEF GenNext, StatementStep
  <1>3. UNCHANGED vars \/ (Next /\ UNCHANGED flowVars)
    <2>1. StatementStep => UNCHANGED vars
      BY DEF StatementStep, RunSource, RunCommit, RunDependencies, RunRegister, RunBind, RunTail
    <2>2. (\E f \in Funcs, entry \in Entries : CallByPath(f, entry)) => UNCHANGED vars
      BY DEF CallByPath
    <2>3. UNCHANGED genVars => UNCHANGED vars
      BY DEF genVars
    <2> QED
      BY <2>1, <2>2, <2>3 DEF GenNext, StatementStep
  <1> QED
    BY <1>1, <1>2, <1>3

\* Running the generated code leaves the generator alone: what is proved of
\* Spec holds of both programs together.
LEMMA GeneratorUndisturbed == GenSpec => Spec
  <1>1. GenInit => Init
    BY DEF GenInit
  <1>2. [GenNext]_genVars => [Next]_vars
    <2>1. StatementStep => UNCHANGED vars
      BY DEF StatementStep, RunSource, RunCommit, RunDependencies, RunRegister, RunBind, RunTail
    <2>2. (\E f \in Funcs, entry \in Entries : CallByPath(f, entry)) => UNCHANGED vars
      BY DEF CallByPath
    <2>3. UNCHANGED genVars => UNCHANGED vars
      BY DEF genVars
    <2> QED
      BY <2>1, <2>2, <2>3 DEF GenNext, StatementStep
  <1> QED
    BY <1>1, <1>2, PTL DEF GenSpec, Spec

\* The tasks of a function that was run to its end are the nodes of its file.
LEMMA OneTaskEach ==
  ASSUME NEW b, NEW file, Renders(b, file), Running(b), code = <<>>
  PROVE  /\ numTasks = Len(file) /\ Len(file) \in Nat /\ DOMAIN file = 1 .. Len(file)
         /\ pc = "idle" /\ StatementsRun(b) = Len(file)
         /\ \A l \in 1 .. Len(file) : made[l] = b[l].node
         /\ made \in Bijection(1 .. numTasks, DOMAIN file)
  <1> DEFINE n == Len(file)
  <1>1. n \in Nat /\ DOMAIN file = 1 .. n /\ Len(b) = n + 1
    BY LenProperties DEF Renders, FileShape
  <1>2. StatementsRun(b) = n
    BY <1>1 DEF StatementsRun
  <1>3. pc = "idle"
    <2>1. ~(Len(code) > 1)
      OBVIOUS
    <2> QED
      BY <2>1 DEF Running, CodeLeft
  <1>4. numTasks = n /\ made \in Seq(Nat) /\ Len(made) = n /\ \A l \in 1 .. n : made[l] = b[l].node
    BY <1>2, <1>3 DEF Running, TasksMade
  <1>5. \A l \in 1 .. n : b[l].node \in 1 .. n
    BY <1>1 DEF Renders
  <1>6. \A l, m \in 1 .. n : b[l].node = b[m].node => l = m
    BY DEF Renders
  <1> HIDE DEF n
  <1>7. made \in [1 .. n -> 1 .. n]
    <2>1. DOMAIN made = 1 .. n /\ made \in [1 .. n -> Nat]
      BY <1>4, LenProperties
    <2> QED
      BY <1>4, <1>5, <2>1
  <1>8. made \in Injection(1 .. n, 1 .. n)
    BY <1>4, <1>6, <1>7 DEF Injection, IsInjective
  <1>9. \A k \in Nat : IsFiniteSet(1 .. k)
    BY FS_Interval
  <1>10. made \in Surjection(1 .. n, 1 .. n)
    BY <1>1, <1>8, <1>9, FS_Injection
  <1>11. made \in Bijection(1 .. numTasks, DOMAIN file)
    BY <1>1, <1>4, <1>8, <1>10 DEF Bijection
  <1> QED
    BY <1>1, <1>2, <1>3, <1>4, <1>11 DEF n

\* A task is wired to the tasks of the outputs its node names, in that order.
LEMMA WiredAsNamed ==
  ASSUME NEW b, NEW file, Renders(b, file), Running(b), code = <<>>, NEW t \in Committed
  PROVE  [k \in DOMAIN rev_edges[t] |-> file[made[rev_edges[t][k] + 1]].output]
           = file[made[t + 1]].dependencies
  <1> DEFINE n == Len(file)
             ids == rev_edges[t]
             node == file[b[t + 1].node]
             deps == node.dependencies
  <1>1. /\ numTasks = n /\ n \in Nat /\ DOMAIN file = 1 .. n /\ StatementsRun(b) = n
        /\ \A l \in 1 .. n : made[l] = b[l].node
    BY OneTaskEach
  <1>2. t + 1 \in 1 .. n /\ (t + 1) - 1 = t /\ Len(b) - 1 = n
    BY <1>1 DEF Committed, Renders
  <1>3. made[t + 1] = b[t + 1].node /\ b[t + 1].node \in DOMAIN file
    BY <1>1, <1>2 DEF Renders
  <1>4. WiredTo(b, ids, b[t + 1].moves)
    BY <1>1, <1>2 DEF Running, TasksWired
  <1>5. b[t + 1].moves = [k \in DOMAIN deps |-> Ident[deps[k]]]
    BY <1>2 DEF Renders, Spells
  <1>6. file \in Seq(Node) /\ node \in Node
    BY <1>3 DEF Renders, FileShape
  <1>7. deps \in Seq(Outputs)
    BY <1>6 DEF Node
  <1>8. DOMAIN ids = DOMAIN deps
    BY <1>4, <1>5 DEF WiredTo
  <1>9. ASSUME NEW k \in DOMAIN deps
        PROVE  file[made[ids[k] + 1]].output = deps[k]
    <2> DEFINE l == ids[k] + 1
               m == b[l].node
    <2>1. l \in 1 .. n /\ b[l].binds = Ident[deps[k]]
      BY <1>2, <1>4, <1>5, <1>8 DEF WiredTo
    <2>2. m \in DOMAIN file /\ b[l].binds = VarOf(file[m]) /\ made[l] = m
      BY <1>1, <2>1 DEF Renders, Spells
    <2>3. PICK j \in DOMAIN file : file[j].output = deps[k]
      <3>1. \A i \in DOMAIN file : \A d \in Range(file[i].dependencies) :
              \E j \in DOMAIN file : file[j].output = d
        BY DEF Renders
      <3>2. deps[k] \in Range(deps)
        BY DEF Range
      <3> QED
        BY <1>3, <3>1, <3>2
    <2>4. VarOf(file[j]) = VarOf(file[m])
      BY <2>1, <2>2, <2>3 DEF VarOf
    <2>5. j = m
      BY <2>2, <2>4 DEF Renders
    <2> QED
      BY <2>2, <2>3, <2>5
  <1>10. deps = [k \in DOMAIN deps |-> deps[k]]
    BY <1>7
  <1> HIDE DEF ids, deps
  <1>11. [k \in DOMAIN ids |-> file[made[ids[k] + 1]].output] = deps
    BY <1>8, <1>9, <1>10
  <1> QED
    BY <1>3, <1>11 DEF ids, deps

\* The task that is run is that of the sink.
LEMMA SinkIsRun ==
  ASSUME NEW b, NEW file, Renders(b, file), Running(b), code = <<>>, sink_id # <<>>
  PROVE  file[made[sink_id[1] + 1]].sink
  <1> DEFINE n == Len(file)
             l == sink_id[1] + 1
             m == b[l].node
  <1>1. n \in Nat /\ DOMAIN file = 1 .. n /\ \A k \in 1 .. n : made[k] = b[k].node
    BY OneTaskEach
  <1>2. Len(b) - 1 = n /\ b[Len(b)].moves = <<VarOf(file[n])>>
    BY <1>1 DEF Renders
  <1>3. l \in 1 .. n /\ b[l].binds = VarOf(file[n])
    BY <1>2 DEF Running, SinkTaken
  <1>4. m \in DOMAIN file /\ b[l].binds = VarOf(file[m]) /\ made[l] = m
    BY <1>1, <1>3 DEF Renders, Spells
  <1>5. n \in DOMAIN file
    <2>1. file # <<>> /\ file \in Seq(Node)
      BY DEF Renders, FileShape
    <2> QED
      BY <1>1, <2>1, EmptySeq
  <1>6. m = n
    <2>1. \A i, j \in DOMAIN file : VarOf(file[i]) = VarOf(file[j]) => i = j
      BY DEF Renders
    <2> HIDE DEF n, m, l
    <2> QED
      BY <1>3, <1>4, <1>5, <2>1
  <1> QED
    BY <1>4, <1>5, <1>6 DEF Renders, FileShape

(***************************************************************************)
(* The function that build_flow_by_path or run_flow_by_path calls builds   *)
(* the flow of the first file with that entry: a task for each node, wired *)
(* to the outputs the node names in that order, and runs its sink.         *)
(***************************************************************************)
THEOREM AlwaysBuildsTheFile == GenSpec => []BuildsTheFile
  <1>1. GenInv => BuildsTheFile
    <2> SUFFICES ASSUME GenInv, sink_id # <<>>
                 PROVE  BuildsTheFile
      BY DEF BuildsTheFile
    <2> DEFINE entry == asked[1]
               i == FirstArm(entry)
               file == disk[paths[i]]
    <2>1. asked # <<>> /\ Arms(entry) # {} /\ step = "done"
      BY DEF GenInv, RunInv
    <2>2. PICK f \in Funcs : Running(rendered[f][i])
      BY <2>1 DEF GenInv, RunInv
    <2>3. /\ i \in Arms(entry) /\ i \in Nat /\ \A j \in Arms(entry) : i <= j
          /\ Renders(rendered[f][i], file)
      BY <2>1, FirstArmFinds DEF GenInv
    <2>4. PICK b : b = rendered[f][i]
      OBVIOUS
    <2>5. Running(b) /\ Renders(b, file)
      BY <2>2, <2>3, <2>4
    <2>6. code = <<>>
      BY <2>5 DEF Running, SinkTaken
    <2>7. \A j \in 1 .. i - 1 : j \notin Arms(entry)
      BY <2>3
    <2>8. made \in Bijection(1 .. numTasks, DOMAIN file)
      BY <2>5, <2>6, OneTaskEach
    <2>9. \A t \in Committed :
            [k \in DOMAIN rev_edges[t] |-> file[made[rev_edges[t][k] + 1]].output]
              = file[made[t + 1]].dependencies
      BY <2>5, <2>6, WiredAsNamed
    <2>10. file[made[sink_id[1] + 1]].sink
      BY <2>5, <2>6, SinkIsRun
    <2> HIDE DEF entry, i
    <2>11. \E k \in Arms(entry) :
             /\ \A j \in 1 .. k - 1 : j \notin Arms(entry)
             /\ made \in Bijection(1 .. numTasks, DOMAIN disk[paths[k]])
             /\ \A t \in Committed :
                  [l \in DOMAIN rev_edges[t] |-> disk[paths[k]][made[rev_edges[t][l] + 1]].output]
                    = disk[paths[k]][made[t + 1]].dependencies
             /\ disk[paths[k]][made[sink_id[1] + 1]].sink
      BY <2>3, <2>7, <2>8, <2>9, <2>10
    <2> QED
      BY <2>11 DEF BuildsTheFile, entry
  <1> QED
    BY GenStart, GenStep, <1>1, PTL DEF GenSpec

=============================================================================
