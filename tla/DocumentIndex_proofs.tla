-------------------------- MODULE DocumentIndex_proofs --------------------------
(***************************************************************************)
(* Proofs about DocumentIndex, for any files, texts, workers and bounds:   *)
(* its type invariant, that nothing refers to a row that is gone, that,    *)
(* when all runs have ended and none was cut short, every document has all *)
(* the chunks of its text, however the runs overlapped, and what a check   *)
(* and a reconcile that nothing disturbed leave behind.                    *)
(***************************************************************************)
EXTENDS DocumentIndex, TLAPS, WellFoundedInduction, SequenceTheorems, FiniteSetTheorems

\* In a list of things to do, a document that is deleted is written later, and
\* the chunks of a document that is written come later.
Ordered(todo) ==
    /\ \A k \in DOMAIN todo : todo[k].op = "delete" =>
          \E j \in DOMAIN todo :
              k < j /\ todo[j].op = "document" /\ todo[j].document = todo[k].document
    /\ \A k \in DOMAIN todo : todo[k].op = "document" =>
          \A c \in ChunkSet(todo[k].document, todo[k].text) :
              \E j \in DOMAIN todo : k < j /\ todo[j].op = "chunk" /\ todo[j].chunk = c

\* The document of each chunk is written before it.
WrittenBefore(todo, k) ==
    \E j \in DOMAIN todo :
        j < k /\ todo[j].op = "document" /\ todo[j].document = todo[k].chunk.document

Preceded(todo) ==
    \A k \in DOMAIN todo : todo[k].op = "chunk" => WrittenBefore(todo, k)

Plans == {todo \in Seq(Writes) : Ordered(todo) /\ Preceded(todo)}

-----------------------------------------------------------------------------
(***************************************************************************)
(* The inductive invariant.                                                *)
(***************************************************************************)
\* What a run is doing: it has a list when it writes, and what is left of the
\* list is as ordered as the list.
RunWellFormed(r) ==
    /\ r.stage # "write" => r.todo = <<>>
    /\ r.stage = "read" /\ r.kind = "check" =>
          Len(r.sources) = 1 /\ r.sources[1].text \in Texts
    /\ Ordered(r.todo)
    /\ \A k \in DOMAIN r.todo : r.todo[k].op = "chunk" =>
          documents[r.todo[k].chunk.document] # None \/ WrittenBefore(r.todo, k)

RunsWellFormed == \A w \in Workers : RunWellFormed(run[w])

DocumentPending(d) ==
    \E w \in Workers : \E k \in DOMAIN run[w].todo :
        run[w].todo[k].op = "document" /\ run[w].todo[k].document = d

ChunkPending(c) ==
    \E w \in Workers : \E k \in DOMAIN run[w].todo :
        run[w].todo[k].op = "chunk" /\ run[w].todo[k].chunk = c

\* As long as no run was cut short, what a document lacks is going to be written.
ChunksComing ==
    ~failed => \A d \in FileSet : documents[d] # None =>
        \/ DocumentPending(d)
        \/ \A c \in ChunkSet(d, documents[d].text) : c \in chunks \/ ChunkPending(c)

IInv == TypeOK /\ RunsWellFormed /\ RowsPointToRows /\ ChunksComing

-----------------------------------------------------------------------------
(***************************************************************************)
(* Sequences.                                                              *)
(***************************************************************************)
LEMMA LeastNatural ==
    ASSUME NEW S, S \subseteq Nat, S # {}
    PROVE  \E x \in S : \A y \in S : x <= y
<1>1. PICK x \in S : \A y \in S : ~(<<y, x>> \in OpToRel(<, Nat))
  BY NatLessThanWellFounded, WFMin
<1>2. \A y \in S : ~(y < x)
  <2> SUFFICES ASSUME NEW y \in S, y < x PROVE FALSE
    OBVIOUS
  <2>1. <<y, x>> \in Nat \X Nat /\ <<y, x>>[1] < <<y, x>>[2]
    OBVIOUS
  <2>2. <<y, x>> \in OpToRel(<, Nat)
    BY <2>1 DEF OpToRel
  <2> QED BY <1>1, <2>2
<1> QED BY <1>2

\* FlattenSeq joins the sequences one after the other.
LEMMA FlattenEquation ==
    ASSUME NEW A, NEW seqs \in Seq(A), seqs # <<>>
    PROVE  /\ Len(seqs) \in Nat \ {0} /\ DOMAIN seqs = 1 .. Len(seqs)
           /\ \A i \in 1 .. Len(seqs) : seqs[i] \in A
           /\ \E flatten :
                /\ FlattenSeq(seqs) = flatten[Len(seqs)]
                /\ \A i \in 1 .. Len(seqs) :
                      flatten[i] = IF i = 1 THEN seqs[i] ELSE flatten[i - 1] \o seqs[i]
<1> DEFINE n == Len(seqs)
           Next1(g, i) == IF i = 1 THEN seqs[i] ELSE g[i - 1] \o seqs[i]
           Solves(g, k) == g = [i \in 1 .. k |-> Next1(g, i)]
<1>0. n \in Nat \ {0} /\ DOMAIN seqs = 1 .. n /\ \A i \in 1 .. n : seqs[i] \in A
  BY LenProperties, ElementOfSeq, EmptySeq
<1>1. \A k \in 0 .. n : \E g : Solves(g, k)
  <2> SUFFICES ASSUME {k \in 0 .. n : ~ \E g : Solves(g, k)} # {} PROVE FALSE
    OBVIOUS
  <2>1. PICK k \in 0 .. n :
           /\ ~ \E g : Solves(g, k)
           /\ \A j \in 0 .. n : (~ \E g : Solves(g, j)) => k <= j
    <3> DEFINE S == {x \in 0 .. n : ~ \E g : Solves(g, x)}
    <3>1. S \subseteq Nat /\ S # {}
      <4> HIDE DEF Solves, n
      <4> QED OBVIOUS
    <3>2. PICK k \in S : \A y \in S : k <= y
      <4> HIDE DEF S
      <4> QED BY <3>1, LeastNatural
    <3> QED BY <3>2
  <2>2. k # 0
    <3>1. Solves(<<>>, 0)
      OBVIOUS
    <3> QED BY ZenonT(30), <2>1, <3>1
  <2>3. PICK g : Solves(g, k - 1)
    <3> HIDE DEF Solves, n
    <3> QED BY <1>0, <2>1, <2>2
  <2> DEFINE f == [i \in 1 .. k |-> IF i = k THEN Next1(g, i) ELSE g[i]]
  <2>4. Solves(f, k)
    <3>1. \A i \in 1 .. k : f[i] = Next1(f, i)
      <4> TAKE i \in 1 .. k
      <4>1. i # 1 => i - 1 \in 1 .. k - 1 /\ f[i - 1] = g[i - 1]
        BY <1>0
      <4>2. CASE i = k
        BY <4>1, <4>2
      <4>3. CASE i # k
        <5>1. i \in 1 .. k - 1
          BY <1>0, <4>3
        <5>2. g[i] = Next1(g, i)
          BY <2>3, <5>1
        <5> QED BY <4>1, <4>3, <5>2
      <4> QED BY <4>2, <4>3
    <3> QED BY <3>1
  <2> QED BY <2>1, <2>4
<1> DEFINE flatten[i \in 1 .. Len(seqs)] ==
             IF i = 1 THEN seqs[i] ELSE flatten[i - 1] \o seqs[i]
<1>2. FlattenSeq(seqs) = flatten[n]
  BY <1>0 DEF FlattenSeq
<1>3. \A i \in 1 .. n : flatten[i] = Next1(flatten, i)
  <2>1. \E g : Solves(g, n)
    <3> HIDE DEF Solves, n
    <3> QED BY <1>0, <1>1
  <2>2. Solves(flatten, n)
    BY <2>1
  <2> HIDE DEF flatten
  <2> QED BY <2>2
<1> HIDE DEF flatten
<1> QED BY <1>0, <1>2, <1>3

\* FlattenSeq stays in a set of sequences that concatenation stays in.
LEMMA FlattenStaysIn ==
    ASSUME NEW A, <<>> \in A, \A s, t \in A : s \o t \in A, NEW seqs \in Seq(A)
    PROVE  FlattenSeq(seqs) \in A
<1>1. CASE seqs = <<>>
  <2>1. Len(seqs) = 0
    BY <1>1, EmptySeq
  <2> QED BY <1>1, <2>1 DEF FlattenSeq
<1>2. CASE seqs # <<>>
  <2> DEFINE n == Len(seqs)
  <2>1. n \in Nat \ {0} /\ \A i \in 1 .. n : seqs[i] \in A
    BY <1>2, FlattenEquation
  <2>2. PICK flatten :
           /\ FlattenSeq(seqs) = flatten[n]
           /\ \A i \in 1 .. n : flatten[i] = IF i = 1 THEN seqs[i]
                                             ELSE flatten[i - 1] \o seqs[i]
    BY <1>2, FlattenEquation
  <2>3. \A i \in 1 .. n : flatten[i] \in A
    <3> SUFFICES ASSUME {i \in 1 .. n : flatten[i] \notin A} # {} PROVE FALSE
      OBVIOUS
    <3> DEFINE S == {i \in 1 .. n : flatten[i] \notin A}
    <3>1. S \subseteq Nat /\ S # {}
      OBVIOUS
    <3>2. PICK k \in S : \A y \in S : k <= y
      <4> HIDE DEF S
      <4> QED BY <3>1, LeastNatural
    <3>3. k # 1
      BY <2>1, <2>2, <3>2
    <3>4. k - 1 \in 1 .. n /\ flatten[k - 1] \in A
      BY <2>1, <3>2, <3>3
    <3> QED BY <2>1, <2>2, <3>2, <3>3, <3>4
  <2> QED BY <2>1, <2>2, <2>3
<1> QED BY <1>1, <1>2

\* The elements of FlattenSeq are those of its sequences.
LEMMA FlattenRange ==
    ASSUME NEW B, NEW seqs \in Seq(Seq(B))
    PROVE  Range(FlattenSeq(seqs)) = UNION {Range(seqs[i]) : i \in DOMAIN seqs}
<1>1. CASE seqs = <<>>
  <2>1. Len(seqs) = 0 /\ DOMAIN seqs = 1 .. Len(seqs)
    BY <1>1, EmptySeq, LenProperties
  <2>2. FlattenSeq(seqs) = <<>>
    BY <1>1, <2>1 DEF FlattenSeq
  <2>3. DOMAIN seqs = {} /\ DOMAIN <<>> = {}
    BY <1>1, <2>1
  <2> QED BY <2>2, <2>3 DEF Range
<1>2. CASE seqs # <<>>
  <2> DEFINE n == Len(seqs)
  <2>1. n \in Nat \ {0} /\ DOMAIN seqs = 1 .. n /\ \A i \in 1 .. n : seqs[i] \in Seq(B)
    BY <1>2, FlattenEquation
  <2>2. PICK flatten :
           /\ FlattenSeq(seqs) = flatten[n]
           /\ \A i \in 1 .. n : flatten[i] = IF i = 1 THEN seqs[i]
                                             ELSE flatten[i - 1] \o seqs[i]
    BY <1>2, FlattenEquation
  <2> DEFINE Right(i) == /\ flatten[i] \in Seq(B)
                         /\ Range(flatten[i]) = UNION {Range(seqs[j]) : j \in 1 .. i}
  <2>3. \A i \in 1 .. n : Right(i)
    <3> SUFFICES ASSUME {i \in 1 .. n : ~Right(i)} # {} PROVE FALSE
      OBVIOUS
    <3> DEFINE S == {i \in 1 .. n : ~Right(i)}
    <3>1. S \subseteq Nat /\ S # {}
      <4> HIDE DEF Right
      <4> QED OBVIOUS
    <3>2. PICK k \in S : \A y \in S : k <= y
      <4> HIDE DEF S
      <4> QED BY <3>1, LeastNatural
    <3>3. k \in 1 .. n /\ ~Right(k)
      <4> HIDE DEF Right
      <4> QED OBVIOUS
    <3>4. CASE k = 1
      <4>1. flatten[k] = seqs[1] /\ 1 .. k = {1}
        BY <2>2, <3>3, <3>4
      <4> QED BY <2>1, <3>3, <3>4, <4>1
    <3>5. CASE k # 1
      <4>1. k - 1 \in 1 .. n /\ 1 .. k = (1 .. k - 1) \cup {k} /\ k \in Nat
        <5> HIDE DEF Right, n
        <5> QED BY <2>1, <3>3, <3>5
      <4>2. Right(k - 1)
        <5> HIDE DEF Right, n
        <5>1. ~(k <= k - 1)
          BY <4>1
        <5>2. k - 1 \notin S
          <6> HIDE DEF S
          <6> QED BY <3>2, <5>1
        <5> QED BY <4>1, <5>2
      <4>3. flatten[k] = flatten[k - 1] \o seqs[k]
        BY <2>2, <3>3, <3>5
      <4>4. Range(flatten[k]) = Range(flatten[k - 1]) \cup Range(seqs[k])
            /\ flatten[k] \in Seq(B)
        <5>1. seqs[k] \in Seq(B) /\ flatten[k - 1] \in Seq(B)
          BY <2>1, <3>3, <4>2
        <5> QED BY <4>3, <5>1, RangeConcatenation, ConcatProperties
      <4> QED BY <3>3, <4>1, <4>2, <4>4
    <3> QED BY <3>4, <3>5
  <2>4. Right(n)
    <3>1. n \in 1 .. n
      BY <2>1
    <3> HIDE DEF Right, n
    <3> QED BY <2>3, <3>1
  <2> QED BY <2>1, <2>2, <2>4
<1> QED BY <1>1, <1>2

\* Any order of a finite set has its elements.
LEMMA SetToSeqElements ==
    ASSUME NEW S, IsFiniteSet(S)
    PROVE  SetToSeq(S) \in Seq(S) /\ Range(SetToSeq(S)) = S
<1> DEFINE n == Cardinality(S)
           s == SetToSeq(S)
<1>1. n \in Nat /\ ExistsBijection(1 .. n, S)
  BY FS_CardinalityType
<1>2. PICK f \in [1 .. n -> S] : IsInjective(f)
  BY <1>1 DEF ExistsBijection, Bijection, Injection
<1>3. s \in [1 .. n -> S] /\ IsInjective(s)
  BY <1>2 DEF SetToSeq
<1> HIDE DEF s, n
<1>4. Range(s) = S
  <2>1. IsFiniteSet(1 .. n) /\ Cardinality(1 .. n) = n
    BY <1>1, FS_Interval
  <2>2. s \in Injection(1 .. n, S)
    BY <1>3 DEF Injection, IsInjective
  <2>3. s \in Surjection(1 .. n, Range(s)) /\ s \in Injection(1 .. n, Range(s))
    BY <1>3, <2>2 DEF Surjection, Range, Injection
  <2>4. s \in Bijection(1 .. n, Range(s))
    BY <2>3 DEF Bijection
  <2>5. Cardinality(Range(s)) = n
    BY <2>1, <2>4, FS_Bijection DEF ExistsBijection
  <2>6. Range(s) \subseteq S
    BY <1>3 DEF Range
  <2> QED BY <2>5, <2>6, FS_Subset DEF n
<1> QED BY <1>1, <1>3, <1>4, SeqDef DEF s

\* Of a finite set whose elements have numbers of their own, those with fewer
\* than m before them are m of them, or all there are.
LEMMA FirstOnes ==
    ASSUME NEW M, IsFiniteSet(M), NEW m \in Nat, NEW number \in [M -> Nat],
           \A x, y \in M : number[x] = number[y] => x = y
    PROVE  LET Earlier(x) == {y \in M : number[y] < number[x]}
               first == {x \in M : Cardinality(Earlier(x)) < m}
           IN  Cardinality(first) = Min({m, Cardinality(M)})
<1> DEFINE n == Cardinality(M)
           Earlier(x) == {y \in M : number[y] < number[x]}
           rank == [x \in M |-> Cardinality(Earlier(x))]
           first == {x \in M : Cardinality(Earlier(x)) < m}
<1>1. n \in Nat
  BY FS_CardinalityType
<1>2. \A x \in M : IsFiniteSet(Earlier(x)) /\ Cardinality(Earlier(x)) \in 0 .. n - 1
  <2> TAKE x \in M
  <2>1. Earlier(x) \in SUBSET M /\ x \notin Earlier(x)
    OBVIOUS
  <2>2. /\ IsFiniteSet(Earlier(x)) /\ Cardinality(Earlier(x)) \in Nat
        /\ Cardinality(Earlier(x)) <= n /\ Cardinality(Earlier(x)) # n
    BY <2>1, FS_Subset, FS_CardinalityType
  <2> QED BY <1>1, <2>2
<1>3. \A x, y \in M : number[x] < number[y] =>
         Cardinality(Earlier(x)) < Cardinality(Earlier(y))
  <2> SUFFICES ASSUME NEW x \in M, NEW y \in M, number[x] < number[y]
               PROVE  Cardinality(Earlier(x)) < Cardinality(Earlier(y))
    OBVIOUS
  <2>1. Earlier(x) \in SUBSET Earlier(y) /\ x \in Earlier(y) /\ x \notin Earlier(x)
    OBVIOUS
  <2> HIDE DEF Earlier
  <2>2. /\ Cardinality(Earlier(x)) <= Cardinality(Earlier(y))
        /\ Cardinality(Earlier(x)) # Cardinality(Earlier(y))
    BY <1>2, <2>1, FS_Subset
  <2> QED BY <1>2, <2>2
<1> HIDE DEF Earlier
<1>4. rank \in Injection(M, 0 .. n - 1)
  <2>1. \A x, y \in M : rank[x] = rank[y] => x = y
    <3> SUFFICES ASSUME NEW x \in M, NEW y \in M, x # y PROVE rank[x] # rank[y]
      OBVIOUS
    <3>1. number[x] < number[y] \/ number[y] < number[x]
      OBVIOUS
    <3>2. Cardinality(Earlier(x)) \in Nat /\ Cardinality(Earlier(y)) \in Nat
      BY <1>1, <1>2
    <3> QED BY <1>3, <3>1, <3>2
  <2>2. rank \in [M -> 0 .. n - 1]
    BY <1>2
  <2> HIDE DEF rank, n
  <2> QED BY <2>1, <2>2 DEF Injection, IsInjective
<1>5. rank \in Surjection(M, 0 .. n - 1)
  <2>1. IsFiniteSet(0 .. n - 1) /\ Cardinality(0 .. n - 1) = n
    BY <1>1, FS_Interval
  <2> HIDE DEF rank
  <2> QED BY <1>4, <2>1, FS_Injection
<1>6. PICK k \in Nat : k = Min({m, n}) /\ k <= n /\ k <= m /\ (k = n \/ k = m)
  <2>1. \E x \in {m, n} : \A y \in {m, n} : x <= y
    BY <1>1
  <2> HIDE DEF n
  <2>2. Min({m, n}) \in {m, n} /\ \A y \in {m, n} : Min({m, n}) <= y
    BY <2>1 DEF Min
  <2> QED BY <1>1, <2>2
<1>7. \A x \in M : x \in first <=> rank[x] \in 0 .. k - 1
  <2> TAKE x \in M
  <2>1. rank[x] = Cardinality(Earlier(x)) /\ rank[x] \in 0 .. n - 1
    BY <1>2
  <2>2. x \in first <=> rank[x] < m
    BY <2>1
  <2> HIDE DEF rank, first, n
  <2> QED BY <1>1, <1>6, <2>1, <2>2
<1> DEFINE part == [x \in first |-> rank[x]]
<1>8. part \in Bijection(first, 0 .. k - 1)
  <2>1. first \subseteq M
    OBVIOUS
  <2> HIDE DEF rank, first, n
  <2>2. part \in [first -> 0 .. k - 1]
    BY <1>7, <2>1
  <2>3. \A x, y \in first : part[x] = part[y] => x = y
    BY <1>4, <2>1 DEF Injection, IsInjective
  <2>4. \A i \in 0 .. k - 1 : \E x \in first : part[x] = i
    <3> TAKE i \in 0 .. k - 1
    <3>1. i \in 0 .. n - 1
      BY <1>1, <1>6
    <3>2. PICK x \in M : rank[x] = i
      BY <1>5, <3>1 DEF Surjection
    <3> QED BY <1>7, <3>2
  <2> HIDE DEF part
  <2> QED BY <2>2, <2>3, <2>4 DEF Bijection, Injection, Surjection, IsInjective
<1>9. Cardinality(first) = Cardinality(0 .. k - 1)
  <2>1. first \in SUBSET M
    OBVIOUS
  <2> HIDE DEF part, first
  <2>2. IsFiniteSet(first)
    BY <2>1, FS_Subset
  <2> QED BY <1>8, <2>2, FS_Bijection DEF ExistsBijection
<1>10. Cardinality(0 .. k - 1) = k
  BY FS_Interval
<1> QED BY <1>6, <1>9, <1>10 DEF Earlier

-----------------------------------------------------------------------------
(***************************************************************************)
(* What a run is going to write.                                           *)
(***************************************************************************)
\* The fields of each kind of write.
LEMMA WriteKinds ==
    ASSUME NEW x \in Writes
    PROVE  /\ x.op \in {"document", "chunk", "occurrence", "issue", "delete", "rebuild"}
           /\ x.op = "document" => x.document \in FileSet /\ x.path \in Paths /\ x.text \in Texts
           /\ x.op = "chunk" => x.chunk \in Chunks
           /\ x.op = "occurrence" => x.chunk \in Chunks /\ x.concept \in Concepts
           /\ x.op = "issue" => x.issue \in Issues /\ x.chunks \in SUBSET Chunks
           /\ x.op = "delete" => x.document \in FileSet
  BY DEF Writes

LEMMA ChunkSeqShape ==
    ASSUME NEW d \in FileSet, NEW text \in Texts
    PROVE  /\ Len(ChunksOf[text]) \in Nat \ {0}
           /\ DOMAIN ChunksOf[text] = 1 .. Len(ChunksOf[text])
           /\ DOMAIN ChunkSeq(d, text) = 1 .. Len(ChunksOf[text])
           /\ \A k \in 1 .. Len(ChunksOf[text]) :
                 ChunkSeq(d, text)[k] \in Chunks /\ ChunkSeq(d, text)[k].document = d
           /\ ChunkSet(d, text) \subseteq Chunks
           /\ \A c \in ChunkSet(d, text) : \E k \in 1 .. Len(ChunksOf[text]) :
                 c = ChunkSeq(d, text)[k]
<1> DEFINE n == Len(ChunksOf[text])
<1>1. ChunksOf[text] \in Seq(ChunkTexts) /\ ChunksOf[text] # <<>>
  BY ChunksAssumption
<1>2. /\ n \in Nat \ {0} /\ DOMAIN ChunksOf[text] = 1 .. n
      /\ \A k \in 1 .. n : ChunksOf[text][k] \in ChunkTexts
  BY <1>1, LenProperties, EmptySeq, ElementOfSeq
<1> HIDE DEF n
<1>3. /\ DOMAIN ChunkSeq(d, text) = 1 .. n
      /\ \A k \in 1 .. n : ChunkSeq(d, text)[k]
                              = [document |-> d, ordinal |-> k, text |-> ChunksOf[text][k]]
  BY <1>2 DEF ChunkSeq
<1>4. \A k \in 1 .. n : ChunkSeq(d, text)[k] \in Chunks /\ ChunkSeq(d, text)[k].document = d
  BY <1>2, <1>3 DEF Chunks
<1>5. \A c \in ChunkSet(d, text) : \E k \in 1 .. n : c = ChunkSeq(d, text)[k]
  BY <1>3 DEF ChunkSet, Range
<1> QED BY <1>2, <1>3, <1>4, <1>5 DEF n

\* An issue quotes as many of the chunks that mention its concept as it may.
LEMMA QuotedShape ==
    ASSUME NEW d \in FileSet, NEW text \in Texts, NEW x
    PROVE  LET mentioning == {c \in ChunkSet(d, text) : x \in Mentions[c.text]}
               quoted == Quoted(d, text, x)
           IN  /\ quoted \subseteq mentioning
               /\ Cardinality(quoted) = Min({MaxEvidence, Cardinality(mentioning)})
               /\ mentioning # {} => quoted # {}
<1> DEFINE mentioning == {c \in ChunkSet(d, text) : x \in Mentions[c.text]}
           quoted == Quoted(d, text, x)
           number == [c \in mentioning |-> c.ordinal]
           n == Len(ChunksOf[text])
<1>1. /\ n \in Nat
      /\ \A c \in ChunkSet(d, text) : \E k \in 1 .. n : c = ChunkSeq(d, text)[k]
      /\ \A k \in 1 .. n : ChunkSeq(d, text)[k].ordinal = k
  <2>1. n \in Nat /\ DOMAIN ChunksOf[text] = 1 .. n
    BY ChunkSeqShape
  <2>2. \A k \in 1 .. n : ChunkSeq(d, text)[k].ordinal = k
    BY <2>1 DEF ChunkSeq
  <2> QED BY <2>1, <2>2, ChunkSeqShape
<1> HIDE DEF n
<1>2. number \in [mentioning -> Nat]
  BY <1>1
<1>3. \A c, e \in mentioning : number[c] = number[e] => c = e
  BY <1>1
<1>4. IsFiniteSet(mentioning)
  <2>1. number \in Injection(mentioning, 1 .. n)
    <3>1. number \in [mentioning -> 1 .. n]
      BY <1>1
    <3> HIDE DEF number, mentioning
    <3> QED BY <1>3, <3>1 DEF Injection, IsInjective
  <2>2. IsFiniteSet(1 .. n)
    BY <1>1, FS_Interval
  <2> HIDE DEF number, mentioning
  <2> QED BY <2>1, <2>2, FS_Injection
<1>5. MaxEvidence \in Nat
  BY BoundsAssumption
<1>6. quoted = {c \in mentioning :
                   Cardinality({e \in mentioning : number[e] < number[c]}) < MaxEvidence}
  <2>1. \A c \in mentioning : {e \in mentioning : number[e] < number[c]}
                              = {e \in mentioning : e.ordinal < c.ordinal}
    OBVIOUS
  <2> HIDE DEF number
  <2> QED BY <2>1 DEF Quoted
<1> HIDE DEF number, quoted, mentioning
<1>7. Cardinality(quoted) = Min({MaxEvidence, Cardinality(mentioning)})
  BY <1>2, <1>3, <1>4, <1>5, <1>6, FirstOnes
<1>8. mentioning # {} => quoted # {}
  <2> SUFFICES ASSUME mentioning # {}, quoted = {} PROVE FALSE
    OBVIOUS
  <2>1. Cardinality(mentioning) \in Nat \ {0} /\ Cardinality(quoted) = 0
    BY <1>4, FS_EmptySet, FS_CardinalityType
  <2>2. \E y \in {MaxEvidence, Cardinality(mentioning)} :
           \A z \in {MaxEvidence, Cardinality(mentioning)} : y <= z
    BY <1>5, <2>1
  <2>3. Min({MaxEvidence, Cardinality(mentioning)}) \in {MaxEvidence, Cardinality(mentioning)}
    BY <2>2 DEF Min
  <2> QED BY <1>7, <2>1, <2>3, BoundsAssumption
<1>9. quoted \subseteq mentioning
  BY <1>6
<1> QED BY <1>7, <1>8, <1>9 DEF quoted, mentioning

\* A list that writes no document and no chunk, and deletes nothing.
LEMMA RestIsPlan ==
    ASSUME NEW s \in Seq(Writes),
           \A k \in DOMAIN s : s[k].op \in {"occurrence", "issue", "rebuild"}
    PROVE  s \in Plans
  BY DEF Plans, Ordered, Preceded

LEMMA EmptyIsPlan == <<>> \in Plans
<1>1. <<>> \in Seq(Writes) /\ Len(<<>>) = 0
  BY EmptySeq
<1>2. DOMAIN <<>> = {}
  BY <1>1, LenProperties
<1> QED BY <1>1, <1>2, RestIsPlan

\* One list after the other.
LEMMA ConcatPlans ==
    ASSUME NEW s \in Plans, NEW t \in Plans
    PROVE  s \o t \in Plans
<1> DEFINE both == s \o t
           m == Len(s)
           n == Len(t)
<1>1. s \in Seq(Writes) /\ t \in Seq(Writes)
  BY DEF Plans
<1>2. /\ both \in Seq(Writes) /\ Len(both) = m + n /\ m \in Nat /\ n \in Nat
      /\ DOMAIN s = 1 .. m /\ DOMAIN t = 1 .. n /\ DOMAIN both = 1 .. m + n
      /\ \A k \in 1 .. m : both[k] = s[k]
      /\ \A k \in 1 .. n : both[m + k] = t[k]
  BY <1>1, ConcatProperties, LenProperties
<1> HIDE DEF both, m, n
<1>3. \A k \in DOMAIN both :
         \/ k \in DOMAIN s /\ both[k] = s[k]
         \/ k > m /\ k - m \in DOMAIN t /\ both[k] = t[k - m]
  <2> TAKE k \in DOMAIN both
  <2>1. k \in 1 .. m \/ k - m \in 1 .. n
    BY <1>2
  <2>2. k = m + (k - m)
    BY <1>2
  <2> QED BY <1>2, <2>1, <2>2
<1>4. /\ \A j \in DOMAIN s : j \in DOMAIN both /\ both[j] = s[j]
      /\ \A j \in DOMAIN t : j + m \in DOMAIN both /\ both[j + m] = t[j]
  BY <1>2
<1>5. \A k \in DOMAIN both : both[k].op = "delete" =>
         \E j \in DOMAIN both :
             k < j /\ both[j].op = "document" /\ both[j].document = both[k].document
  <2> SUFFICES ASSUME NEW k \in DOMAIN both, both[k].op = "delete"
               PROVE  \E j \in DOMAIN both :
                          k < j /\ both[j].op = "document"
                          /\ both[j].document = both[k].document
    OBVIOUS
  <2>1. CASE k \in DOMAIN s /\ both[k] = s[k]
    <3>1. PICK j \in DOMAIN s :
             k < j /\ s[j].op = "document" /\ s[j].document = s[k].document
      BY <2>1 DEF Plans, Ordered
    <3> QED BY <1>4, <2>1, <3>1
  <2>2. CASE k > m /\ k - m \in DOMAIN t /\ both[k] = t[k - m]
    <3>1. PICK j \in DOMAIN t :
             k - m < j /\ t[j].op = "document" /\ t[j].document = t[k - m].document
      BY <2>2 DEF Plans, Ordered
    <3>2. k < j + m
      BY <1>2, <3>1
    <3> QED BY <1>4, <2>2, <3>1, <3>2
  <2> QED BY <1>3, <2>1, <2>2
<1>6. \A k \in DOMAIN both : both[k].op = "document" =>
         \A c \in ChunkSet(both[k].document, both[k].text) :
             \E j \in DOMAIN both : k < j /\ both[j].op = "chunk" /\ both[j].chunk = c
  <2> SUFFICES ASSUME NEW k \in DOMAIN both, both[k].op = "document",
                      NEW c \in ChunkSet(both[k].document, both[k].text)
               PROVE  \E j \in DOMAIN both :
                          k < j /\ both[j].op = "chunk" /\ both[j].chunk = c
    OBVIOUS
  <2>1. CASE k \in DOMAIN s /\ both[k] = s[k]
    <3> s[k].op = "document" /\ c \in ChunkSet(s[k].document, s[k].text)
      BY <2>1
    <3>1. PICK j \in DOMAIN s : k < j /\ s[j].op = "chunk" /\ s[j].chunk = c
      BY ZenonT(30), <2>1 DEF Plans, Ordered
    <3> QED BY <1>4, <3>1
  <2>2. CASE k > m /\ k - m \in DOMAIN t /\ both[k] = t[k - m]
    <3> t[k - m].op = "document" /\ c \in ChunkSet(t[k - m].document, t[k - m].text)
      BY <2>2
    <3>1. PICK j \in DOMAIN t : k - m < j /\ t[j].op = "chunk" /\ t[j].chunk = c
      BY ZenonT(30), <2>2 DEF Plans, Ordered
    <3>2. k < j + m
      BY <1>2, <3>1
    <3> QED BY <1>4, <3>1, <3>2
  <2> QED BY <1>3, <2>1, <2>2
<1>7. Preceded(both)
  <2> SUFFICES ASSUME NEW k \in DOMAIN both, both[k].op = "chunk"
               PROVE  WrittenBefore(both, k)
    BY DEF Preceded
  <2>1. CASE k \in DOMAIN s /\ both[k] = s[k]
    <3>1. PICK j \in DOMAIN s :
             j < k /\ s[j].op = "document" /\ s[j].document = s[k].chunk.document
      BY <2>1 DEF Plans, Preceded, WrittenBefore
    <3> QED BY <1>4, <2>1, <3>1 DEF WrittenBefore
  <2>2. CASE k > m /\ k - m \in DOMAIN t /\ both[k] = t[k - m]
    <3>1. PICK j \in DOMAIN t :
             j < k - m /\ t[j].op = "document" /\ t[j].document = t[k - m].chunk.document
      BY <2>2 DEF Plans, Preceded, WrittenBefore
    <3>2. j + m < k
      BY <1>2, <3>1
    <3> QED BY <1>4, <2>2, <3>1, <3>2 DEF WrittenBefore
  <2> QED BY <1>3, <2>1, <2>2
<1> QED BY <1>2, <1>5, <1>6, <1>7 DEF Plans, Ordered, both

\* A document is written, perhaps after its rows were deleted, and then its chunks.
LEMMA DocumentThenChunks ==
    ASSUME NEW d \in FileSet, NEW path \in Paths, NEW text \in Texts,
           NEW start \in Seq(Writes), Len(start) # 0,
           start[Len(start)] = DocumentWrite(d, path, text),
           \A k \in 1 .. Len(start) - 1 : start[k].op = "delete" /\ start[k].document = d
    PROVE  start \o ChunkWrites(d, text) \in Plans
<1> DEFINE rest == ChunkWrites(d, text)
           both == start \o rest
           m == Len(start)
           n == Len(ChunksOf[text])
<1>1. /\ n \in Nat /\ DOMAIN rest = 1 .. n
      /\ \A k \in 1 .. n : rest[k] = [op |-> "chunk", chunk |-> ChunkSeq(d, text)[k]]
  BY ChunkSeqShape DEF ChunkWrites
<1>2. \A k \in 1 .. n : rest[k] \in Writes /\ rest[k].chunk.document = d
  <2> TAKE k \in 1 .. n
  <2>1. ChunkSeq(d, text)[k] \in Chunks /\ ChunkSeq(d, text)[k].document = d
    BY ChunkSeqShape
  <2> HIDE DEF rest, n
  <2>2. rest[k] = [op |-> "chunk", chunk |-> ChunkSeq(d, text)[k]]
    BY <1>1
  <2>3. rest[k] \in [op : {"chunk"}, chunk : Chunks] /\ rest[k].chunk.document = d
    BY <2>1, <2>2
  <2> QED BY <2>3 DEF Writes
<1>3. rest \in Seq(Writes) /\ Len(rest) = n
  <2>1. rest \in [1 .. n -> Writes]
    BY <1>1, <1>2 DEF ChunkWrites
  <2> HIDE DEF rest
  <2>2. rest \in Seq(Writes)
    BY <1>1, <2>1, SeqDef
  <2> QED BY <1>1, <2>2, LenProperties
<1> HIDE DEF rest, n
<1>4. /\ both \in Seq(Writes) /\ m \in Nat \ {0}
      /\ DOMAIN both = 1 .. m + n
      /\ \A k \in 1 .. m : both[k] = start[k]
      /\ \A k \in 1 .. n : both[m + k] = rest[k]
  <2>1. m \in Nat \ {0}
    BY LenProperties
  <2>2. both \in Seq(Writes) /\ Len(both) = m + n
    BY <1>3, ConcatProperties
  <2>3. DOMAIN both = 1 .. m + n
    BY <2>2, LenProperties
  <2>4. \A k \in 1 .. m + n :
           both[k] = IF k <= m THEN start[k] ELSE rest[k - m]
    BY <1>3, ConcatProperties
  <2> HIDE DEF both, m
  <2> QED BY <1>1, <2>1, <2>2, <2>3, <2>4
<1>5. /\ both[m].op = "document" /\ both[m].document = d /\ both[m].text = text
      /\ m \in DOMAIN both
  BY <1>1, <1>4 DEF DocumentWrite
<1> HIDE DEF both, m
<1>6. \A k \in DOMAIN both :
         \/ k < m /\ both[k].op = "delete" /\ both[k].document = d
         \/ k = m
         \/ k > m /\ both[k].op = "chunk" /\ both[k].chunk.document = d
  <2> TAKE k \in DOMAIN both
  <2>1. CASE k < m
    BY <1>1, <1>4, <2>1 DEF m
  <2>2. CASE k > m
    <3>1. k - m \in 1 .. n /\ k = m + (k - m)
      BY <1>1, <1>4, <2>2
    <3> QED BY <1>1, <1>2, <1>4, <2>2, <3>1
  <2> QED BY <1>1, <1>4, <2>1, <2>2
<1>7. \A c \in ChunkSet(d, text) :
         \E j \in DOMAIN both : m < j /\ both[j].op = "chunk" /\ both[j].chunk = c
  <2> TAKE c \in ChunkSet(d, text)
  <2>1. PICK k \in 1 .. n : c = ChunkSeq(d, text)[k]
    BY ChunkSeqShape DEF n
  <2>2. m + k \in DOMAIN both /\ m < m + k /\ both[m + k] = rest[k]
    BY <1>1, <1>4
  <2> QED BY <1>1, <2>1, <2>2
<1>8. Ordered(both)
  BY <1>5, <1>6, <1>7 DEF Ordered
<1>9. Preceded(both)
  BY <1>5, <1>6 DEF Preceded, WrittenBefore
<1> QED BY <1>4, <1>8, <1>9 DEF Plans, both, rest

LEMMA SourcePlanIsPlan ==
    ASSUME NEW source \in Sources, source.text # None, NEW d \in FileSet
    PROVE  SourcePlan(source, d) \in Plans
<1> DEFINE path == RelPath[source.file]
           text == source.text
           gone == [op |-> "delete", document |-> d]
           written == DocumentWrite(d, path, text)
<1>1. source.file \in FileSet /\ path \in Paths /\ text \in Texts
  BY DEF Sources, Paths
<1> HIDE DEF path, text
<1>2. gone \in Writes
  BY DEF Writes
<1>3. written \in Writes
  BY <1>1 DEF Writes, DocumentWrite
<1>4. gone.op = "delete" /\ gone.document = d
  OBVIOUS
<1> HIDE DEF gone, written
<1>5. /\ <<gone, written>> \in Seq(Writes) /\ Len(<<gone, written>>) = 2
      /\ <<gone, written>>[2] = written /\ <<gone, written>>[1] = gone
  BY <1>2, <1>3
<1> DEFINE start == <<gone, written>>
<1>6. /\ start \in Seq(Writes) /\ Len(start) = 2
      /\ start[2] = DocumentWrite(d, path, text) /\ start[1] = gone
  BY <1>5 DEF written
<1> HIDE DEF start
<1>7. \A k \in 1 .. Len(start) - 1 : start[k].op = "delete" /\ start[k].document = d
  BY <1>4, <1>6
<1>8. start[Len(start)] = DocumentWrite(d, path, text) /\ Len(start) # 0
  BY <1>6
<1>9. start \o ChunkWrites(d, text) \in Plans
  BY <1>1, <1>6, <1>7, <1>8, DocumentThenChunks
<1> QED BY <1>9 DEF SourcePlan, start, gone, written, path, text

\* The occurrences of one check.
LEMMA OccurrenceWritesArePlan ==
    ASSUME NEW d \in FileSet, NEW text \in Texts, NEW known \in SUBSET Concepts
    PROVE  OccurrenceWrites(d, text, known) \in Plans
<1> DEFINE O == [op : {"occurrence"}, chunk : Chunks, concept : Concepts]
           found(k) == {[op |-> "occurrence", chunk |-> ChunkSeq(d, text)[k], concept |-> c] :
                           c \in Detected(ChunkSeq(d, text)[k], known)}
           n == Len(ChunksOf[text])
           parts == [k \in DOMAIN ChunksOf[text] |-> SetToSeq(found(k))]
<1>1. n \in Nat /\ DOMAIN ChunksOf[text] = 1 .. n
      /\ \A k \in 1 .. n : ChunkSeq(d, text)[k] \in Chunks
  BY ChunkSeqShape
<1>2. \A k \in 1 .. n : SetToSeq(found(k)) \in Seq(O)
  <2> TAKE k \in 1 .. n
  <2> DEFINE D == Detected(ChunkSeq(d, text)[k], known)
             make == [c \in D |-> [op |-> "occurrence", chunk |-> ChunkSeq(d, text)[k],
                                   concept |-> c]]
  <2>1. IsFiniteSet(D) /\ D \subseteq Concepts
    <3>1. D \subseteq Concepts
      BY DEF Detected
    <3> QED BY <3>1, FS_Subset, ChunksAssumption
  <2>2. make \in Surjection(D, found(k))
    BY DEF Surjection
  <2>3. IsFiniteSet(found(k))
    BY <2>1, <2>2, FS_Surjection
  <2>4. found(k) \subseteq O
    BY <1>1, <2>1
  <2>5. SetToSeq(found(k)) \in Seq(found(k))
    BY <2>3, SetToSeqElements
  <2> HIDE DEF found, O
  <2> QED BY <2>4, <2>5, SeqMonotonic
<1>3. parts \in Seq(Seq(O))
  <2> HIDE DEF found, O, n
  <2>1. parts \in [1 .. n -> Seq(O)]
    BY <1>1, <1>2
  <2> HIDE DEF parts
  <2> QED BY <1>1, <2>1, SeqDef
<1>4. FlattenSeq(parts) \in Seq(O)
  <2> HIDE DEF parts, O
  <2>1. <<>> \in Seq(O) /\ \A s, t \in Seq(O) : s \o t \in Seq(O)
    BY EmptySeq, ConcatProperties
  <2> QED BY <1>3, <2>1, FlattenStaysIn
<1>5. OccurrenceWrites(d, text, known) = FlattenSeq(parts)
  BY DEF OccurrenceWrites
<1> QED
  <2> DEFINE s == OccurrenceWrites(d, text, known)
  <2>1. s \in Seq(O)
    BY <1>4, <1>5
  <2>2. \A k \in DOMAIN s : s[k] \in O
    <3> HIDE DEF s, O
    <3> QED BY <2>1, LenProperties, ElementOfSeq
  <2>3. \A k \in DOMAIN s : s[k].op = "occurrence"
    <3> HIDE DEF s
    <3> QED BY <2>2
  <2>4. s \in Seq(Writes)
    <3>1. O \subseteq Writes
      BY DEF Writes
    <3> HIDE DEF s, O
    <3> QED BY <2>1, <3>1, SeqMonotonic
  <2> QED BY <2>3, <2>4, RestIsPlan

\* The issues of one check.
LEMMA IssueWritesArePlan ==
    ASSUME NEW d \in FileSet, NEW text \in Texts, NEW flagged \in SUBSET Concepts
    PROVE  IssueWrites(d, text, flagged) \in Plans
<1> DEFINE O == [op : {"issue"}, issue : Issues, chunks : SUBSET Chunks]
           raised == {x \in flagged : Quoted(d, text, x) # {}}
           found == {[op |-> "issue", issue |-> <<d, c>>, chunks |-> Quoted(d, text, c)] :
                        c \in raised}
           make == [c \in raised |-> [op |-> "issue", issue |-> <<d, c>>,
                                      chunks |-> Quoted(d, text, c)]]
           s == IssueWrites(d, text, flagged)
<1>1. IsFiniteSet(raised) /\ raised \subseteq Concepts
  <2>1. raised \subseteq Concepts
    OBVIOUS
  <2> QED BY <2>1, FS_Subset, ChunksAssumption
<1>2. make \in Surjection(raised, found)
  <2> HIDE DEF raised
  <2> QED BY DEF Surjection
<1>3. IsFiniteSet(found)
  BY <1>1, <1>2, FS_Surjection
<1>4. found \subseteq O
  <2>1. \A c \in raised : Quoted(d, text, c) \subseteq Chunks
    BY ChunkSeqShape DEF Quoted
  <2>2. \A c \in raised : <<d, c>> \in Issues
    BY <1>1 DEF Issues
  <2> HIDE DEF raised
  <2> QED BY <2>1, <2>2
<1>5. s \in Seq(found)
  BY <1>3, SetToSeqElements DEF IssueWrites
<1>6. s \in Seq(O)
  <2> HIDE DEF s, O, found
  <2> QED BY <1>4, <1>5, SeqMonotonic
<1>7. \A k \in DOMAIN s : s[k] \in O
  <2> HIDE DEF s, O
  <2> QED BY <1>6, LenProperties, ElementOfSeq
<1> HIDE DEF s
<1>8. \A k \in DOMAIN s : s[k].op = "issue"
  BY <1>7
<1>9. O \subseteq Writes
  BY DEF Writes
<1>10. s \in Seq(Writes)
  <2> HIDE DEF O
  <2> QED BY <1>6, <1>9, SeqMonotonic
<1> QED BY <1>8, <1>10, RestIsPlan DEF s

LEMMA CheckPlanIsPlan ==
    ASSUME NEW source \in Sources, source.text # None, NEW seen \in Glossaries,
           NEW writes \in BOOLEAN
    PROVE  CheckPlan(source, seen, writes) \in Plans
<1> DEFINE d == source.file
           text == source.text
           written == DocumentWrite(d, source.path, text)
<1>1. d \in FileSet /\ source.path \in Paths /\ text \in Texts
  BY DEF Sources
<1> HIDE DEF d, text
<1>2. <<written>> \in Seq(Writes) /\ Len(<<written>>) = 1 /\ <<written>>[1] = written
  <2>1. written \in Writes
    BY <1>1 DEF Writes, DocumentWrite
  <2> HIDE DEF written
  <2> QED BY <2>1
<1>3. <<written>> \o ChunkWrites(d, text) \in Plans
  <2> DEFINE start == <<written>>
  <2>1. /\ start \in Seq(Writes) /\ Len(start) = 1
        /\ start[1] = DocumentWrite(d, source.path, text)
    BY <1>2
  <2> HIDE DEF start
  <2>2. \A k \in 1 .. Len(start) - 1 : start[k].op = "delete" /\ start[k].document = d
    BY <2>1
  <2>3. start[Len(start)] = DocumentWrite(d, source.path, text) /\ Len(start) # 0
    BY <2>1
  <2>4. PICK path \in Paths : path = source.path
    BY <1>1
  <2>5. start \o ChunkWrites(d, text) \in Plans
    BY <1>1, <2>1, <2>2, <2>3, <2>4, DocumentThenChunks
  <2> QED BY <2>5 DEF start
<1> HIDE DEF written
<1>4. OccurrenceWrites(d, text, Known(seen)) \in Plans
  BY <1>1, OccurrenceWritesArePlan DEF Known
<1>5. IF writes THEN IssueWrites(d, text, Flagged(seen)) \in Plans ELSE <<>> \in Plans
  BY <1>1, IssueWritesArePlan, EmptyIsPlan DEF Flagged
<1>6. (<<written>> \o ChunkWrites(d, text)) \o OccurrenceWrites(d, text, Known(seen))
      \in Plans
  BY <1>3, <1>4, ConcatPlans
<1>7. ((<<written>> \o ChunkWrites(d, text)) \o OccurrenceWrites(d, text, Known(seen)))
      \o (IF writes THEN IssueWrites(d, text, Flagged(seen)) ELSE <<>>) \in Plans
  BY <1>5, <1>6, ConcatPlans
<1> QED BY <1>7 DEF CheckPlan, written, d, text

LEMMA ReconcilePlanIsPlan ==
    ASSUME NEW sources \in Seq(Sources), NEW ids \in [FileSet -> FileSet]
    PROVE  ReconcilePlan(sources, ids) \in Plans
<1> DEFINE n == Len(sources)
           part(k) == IF sources[k].text = None THEN <<>>
                      ELSE SourcePlan(sources[k], ids[sources[k].file])
           parts == [k \in DOMAIN sources |-> part(k)]
           last == <<[op |-> "rebuild"]>>
<1>1. /\ n \in Nat /\ DOMAIN sources = 1 .. n
      /\ \A k \in 1 .. n : sources[k] \in Sources
  BY LenProperties, ElementOfSeq
<1>2. <<>> \in Plans
  BY EmptyIsPlan
<1>3. \A k \in 1 .. n : part(k) \in Plans
  <2> TAKE k \in 1 .. n
  <2>1. sources[k] \in Sources /\ ids[sources[k].file] \in FileSet
    BY <1>1 DEF Sources
  <2> QED BY <1>2, <2>1, SourcePlanIsPlan
<1>4. parts \in Seq(Plans)
  <2> HIDE DEF n, part
  <2>1. parts \in [1 .. n -> Plans]
    BY <1>1, <1>3
  <2> HIDE DEF parts
  <2> QED BY <1>1, <2>1, SeqDef
<1>5. FlattenSeq(parts) \in Plans
  <2> HIDE DEF parts
  <2> QED BY <1>2, <1>4, ConcatPlans, FlattenStaysIn
<1>6. last \in Plans
  <2>1. [op |-> "rebuild"] \in Writes
    BY DEF Writes
  <2>2. last \in Seq(Writes) /\ \A k \in DOMAIN last : last[k].op = "rebuild"
    BY <2>1
  <2> HIDE DEF last
  <2> QED BY <2>2, RestIsPlan
<1>7. FlattenSeq(parts) \o last \in Plans
  BY <1>5, <1>6, ConcatPlans
<1> QED BY <1>7 DEF ReconcilePlan

-----------------------------------------------------------------------------
(***************************************************************************)
(* What is left of a list after its first write.                           *)
(***************************************************************************)
LEMMA TailShape ==
    ASSUME NEW s \in Seq(Writes), s # <<>>
    PROVE  /\ Len(s) \in Nat \ {0} /\ DOMAIN s = 1 .. Len(s) /\ 1 \in DOMAIN s
           /\ Head(s) = s[1] /\ Head(s) \in Writes
           /\ Tail(s) \in Seq(Writes) /\ DOMAIN Tail(s) = 1 .. Len(s) - 1
           /\ \A k \in DOMAIN Tail(s) : k + 1 \in DOMAIN s /\ Tail(s)[k] = s[k + 1]
           /\ \A k \in DOMAIN s : k > 1 => k - 1 \in DOMAIN Tail(s) /\ s[k] = Tail(s)[k - 1]
<1>1. Len(s) \in Nat \ {0} /\ DOMAIN s = 1 .. Len(s)
  BY EmptySeq, LenProperties
<1>2. /\ Head(s) \in Writes /\ Tail(s) \in Seq(Writes) /\ Len(Tail(s)) = Len(s) - 1
      /\ \A k \in 1 .. Len(Tail(s)) : Tail(s)[k] = s[k + 1]
  BY HeadTailProperties
<1>3. Head(s) = s[1]
  OBVIOUS
<1>4. DOMAIN Tail(s) = 1 .. Len(s) - 1
  BY <1>2, LenProperties
<1>5. \A k \in 1 .. Len(s) - 1 : k + 1 \in 1 .. Len(s) /\ Tail(s)[k] = s[k + 1]
  BY <1>1, <1>2
<1>6. \A k \in 1 .. Len(s) : k > 1 => k - 1 \in 1 .. Len(s) - 1 /\ s[k] = Tail(s)[k - 1]
  <2> TAKE k \in 1 .. Len(s)
  <2> HAVE k > 1
  <2>1. k - 1 \in 1 .. Len(s) - 1 /\ (k - 1) + 1 = k
    BY <1>1
  <2> QED BY <1>5, <2>1
<1> QED BY <1>1, <1>2, <1>3, <1>4, <1>5, <1>6

LEMMA TailOrdered ==
    ASSUME NEW s \in Seq(Writes), s # <<>>, Ordered(s)
    PROVE  Ordered(Tail(s))
<1> DEFINE t == Tail(s)
<1>1. /\ \A k \in DOMAIN t : k \in Nat /\ k + 1 \in DOMAIN s /\ t[k] = s[k + 1]
      /\ \A k \in DOMAIN s : k \in Nat
      /\ \A k \in DOMAIN s : k > 1 => k - 1 \in DOMAIN t /\ s[k] = t[k - 1]
  BY TailShape
<1> HIDE DEF t
<1>2. \A k \in DOMAIN t, j \in DOMAIN s : k + 1 < j => j > 1 /\ k < j - 1
  BY <1>1
<1>3. ASSUME NEW k \in DOMAIN t, t[k].op = "delete"
      PROVE  \E j \in DOMAIN t :
                 k < j /\ t[j].op = "document" /\ t[j].document = t[k].document
  <2>1. PICK j \in DOMAIN s :
           k + 1 < j /\ s[j].op = "document" /\ s[j].document = s[k + 1].document
    BY <1>1, <1>3 DEF Ordered
  <2> QED BY <1>1, <1>2, <2>1
<1>4. ASSUME NEW k \in DOMAIN t, t[k].op = "document",
             NEW c \in ChunkSet(t[k].document, t[k].text)
      PROVE  \E j \in DOMAIN t : k < j /\ t[j].op = "chunk" /\ t[j].chunk = c
  <2>1. s[k + 1].op = "document" /\ c \in ChunkSet(s[k + 1].document, s[k + 1].text)
    BY <1>1, <1>4
  <2>2. PICK j \in DOMAIN s : k + 1 < j /\ s[j].op = "chunk" /\ s[j].chunk = c
    BY ZenonT(30), <1>1, <2>1 DEF Ordered
  <2> QED BY <1>1, <1>2, <2>2
<1> QED BY <1>3, <1>4 DEF Ordered, t

LEMMA NothingLeft == Ordered(<<>>) /\ DOMAIN <<>> = {} /\ <<>> \in Seq(Writes)
<1>1. <<>> \in Seq(Writes) /\ Len(<<>>) = 0
  BY EmptySeq
<1>2. DOMAIN <<>> = {}
  BY <1>1, LenProperties
<1> QED BY <1>1, <1>2 DEF Ordered

LEMMA IdleIsARun ==
    /\ Idle \in Runs /\ RunWellFormed(Idle)
    /\ Idle.todo = <<>>
<1>1. <<>> \in Seq(Sources)
  BY EmptySeq
<1> QED BY <1>1, NothingLeft DEF Idle, Runs, RunWellFormed

-----------------------------------------------------------------------------
(***************************************************************************)
(* Steps that write no row.                                                *)
(***************************************************************************)
\* No list gets shorter, and no row changes.
LEMMA QuietStepKeeps ==
    ASSUME IInv, TypeOK', RunsWellFormed', UNCHANGED <<Rows, failed>>,
           \A v \in Workers : run[v].todo = <<>> \/ run'[v].todo = run[v].todo
    PROVE  IInv'
<1>1. UNCHANGED <<documents, chunks, occurrences, evidence>>
  BY DEF Rows
<1>2. RowsPointToRows'
  BY <1>1 DEF IInv, RowsPointToRows
<1>3. \A v \in Workers : \A k \in DOMAIN run[v].todo : run'[v].todo = run[v].todo
  BY NothingLeft
<1>4. \A d : DocumentPending(d) => DocumentPending(d)'
  BY <1>3 DEF DocumentPending
<1>5. \A c : ChunkPending(c) => ChunkPending(c)'
  BY <1>3 DEF ChunkPending
<1>6. ChunksComing'
  <2> SUFFICES ASSUME ~failed, NEW d \in FileSet, documents[d] # None, ~DocumentPending(d)',
                      NEW c \in ChunkSet(d, documents[d].text), c \notin chunks
               PROVE  ChunkPending(c)'
    BY <1>1 DEF ChunksComing
  <2> QED BY <1>4, <1>5 DEF IInv, ChunksComing
<1> QED BY <1>2, <1>6 DEF IInv

\* A run is cut short.
LEMMA AbortKeeps ==
    ASSUME IInv, NEW w \in Workers, Abort(w), UNCHANGED <<Environment, Rows>>
    PROVE  IInv'
<1>1. /\ TypeOK /\ RunsWellFormed /\ RowsPointToRows
      /\ run' = [run EXCEPT ![w] = Idle] /\ failed' = TRUE
      /\ UNCHANGED <<documents, chunks, occurrences, evidence>>
  BY DEF IInv, Abort, Rows
<1>2. TypeOK'
  BY <1>1, IdleIsARun DEF TypeOK, Environment, Rows
<1>3. RunsWellFormed'
  <2> SUFFICES ASSUME NEW v \in Workers PROVE RunWellFormed(run[v])'
    BY DEF RunsWellFormed
  <2>1. run'[v] = Idle \/ run'[v] = run[v]
    BY <1>1 DEF TypeOK
  <2>2. RunWellFormed(run[v]) /\ RunWellFormed(Idle)
    BY <1>1, IdleIsARun DEF RunsWellFormed
  <2> QED BY <1>1, <2>1, <2>2 DEF RunWellFormed
<1>4. RowsPointToRows'
  BY <1>1 DEF RowsPointToRows
<1> QED BY <1>1, <1>2, <1>3, <1>4 DEF IInv, ChunksComing

\* A run differs from before in nothing but whether it is undisturbed.
LEMMA DisturbedRun ==
    ASSUME NEW r \in Runs, RunWellFormed(r), NEW b \in BOOLEAN
    PROVE  /\ [r EXCEPT !.alone = b] \in Runs /\ RunWellFormed([r EXCEPT !.alone = b])
           /\ [r EXCEPT !.alone = b].todo = r.todo
<1> DEFINE q == [r EXCEPT !.alone = b]
<1>1. /\ q \in Runs /\ q.todo = r.todo /\ q.stage = r.stage /\ q.kind = r.kind
      /\ q.sources = r.sources
  BY DEF Runs
<1> HIDE DEF q
<1>2. RunWellFormed(q)
  BY <1>1 DEF RunWellFormed
<1> QED BY <1>1, <1>2 DEF q

LEMMA StartKeeps ==
    ASSUME IInv, NEW w \in Workers, NEW kind \in {"check", "reconcile"},
           NEW sources \in Seq(Sources), NEW writes \in BOOLEAN,
           kind = "check" => Len(sources) = 1 /\ sources[1].text \in Texts,
           Start(w, kind, sources, writes)
    PROVE  IInv'
<1>1. /\ TypeOK /\ RunsWellFormed /\ run[w] = Idle /\ runs < MaxRuns /\ runs' = runs + 1
      /\ UNCHANGED <<files, concepts, changes, Rows, failed>>
  BY DEF IInv, Start
<1> PICK alone \in BOOLEAN : alone = ({v \in Workers : run[v] # Idle} = {})
  OBVIOUS
<1> PICK new \in {[Idle EXCEPT !.stage = "read", !.kind = kind, !.sources = sources,
                               !.writes = writes, !.alone = alone]} : TRUE
  OBVIOUS
<1>2. run' = [v \in Workers |-> IF v = w THEN new ELSE [run[v] EXCEPT !.alone = FALSE]]
  BY Zenon DEF Start
<1>3. /\ new \in Runs /\ new.todo = <<>> /\ new.stage = "read" /\ new.kind = kind
      /\ new.sources = sources
  BY ZenonT(30), NothingLeft DEF Idle, Runs
<1>4. RunWellFormed(new)
  BY <1>3, NothingLeft DEF RunWellFormed
<1>5. \A v \in Workers : /\ run'[v] \in Runs /\ RunWellFormed(run'[v])
                         /\ run[v].todo = <<>> \/ run'[v].todo = run[v].todo
  <2> TAKE v \in Workers
  <2>1. CASE v = w
    BY <1>1, <1>2, <1>3, <1>4, <2>1, IdleIsARun
  <2>2. CASE v # w
    <3>1. run'[v] = [run[v] EXCEPT !.alone = FALSE] /\ run[v] \in Runs
          /\ RunWellFormed(run[v])
      BY <1>1, <1>2, <2>2 DEF TypeOK, RunsWellFormed
    <3> QED BY <3>1, DisturbedRun, ZenonT(40)
  <2> QED BY <2>1, <2>2
<1>6. TypeOK'
  <2>1. run' \in [Workers -> Runs]
    BY <1>2, <1>5
  <2>2. runs' \in 0 .. MaxRuns
    BY <1>1, BoundsAssumption DEF TypeOK
  <2> QED BY <1>1, <2>1, <2>2 DEF TypeOK, Rows
<1>7. RunsWellFormed'
  BY <1>1, <1>5 DEF RunsWellFormed, RunWellFormed, Rows
<1> QED BY <1>1, <1>5, <1>6, <1>7, QuietStepKeeps

LEMMA StartCheckKeeps ==
    ASSUME IInv, NEW w \in Workers, StartCheck(w)
    PROVE  IInv'
<1> PICK f \in FileSet, writes \in BOOLEAN :
       /\ files[f] # None
       /\ \E path \in Spellings[f] :
             Start(w, "check", <<[file |-> f, path |-> path, text |-> files[f]]>>, writes)
  BY DEF StartCheck
<1>1. PICK path \in Spellings[f] :
         Start(w, "check", <<[file |-> f, path |-> path, text |-> files[f]]>>, writes)
  OBVIOUS
<1>2. files[f] \in Texts /\ path \in Paths
  BY DEF IInv, TypeOK, Paths
<1> PICK text \in Texts : text = files[f]
  BY <1>2
<1> PICK source \in {[file |-> f, path |-> path, text |-> text]} : TRUE
  OBVIOUS
<1>3. source \in Sources /\ source.text = text
  BY <1>2 DEF Sources
<1> PICK sources \in {<<source>>} : TRUE
  OBVIOUS
<1>4. sources \in Seq(Sources) /\ Len(sources) = 1 /\ sources[1].text \in Texts
  <2>1. /\ <<source>> \in Seq(Sources) /\ Len(<<source>>) = 1
        /\ <<source>>[1] = source
    BY <1>3
  <2>2. sources = <<source>>
    OBVIOUS
  <2> QED BY <1>3, <2>1, <2>2
<1>5. Start(w, "check", sources, writes)
  BY <1>1
<1> QED BY <1>4, <1>5, StartKeeps

LEMMA StartReconcileKeeps ==
    ASSUME IInv, NEW w \in Workers, StartReconcile(w)
    PROVE  IInv'
<1> PICK sources \in {[k \in DOMAIN Files |-> [file |-> Files[k], path |-> RelPath[Files[k]],
                                              text |-> files[Files[k]]]]} : TRUE
  OBVIOUS
<1>1. Start(w, "reconcile", sources, FALSE)
  BY DEF StartReconcile
<1>2. /\ Len(Files) \in Nat /\ DOMAIN Files = 1 .. Len(Files)
      /\ \A k \in 1 .. Len(Files) : Files[k] \in FileSet
  BY ChunksAssumption, LenProperties, ElementOfSeq
<1>3. \A k \in 1 .. Len(Files) :
         [file |-> Files[k], path |-> RelPath[Files[k]], text |-> files[Files[k]]] \in Sources
  BY <1>2 DEF IInv, TypeOK, Sources, Paths
<1>4. sources \in [1 .. Len(Files) -> Sources]
  BY <1>2, <1>3
<1>5. sources \in Seq(Sources)
  BY <1>2, <1>4, SeqDef
<1> QED BY <1>1, <1>5, StartKeeps

\* The list of things to do is made.
LEMMA ReadDatabaseKeeps ==
    ASSUME IInv, NEW w \in Workers, ReadDatabase(w)
    PROVE  IInv'
<1>1. /\ TypeOK /\ RunsWellFormed /\ run[w].stage = "read" /\ run[w] \in Runs
      /\ RunWellFormed(run[w]) /\ run[w].todo = <<>>
      /\ UNCHANGED <<Environment, Rows, failed>>
  BY DEF IInv, ReadDatabase, TypeOK, RunsWellFormed, RunWellFormed
<1>2. PICK todo \in Plans, seen \in Glossaries \cup {None} : Goto(w, todo, seen)
  <2>1. CASE run[w].kind = "check"
    <3>1. /\ Len(run[w].sources) = 1 /\ run[w].sources[1].text \in Texts
          /\ run[w].sources \in Seq(Sources) /\ run[w].writes \in BOOLEAN
          /\ concepts \in Glossaries
      BY <1>1, <2>1 DEF RunWellFormed, Runs, TypeOK
    <3>2. run[w].sources[1] \in Sources /\ run[w].sources[1].text # None
      BY <3>1, ElementOfSeq, NoneAssumption
    <3>3. CheckPlan(run[w].sources[1], concepts, run[w].writes) \in Plans
      BY <3>1, <3>2, CheckPlanIsPlan
    <3> QED BY <2>1, <3>1, <3>3 DEF ReadDatabase
  <2>2. CASE run[w].kind # "check"
    <3>1. run[w].sources \in Seq(Sources)
      BY <1>1 DEF Runs
    <3>2. PICK ids \in [FileSet -> FileSet] :
             Goto(w, ReconcilePlan(run[w].sources, ids), None)
      BY <2>2 DEF ReadDatabase
    <3> QED BY <3>1, <3>2, ReconcilePlanIsPlan
  <2> QED BY <2>1, <2>2
<1>3. todo \in Seq(Writes) /\ Ordered(todo) /\ Preceded(todo)
  BY DEF Plans
<1> PICK new \in {[run[w] EXCEPT !.stage = "write", !.todo = todo, !.seen = seen]} : TRUE
  OBVIOUS
<1>4. new \in Runs /\ new.todo = todo /\ new.stage = "write"
  BY <1>1, <1>3 DEF Runs
<1>5. RunWellFormed(new)
  BY <1>3, <1>4 DEF RunWellFormed, Preceded
<1>6. run' = [run EXCEPT ![w] = new]
  BY <1>1, <1>2 DEF Goto, TypeOK
<1>7. TypeOK'
  BY <1>1, <1>4, <1>6 DEF TypeOK, Environment, Rows
<1>8. \A v \in Workers : /\ RunWellFormed(run'[v])
                         /\ run[v].todo = <<>> \/ run'[v].todo = run[v].todo
  BY <1>1, <1>5, <1>6 DEF TypeOK, RunsWellFormed
<1>9. RunsWellFormed'
  BY <1>1, <1>8 DEF RunsWellFormed, RunWellFormed, Rows
<1> QED BY <1>1, <1>7, <1>8, <1>9, QuietStepKeeps

LEMMA FinishKeeps ==
    ASSUME IInv, NEW w \in Workers, Finish(w)
    PROVE  IInv'
<1>1. /\ TypeOK /\ RunsWellFormed /\ run[w].todo = <<>> /\ run' = [run EXCEPT ![w] = Idle]
      /\ UNCHANGED <<Environment, Rows, failed>>
  BY DEF IInv, Finish
<1>2. TypeOK'
  BY <1>1, IdleIsARun DEF TypeOK, Environment, Rows
<1>3. \A v \in Workers : /\ RunWellFormed(run'[v])
                         /\ run[v].todo = <<>> \/ run'[v].todo = run[v].todo
  BY <1>1, IdleIsARun DEF TypeOK, RunsWellFormed
<1>4. RunsWellFormed'
  BY <1>1, <1>3 DEF RunsWellFormed, RunWellFormed, Rows
<1> QED BY <1>1, <1>2, <1>3, <1>4, QuietStepKeeps

\* Files and concepts are edited.
LEMMA EditsKeep ==
    ASSUME IInv, (\E f \in FileSet : EditFile(f)) \/ (\E c \in Concepts : EditConcept(c))
    PROVE  IInv'
<1>1. TypeOK /\ RunsWellFormed
  BY DEF IInv
<1>2. Disturb /\ UNCHANGED <<runs, Rows, failed>>
  BY DEF EditFile, EditConcept
<1>3. \A v \in Workers : /\ run'[v] \in Runs /\ RunWellFormed(run'[v])
                         /\ run'[v].todo = run[v].todo
  <2> TAKE v \in Workers
  <2>1. run'[v] = [run[v] EXCEPT !.alone = FALSE] /\ run[v] \in Runs /\ RunWellFormed(run[v])
    BY <1>1, <1>2 DEF Disturb, TypeOK, RunsWellFormed
  <2> QED BY <2>1, DisturbedRun
<1>4. TypeOK'
  <2>1. run' \in [Workers -> Runs]
    BY <1>2, <1>3 DEF Disturb
  <2>2. /\ files' \in [FileSet -> Texts \cup {None}] /\ concepts' \in Glossaries
        /\ changes' \in 0 .. MaxChanges
    BY <1>1, BoundsAssumption DEF EditFile, EditConcept, TypeOK, Glossaries
  <2> QED BY <1>1, <1>2, <2>1, <2>2 DEF TypeOK, Rows
<1>5. RunsWellFormed'
  BY <1>2, <1>3 DEF RunsWellFormed, RunWellFormed, Rows
<1> QED BY <1>2, <1>3, <1>4, <1>5, QuietStepKeeps

-----------------------------------------------------------------------------
(***************************************************************************)
(* The writes.                                                             *)
(***************************************************************************)
\* What is known before a write, and what the list is after it.
LEMMA WriteShape ==
    ASSUME IInv, NEW w \in Workers, run[w].todo # <<>>, Done(w)
    PROVE  /\ TypeOK /\ RunsWellFormed /\ RowsPointToRows /\ ChunksComing
           /\ run[w].todo \in Seq(Writes) /\ Head(run[w].todo) \in Writes
           /\ run' \in [Workers -> Runs] /\ failed' = failed
           /\ run'[w].todo = Tail(run[w].todo)
           /\ run'[w].stage = run[w].stage /\ run'[w].kind = run[w].kind
           /\ run'[w].sources = run[w].sources
           /\ \A v \in Workers \ {w} : run'[v] = run[v]
<1>1. TypeOK /\ run[w] \in Runs /\ run[w].todo \in Seq(Writes)
  BY DEF IInv, TypeOK, Runs
<1>2. Head(run[w].todo) \in Writes /\ Tail(run[w].todo) \in Seq(Writes)
  BY <1>1, TailShape
<1> PICK new \in {[run[w] EXCEPT !.todo = Tail(run[w].todo)]} : TRUE
  OBVIOUS
<1>3. /\ new \in Runs /\ new.todo = Tail(run[w].todo) /\ new.stage = run[w].stage
      /\ new.kind = run[w].kind /\ new.sources = run[w].sources
  BY <1>1, <1>2 DEF Runs
<1>4. run' = [run EXCEPT ![w] = new] /\ failed' = failed
  BY <1>1 DEF Done, TypeOK
<1> QED BY <1>1, <1>2, <1>3, <1>4 DEF IInv, TypeOK

\* Lists stay in order if documents stay, and the one that is written is there.
LEMMA WriteKeepsRuns ==
    ASSUME IInv, NEW w \in Workers, run[w].todo # <<>>, Done(w),
           \A d \in FileSet : documents[d] # None => documents'[d] # None,
           Head(run[w].todo).op = "document" =>
               documents'[Head(run[w].todo).document] # None
    PROVE  RunsWellFormed'
<1> SUFFICES ASSUME NEW v \in Workers PROVE RunWellFormed(run[v])'
  BY DEF RunsWellFormed
<1>1. /\ RunWellFormed(run[v]) /\ run[v].todo \in Seq(Writes)
      /\ \A k \in DOMAIN run[v].todo : run[v].todo[k].op = "chunk" =>
            run[v].todo[k].chunk.document \in FileSet
  <2>1. RunWellFormed(run[v]) /\ run[v].todo \in Seq(Writes)
    BY WriteShape DEF RunsWellFormed, TypeOK, Runs
  <2>2. \A k \in DOMAIN run[v].todo : run[v].todo[k] \in Writes
    BY <2>1, LenProperties, ElementOfSeq
  <2> QED BY <2>1, <2>2, WriteKinds DEF Chunks
<1>2. CASE v # w
  <2>1. run'[v] = run[v]
    BY <1>2, WriteShape
  <2> QED BY <1>1, <2>1 DEF RunWellFormed
<1>3. CASE v = w
  <2> PICK s \in {run[w].todo} : TRUE
    OBVIOUS
  <2> PICK t \in {Tail(s)} : TRUE
    OBVIOUS
  <2>1. /\ run'[w].todo = t /\ run'[w].stage = run[w].stage /\ run'[w].kind = run[w].kind
        /\ run'[w].sources = run[w].sources
    BY WriteShape
  <2>2. Ordered(t)
    BY <1>1, <1>3, TailOrdered DEF RunWellFormed
  <2>3. /\ \A k \in DOMAIN t : k \in Nat /\ k + 1 \in DOMAIN s /\ t[k] = s[k + 1]
        /\ \A k \in DOMAIN s : k \in Nat
        /\ \A k \in DOMAIN s : k > 1 => k - 1 \in DOMAIN t /\ s[k] = t[k - 1]
        /\ Head(s) = s[1]
    <3>1. s \in Seq(Writes) /\ s # <<>>
      BY <1>1, <1>3
    <3> QED BY <3>1, TailShape
  <2>4. ASSUME NEW k \in DOMAIN t, t[k].op = "chunk"
        PROVE  documents'[t[k].chunk.document] # None \/ WrittenBefore(t, k)
    <3>1. s[k + 1].op = "chunk" /\ k + 1 \in DOMAIN s /\ s[k + 1] = t[k]
          /\ s[k + 1].chunk.document \in FileSet
      BY <1>1, <1>3, <2>3, <2>4
    <3>2. documents[s[k + 1].chunk.document] # None \/ WrittenBefore(s, k + 1)
      BY <1>1, <1>3, <3>1 DEF RunWellFormed
    <3>3. CASE documents[s[k + 1].chunk.document] # None
      BY <3>1, <3>3
    <3>4. CASE WrittenBefore(s, k + 1)
      <4>1. PICK j \in DOMAIN s : /\ j < k + 1 /\ s[j].op = "document"
                                  /\ s[j].document = s[k + 1].chunk.document
        BY <3>4 DEF WrittenBefore
      <4>2. CASE j = 1
        BY <2>3, <3>1, <4>1, <4>2
      <4>3. CASE j # 1
        <5>1. j > 1 /\ j - 1 < k
          <6>1. j \in Nat /\ j # 0
            BY <1>1, <1>3, <4>1, TailShape
          <6> QED BY <2>3, <4>1, <4>3, <6>1
        <5> QED BY <2>3, <3>1, <4>1, <5>1 DEF WrittenBefore
      <4> QED BY <4>2, <4>3
    <3> QED BY <3>2, <3>3, <3>4
  <2>5. run[w].stage # "write" => run[w].todo = <<>>
    BY <1>1, <1>3 DEF RunWellFormed
  <2>6. run[w].stage = "write"
    BY <2>5
  <2> QED BY <1>3, <2>1, <2>2, <2>4, <2>6 DEF RunWellFormed
<1> QED BY <1>2, <1>3

\* What is to be written is still to be written, but for the first write of w.
LEMMA StillPending ==
    ASSUME IInv, NEW w \in Workers, run[w].todo # <<>>, Done(w),
           NEW todo, todo = run[w].todo, NEW x
    PROVE  /\ \A k \in DOMAIN todo : k > 1 =>
                 /\ todo[k].op = "document" /\ todo[k].document = x => DocumentPending(x)'
                 /\ todo[k].op = "chunk" /\ todo[k].chunk = x => ChunkPending(x)'
           /\ DocumentPending(x) =>
                 DocumentPending(x)' \/ (Head(todo).op = "document" /\ Head(todo).document = x)
           /\ ChunkPending(x) =>
                 ChunkPending(x)' \/ (Head(todo).op = "chunk" /\ Head(todo).chunk = x)
<1>1. /\ todo \in Seq(Writes) /\ run'[w].todo = Tail(todo)
      /\ \A v \in Workers \ {w} : run'[v] = run[v]
  BY WriteShape
<1>2. /\ \A k \in DOMAIN todo : k > 1 => k - 1 \in DOMAIN Tail(todo)
                                          /\ todo[k] = Tail(todo)[k - 1]
      /\ Head(todo) = todo[1] /\ \A k \in DOMAIN todo : k = 1 \/ k > 1
  BY <1>1, TailShape
<1>3. \A k \in DOMAIN todo : k > 1 =>
         \E j \in DOMAIN run'[w].todo : run'[w].todo[j] = todo[k]
  BY <1>1, <1>2
<1>4. \A k \in DOMAIN todo : k > 1 =>
         /\ todo[k].op = "document" /\ todo[k].document = x => DocumentPending(x)'
         /\ todo[k].op = "chunk" /\ todo[k].chunk = x => ChunkPending(x)'
  BY <1>3 DEF DocumentPending, ChunkPending
<1>5. \A v \in Workers \ {w} : run'[v].todo = run[v].todo
  BY <1>1
<1>6. ASSUME DocumentPending(x)
      PROVE  DocumentPending(x)' \/ (Head(todo).op = "document" /\ Head(todo).document = x)
  <2>1. PICK v \in Workers : \E k \in DOMAIN run[v].todo :
           run[v].todo[k].op = "document" /\ run[v].todo[k].document = x
    BY <1>6 DEF DocumentPending
  <2>2. CASE v # w
    <3>1. \E k \in DOMAIN run'[v].todo :
             run'[v].todo[k].op = "document" /\ run'[v].todo[k].document = x
      BY <1>5, <2>1, <2>2
    <3>2. DocumentPending(x)'
      BY <3>1 DEF DocumentPending
    <3> QED BY <3>2
  <2>3. CASE v = w
    <3>1. PICK k \in DOMAIN todo : todo[k].op = "document" /\ todo[k].document = x
      BY <2>1, <2>3
    <3> QED BY <1>2, <1>4, <3>1
  <2> QED BY <2>2, <2>3
<1>7. ASSUME ChunkPending(x)
      PROVE  ChunkPending(x)' \/ (Head(todo).op = "chunk" /\ Head(todo).chunk = x)
  <2>1. PICK v \in Workers : \E k \in DOMAIN run[v].todo :
           run[v].todo[k].op = "chunk" /\ run[v].todo[k].chunk = x
    BY <1>7 DEF ChunkPending
  <2>2. CASE v # w
    <3>1. \E k \in DOMAIN run'[v].todo :
             run'[v].todo[k].op = "chunk" /\ run'[v].todo[k].chunk = x
      BY <1>5, <2>1, <2>2
    <3>2. ChunkPending(x)'
      BY <3>1 DEF ChunkPending
    <3> QED BY <3>2
  <2>3. CASE v = w
    <3>1. PICK k \in DOMAIN todo : todo[k].op = "chunk" /\ todo[k].chunk = x
      BY <2>1, <2>3
    <3> QED BY <1>2, <1>4, <3>1
  <2> QED BY <2>2, <2>3
<1> QED BY <1>4, <1>6, <1>7

LEMMA WriteDocumentKeeps ==
    ASSUME IInv, NEW w \in Workers, WriteDocument(w)
    PROVE  IInv'
<1> PICK todo \in {run[w].todo} : TRUE
  OBVIOUS
<1> PICK write \in {Head(todo)} : TRUE
  OBVIOUS
<1>1. /\ run[w].todo # <<>> /\ write.op = "document" /\ Done(w)
      /\ documents' = [documents EXCEPT ![write.document] =
                          [path |-> write.path, text |-> write.text]]
      /\ UNCHANGED <<Environment, chunks, occurrences, evidence, search>>
  BY DEF WriteDocument, Does
<1>2. /\ TypeOK /\ RowsPointToRows /\ ChunksComing /\ run' \in [Workers -> Runs]
      /\ failed' = failed /\ write \in Writes /\ run[w].todo \in Seq(Writes)
      /\ RunsWellFormed
  BY <1>1, WriteShape
<1>3. write.document \in FileSet /\ write.path \in Paths /\ write.text \in Texts
  BY <1>1, <1>2, WriteKinds
<1> PICK row \in {[path |-> write.path, text |-> write.text]} : TRUE
  OBVIOUS
<1>4. row \in DocumentRows /\ row # None /\ row.text = write.text
  BY <1>3, NoneAssumption DEF DocumentRows
<1>5. /\ documents' \in [FileSet -> DocumentRows \cup {None}]
      /\ documents'[write.document] = row
      /\ \A d \in FileSet \ {write.document} : documents'[d] = documents[d]
  BY <1>1, <1>2, <1>3, <1>4 DEF TypeOK
<1>6. TypeOK'
  BY <1>1, <1>2, <1>5 DEF TypeOK, Environment
<1>7. RunsWellFormed'
  BY <1>1, <1>3, <1>4, <1>5, WriteKeepsRuns
<1>8. RowsPointToRows'
  <2>1. \A c \in chunks : c.document \in FileSet
    BY <1>2 DEF TypeOK, Chunks
  <2> QED BY <1>1, <1>2, <1>4, <1>5, <2>1 DEF RowsPointToRows
<1>9. ChunksComing'
  <2> SUFFICES ASSUME ~failed, NEW d \in FileSet, documents'[d] # None,
                      ~DocumentPending(d)',
                      NEW c \in ChunkSet(d, documents'[d].text), c \notin chunks
               PROVE  ChunkPending(c)'
    BY <1>1, <1>2 DEF ChunksComing
  <2>1. CASE d = write.document
    <3>1. PICK k \in DOMAIN run[w].todo :
             k > 1 /\ run[w].todo[k].op = "chunk" /\ run[w].todo[k].chunk = c
      <4>1. Ordered(run[w].todo)
        BY <1>2 DEF RunsWellFormed, RunWellFormed
      <4>2. 1 \in DOMAIN run[w].todo /\ run[w].todo[1] = write
        BY <1>1, <1>2, TailShape
      <4>3. c \in ChunkSet(write.document, write.text)
        BY <1>4, <1>5, <2>1
      <4> QED BY SMTT(30), <1>1, <4>1, <4>2, <4>3 DEF Ordered
    <3> QED BY <1>1, <3>1, StillPending
  <2>2. CASE d # write.document
    <3>1. documents[d] = documents'[d]
      BY <1>5, <2>2
    <3>2. ~DocumentPending(d)
      BY <1>1, <2>2, StillPending
    <3>3. ChunkPending(c)
      BY <1>2, <3>1, <3>2 DEF ChunksComing
    <3> QED BY <1>1, <3>3, StillPending
  <2> QED BY <2>1, <2>2
<1> QED BY <1>6, <1>7, <1>8, <1>9 DEF IInv

LEMMA WriteChunkKeeps ==
    ASSUME IInv, NEW w \in Workers, WriteChunk(w)
    PROVE  IInv'
<1> PICK todo \in {run[w].todo} : TRUE
  OBVIOUS
<1> PICK write \in {Head(todo)} : TRUE
  OBVIOUS
<1>1. /\ run[w].todo # <<>> /\ write.op = "chunk" /\ Done(w)
      /\ chunks' = chunks \cup {write.chunk}
      /\ UNCHANGED <<Environment, documents, occurrences, evidence, search>>
  BY DEF WriteChunk, Does
<1>2. /\ TypeOK /\ RowsPointToRows /\ ChunksComing /\ run' \in [Workers -> Runs]
      /\ failed' = failed /\ write \in Writes /\ run[w].todo \in Seq(Writes)
      /\ RunsWellFormed
  BY <1>1, WriteShape
<1>3. write.chunk \in Chunks
  BY <1>1, <1>2, WriteKinds
<1>4. documents[write.chunk.document] # None
  <2>1. 1 \in DOMAIN run[w].todo /\ run[w].todo[1] = write
        /\ \A j \in DOMAIN run[w].todo : ~(j < 1)
    BY <1>1, <1>2, TailShape
  <2> QED BY <1>1, <1>2, <2>1 DEF RunsWellFormed, RunWellFormed, WrittenBefore
<1>5. TypeOK'
  BY <1>1, <1>2, <1>3 DEF TypeOK, Environment
<1>6. RunsWellFormed'
  BY <1>1, WriteKeepsRuns
<1>7. RowsPointToRows'
  BY <1>1, <1>2, <1>4 DEF RowsPointToRows
<1>8. ChunksComing'
  <2> SUFFICES ASSUME ~failed, NEW d \in FileSet, documents[d] # None,
                      ~DocumentPending(d)',
                      NEW c \in ChunkSet(d, documents[d].text), c \notin chunks'
               PROVE  ChunkPending(c)'
    BY <1>1, <1>2 DEF ChunksComing
  <2>1. ~DocumentPending(d) /\ c # write.chunk
    BY <1>1, StillPending
  <2>2. ChunkPending(c)
    BY <1>1, <1>2, <2>1 DEF ChunksComing
  <2> QED BY <1>1, <2>1, <2>2, StillPending
<1> QED BY <1>5, <1>6, <1>7, <1>8 DEF IInv

\* A write that leaves documents and chunks alone.
LEMMA OtherWriteKeeps ==
    ASSUME IInv, NEW w \in Workers, run[w].todo # <<>>, Done(w), TypeOK', RowsPointToRows',
           Head(run[w].todo).op \notin {"document", "chunk"},
           UNCHANGED <<documents, chunks>>
    PROVE  IInv'
<1>1. ChunksComing /\ failed' = failed
  BY WriteShape
<1>2. RunsWellFormed'
  BY WriteKeepsRuns
<1>3. ChunksComing'
  <2> SUFFICES ASSUME ~failed, NEW d \in FileSet, documents[d] # None,
                      ~DocumentPending(d)',
                      NEW c \in ChunkSet(d, documents[d].text), c \notin chunks
               PROVE  ChunkPending(c)'
    BY <1>1 DEF ChunksComing
  <2>1. ~DocumentPending(d)
    BY StillPending
  <2>2. ChunkPending(c)
    BY <1>1, <2>1 DEF ChunksComing
  <2> QED BY <2>2, StillPending
<1> QED BY <1>2, <1>3 DEF IInv

LEMMA WriteOccurrenceKeeps ==
    ASSUME IInv, NEW w \in Workers, WriteOccurrence(w)
    PROVE  IInv'
<1> PICK todo \in {run[w].todo} : TRUE
  OBVIOUS
<1> PICK write \in {Head(todo)} : TRUE
  OBVIOUS
<1>1. /\ run[w].todo # <<>> /\ write.op = "occurrence"
      /\ UNCHANGED <<Environment, documents, chunks, evidence, search>>
  BY DEF WriteOccurrence, Does
<1>2. CASE write.chunk \in chunks /\ concepts[write.concept] # None
  <2>1. /\ Done(w)
        /\ occurrences' = occurrences \cup {[chunk |-> write.chunk, concept |-> write.concept]}
    BY <1>2 DEF WriteOccurrence
  <2>2. /\ TypeOK /\ RowsPointToRows /\ run' \in [Workers -> Runs] /\ failed' = failed
        /\ write.chunk \in Chunks /\ write.concept \in Concepts
    BY <1>1, <2>1, WriteShape, WriteKinds
  <2>3. TypeOK'
    BY <1>1, <2>1, <2>2 DEF TypeOK, Environment
  <2>4. RowsPointToRows'
    BY <1>1, <1>2, <2>1, <2>2 DEF RowsPointToRows
  <2> QED BY <1>1, <2>1, <2>3, <2>4, OtherWriteKeeps
<1>3. CASE ~(write.chunk \in chunks /\ concepts[write.concept] # None)
  <2>1. Abort(w) /\ UNCHANGED occurrences
    BY <1>3 DEF WriteOccurrence
  <2> QED BY <1>1, <2>1, AbortKeeps DEF Rows
<1> QED BY <1>2, <1>3

LEMMA WriteIssueKeeps ==
    ASSUME IInv, NEW w \in Workers, WriteIssue(w)
    PROVE  IInv'
<1> PICK todo \in {run[w].todo} : TRUE
  OBVIOUS
<1> PICK write \in {Head(todo)} : TRUE
  OBVIOUS
<1>1. /\ run[w].todo # <<>> /\ write.op = "issue"
      /\ UNCHANGED <<Environment, documents, chunks, occurrences, search>>
  BY DEF WriteIssue, Does
<1>2. CASE concepts[write.issue[2]] # None /\ write.chunks \subseteq chunks
  <2>1. Done(w) /\ evidence' = [evidence EXCEPT ![write.issue] = write.chunks]
    BY <1>2 DEF WriteIssue
  <2>2. /\ TypeOK /\ RowsPointToRows /\ run' \in [Workers -> Runs] /\ failed' = failed
        /\ write.issue \in Issues /\ write.chunks \in SUBSET Chunks
    BY <1>1, <2>1, WriteShape, WriteKinds
  <2>3. TypeOK'
    BY <1>1, <2>1, <2>2 DEF TypeOK, Environment
  <2>4. RowsPointToRows'
    BY <1>1, <1>2, <2>1, <2>2 DEF RowsPointToRows, TypeOK
  <2> QED BY <1>1, <2>1, <2>3, <2>4, OtherWriteKeeps
<1>3. CASE ~(concepts[write.issue[2]] # None /\ write.chunks \subseteq chunks)
  <2>1. Abort(w) /\ UNCHANGED evidence
    BY <1>3 DEF WriteIssue
  <2> QED BY <1>1, <2>1, AbortKeeps DEF Rows
<1> QED BY <1>2, <1>3

\* The chunks of a document are deleted, and all that refers to them: the
\* document is going to be written again.
LEMMA DeleteRowsKeeps ==
    ASSUME IInv, NEW w \in Workers, DeleteRows(w)
    PROVE  IInv'
<1> PICK todo \in {run[w].todo} : TRUE
  OBVIOUS
<1> PICK write \in {Head(todo)} : TRUE
  OBVIOUS
<1> PICK gone \in {{c \in chunks : c.document = write.document}} : TRUE
  OBVIOUS
<1>1. /\ run[w].todo # <<>> /\ write.op = "delete" /\ Done(w)
      /\ chunks' = chunks \ gone
      /\ occurrences' = {o \in occurrences : o.chunk \notin gone}
      /\ evidence' = [i \in Issues |->
                         IF evidence[i] = None THEN None ELSE evidence[i] \ gone]
      /\ UNCHANGED <<Environment, documents, search>>
  BY DEF DeleteRows, Does
<1>2. /\ TypeOK /\ RowsPointToRows /\ ChunksComing /\ run' \in [Workers -> Runs]
      /\ failed' = failed /\ write \in Writes /\ todo \in Seq(Writes)
      /\ RunsWellFormed
  BY <1>1, WriteShape
<1>3. write.document \in FileSet
  BY <1>1, <1>2, WriteKinds
<1>4. TypeOK'
  <2>1. \A i \in Issues : evidence'[i] \in (SUBSET Chunks) \cup {None}
    BY <1>1, <1>2 DEF TypeOK
  <2>2. evidence' \in [Issues -> (SUBSET Chunks) \cup {None}]
    BY <1>1, <2>1
  <2> QED BY <1>1, <1>2, <2>2 DEF TypeOK, Environment
<1>5. RunsWellFormed'
  BY <1>1, WriteKeepsRuns
<1>6. RowsPointToRows'
  BY <1>1, <1>2 DEF RowsPointToRows
<1>7. ChunksComing'
  <2> SUFFICES ASSUME ~failed, NEW d \in FileSet, documents[d] # None,
                      ~DocumentPending(d)',
                      NEW c \in ChunkSet(d, documents[d].text), c \notin chunks'
               PROVE  ChunkPending(c)'
    BY <1>1, <1>2 DEF ChunksComing
  <2>1. d # write.document
    <3>1. 1 \in DOMAIN todo /\ todo[1] = write /\ Ordered(todo)
      BY <1>1, <1>2, TailShape DEF RunsWellFormed, RunWellFormed
    <3>2. PICK k \in DOMAIN todo :
             1 < k /\ todo[k].op = "document" /\ todo[k].document = write.document
      BY <1>1, <3>1 DEF Ordered
    <3> QED BY <1>1, <3>2, StillPending
  <2>2. ~DocumentPending(d)
    BY <1>1, StillPending
  <2>3. c \in chunks \/ ChunkPending(c)
    BY <1>2, <2>2 DEF ChunksComing
  <2>4. c \notin gone
    <3>1. documents[d].text \in Texts
      BY <1>2 DEF TypeOK, DocumentRows
    <3>2. c.document = d
      BY <3>1, ChunkSeqShape
    <3> QED BY <2>1, <3>2
  <2>5. ChunkPending(c)
    BY <1>1, <2>3, <2>4
  <2> QED BY <1>1, <2>5, StillPending
<1> QED BY <1>4, <1>5, <1>6, <1>7 DEF IInv

LEMMA RebuildSearchKeeps ==
    ASSUME IInv, NEW w \in Workers, RebuildSearch(w)
    PROVE  IInv'
<1> PICK todo \in {run[w].todo} : TRUE
  OBVIOUS
<1>1. /\ run[w].todo # <<>> /\ Head(todo).op = "rebuild" /\ Done(w)
      /\ UNCHANGED <<Environment, documents, chunks, occurrences, evidence>>
  BY DEF RebuildSearch, Does
<1>2. TypeOK /\ RowsPointToRows /\ run' \in [Workers -> Runs] /\ failed' = failed
  BY <1>1, WriteShape
<1>3. search' \subseteq [document : FileSet, chunk : Chunks \cup {None}]
  <2> PICK empty \in SUBSET FileSet :
         search' = {[document |-> c.document, chunk |-> c] : c \in chunks}
                   \cup {[document |-> d, chunk |-> None] : d \in empty}
    BY DEF RebuildSearch
  <2>1. \A c \in chunks : c \in Chunks /\ c.document \in FileSet
    BY <1>2 DEF TypeOK, Chunks
  <2> QED BY <2>1
<1>4. TypeOK'
  BY <1>1, <1>2, <1>3 DEF TypeOK, Environment
<1>5. RowsPointToRows'
  BY <1>1, <1>2 DEF RowsPointToRows
<1> QED BY <1>1, <1>4, <1>5, OtherWriteKeeps

-----------------------------------------------------------------------------
(***************************************************************************)
(* The invariant, and what it gives.                                       *)
(***************************************************************************)
LEMMA InitEstablishes ==
    ASSUME Init
    PROVE  IInv
<1>1. TypeOK
  <2>1. run \in [Workers -> Runs]
    BY IdleIsARun DEF Init
  <2>2. runs \in 0 .. MaxRuns /\ changes \in 0 .. MaxChanges
    BY BoundsAssumption DEF Init
  <2>3. files \in [FileSet -> Texts \cup {None}]
    BY DEF Init
  <2>4. concepts \in Glossaries
    BY DEF Init, Glossaries
  <2>5. /\ documents \in [FileSet -> DocumentRows \cup {None}]
        /\ evidence \in [Issues -> (SUBSET Chunks) \cup {None}]
    <3>1. documents = [d \in FileSet |-> None] /\ evidence = [i \in Issues |-> None]
      BY DEF Init
    <3> QED BY <3>1
  <2>6. /\ chunks \subseteq Chunks
        /\ occurrences \subseteq [chunk : Chunks, concept : Concepts]
        /\ search \subseteq [document : FileSet, chunk : Chunks \cup {None}]
        /\ failed \in BOOLEAN
    BY DEF Init
  <2> QED BY <2>1, <2>2, <2>3, <2>4, <2>5, <2>6 DEF TypeOK
<1>2. RunsWellFormed
  BY IdleIsARun DEF Init, RunsWellFormed
<1>3. RowsPointToRows
  BY DEF Init, RowsPointToRows
<1>4. ChunksComing
  BY DEF Init, ChunksComing
<1> QED BY <1>1, <1>2, <1>3, <1>4 DEF IInv

LEMMA NextKeeps ==
    ASSUME IInv, [Next]_vars
    PROVE  IInv'
<1>1. CASE UNCHANGED vars
  <2>1. UNCHANGED <<files, concepts, runs, changes, run, Rows, failed>>
    BY <1>1 DEF vars, Rows
  <2>2. TypeOK'
    BY <2>1 DEF IInv, TypeOK, Rows
  <2>3. RunsWellFormed'
    BY <2>1 DEF IInv, RunsWellFormed, RunWellFormed, Rows
  <2> QED BY <2>1, <2>2, <2>3, QuietStepKeeps
<1>2. ASSUME NEW w \in Workers, Write(w) PROVE IInv'
  BY <1>2, WriteDocumentKeeps, WriteChunkKeeps, WriteOccurrenceKeeps, WriteIssueKeeps,
     DeleteRowsKeeps, RebuildSearchKeeps
  DEF Write
<1>3. ASSUME NEW w \in Workers,
             \/ StartCheck(w) \/ StartReconcile(w) \/ CatchUp(w)
             \/ ReadDatabase(w) \/ Finish(w) \/ Crash(w)
      PROVE  IInv'
  BY <1>3, StartCheckKeeps, StartReconcileKeeps, ReadDatabaseKeeps, FinishKeeps, AbortKeeps
  DEF CatchUp, Crash
<1> QED BY <1>1, <1>2, <1>3, EditsKeep DEF Next

\* The inductive invariant of all runs: what a document lacks is still to come.
THEOREM DocumentIndexInvariant == Spec => []IInv
<1>1. Init => IInv
  BY InitEstablishes
<1>2. IInv /\ [Next]_vars => IInv'
  BY NextKeeps
<1> QED BY <1>1, <1>2, PTL DEF Spec

\* Every variable has its type, the lists of things to do included.
THEOREM DocumentIndexTypeCorrect == Spec => []TypeOK
<1>1. IInv => TypeOK
  BY DEF IInv
<1> QED BY <1>1, DocumentIndexInvariant, PTL

\* Nothing refers to a row that is gone, whichever checks and reconciles
\* overlap, die or break a foreign key (storage/repositories).
THEOREM RowsKeepTheirRows == Spec => []RowsPointToRows
<1>1. IInv => RowsPointToRows
  BY DEF IInv
<1> QED BY <1>1, DocumentIndexInvariant, PTL

\* When all runs have ended and none was cut short, every document has all the
\* chunks of the text its hash is of, although check_document and
\* reconcile_project write them in transactions of their own.
THEOREM QuietIndexIsComplete == Spec => []QuietIndexComplete
<1>1. ASSUME IInv PROVE QuietIndexComplete
  <2> SUFFICES ASSUME \A w \in Workers : run[w] = Idle, ~failed,
                      NEW d \in FileSet, documents[d] # None,
                      NEW c \in ChunkSet(d, documents[d].text)
               PROVE  c \in chunks
    BY DEF QuietIndexComplete
  <2>1. \A w \in Workers : DOMAIN run[w].todo = {}
    BY IdleIsARun, NothingLeft
  <2>2. ~DocumentPending(d) /\ ~ChunkPending(c)
    BY <2>1 DEF DocumentPending, ChunkPending
  <2> QED BY <1>1, <2>2 DEF IInv, ChunksComing
<1> QED BY <1>1, DocumentIndexInvariant, PTL
-----------------------------------------------------------------------------
(***************************************************************************)
(* A run that nothing disturbed.                                           *)
(***************************************************************************)
\* What a write is for is there.
Holds(x) ==
    /\ x.op = "document" => documents[x.document] = [path |-> x.path, text |-> x.text]
    /\ x.op = "chunk" => x.chunk \in chunks
    /\ x.op = "occurrence" => [chunk |-> x.chunk, concept |-> x.concept] \in occurrences
    /\ x.op = "issue" => evidence[x.issue] = x.chunks

\* What a check of this source writes, in whatever order.
CheckWrites(source, seen, writes) ==
    LET stored == ChunkSet(source.file, source.text)
        raised == {x \in Flagged(seen) : Quoted(source.file, source.text, x) # {}}
    IN  {DocumentWrite(source.file, source.path, source.text)}
        \cup {[op |-> "chunk", chunk |-> c] : c \in stored}
        \cup {x \in [op : {"occurrence"}, chunk : stored, concept : Known(seen)] :
                 x.concept \in Mentions[x.chunk.text]}
        \cup {[op |-> "issue", issue |-> <<source.file, c>>,
               chunks |-> Quoted(source.file, source.text, c)] :
                 c \in {x \in raised : writes}}

\* Everything the check had to write is written, or on its list.
CheckOnCourse(r) ==
    r.kind = "check" /\ r.stage = "write" =>
        /\ Len(r.sources) = 1 /\ r.sources[1].text \in Texts /\ r.seen \in Glossaries
        /\ LET all == CheckWrites(r.sources[1], r.seen, r.writes)
           IN  /\ Range(r.todo) \subseteq all
               /\ \A x \in all : x \in Range(r.todo) \/ Holds(x)

\* The search rows are the chunks, and the documents that have none.
SearchIsCurrent ==
    search = {[document |-> c.document, chunk |-> c] : c \in chunks}
             \cup {[document |-> d, chunk |-> None] :
                      d \in {e \in FileSet : documents[e] # None
                                             /\ \A c \in chunks : c.document # e}}

\* What the list of a reconcile says is what the files say.
ReconcileWrite(x) ==
    /\ x.op \in {"delete", "document", "chunk", "rebuild"}
    /\ x.op = "document" => x.path = RelPath[x.document] /\ x.text = files[x.document]
    /\ x.op = "chunk" => /\ files[x.chunk.document] # None
                         /\ x.chunk \in ChunkSet(x.chunk.document, files[x.chunk.document])

\* A file's old rows are still to be deleted, or its rows are those of its text
\* but for what is on the list.
FileOnCourse(todo, f) ==
    LET row == [path |-> RelPath[f], text |-> files[f]]
        stored == ChunkSet(f, files[f])
    IN  \/ [op |-> "delete", document |-> f] \in Range(todo)
        \/ /\ documents[f] = row
              \/ DocumentWrite(f, RelPath[f], files[f]) \in Range(todo)
           /\ {c \in chunks : c.document = f} \subseteq stored
           /\ \A c \in stored : c \in chunks \/ [op |-> "chunk", chunk |-> c] \in Range(todo)

ReconcileOnCourse(r) ==
    r.kind = "reconcile" =>
        /\ r.stage = "read" =>
              r.sources = [k \in DOMAIN Files |->
                              [file |-> Files[k], path |-> RelPath[Files[k]],
                               text |-> files[Files[k]]]]
        /\ r.stage = "write" =>
              /\ \A x \in Range(r.todo) : ReconcileWrite(x)
              /\ \A f \in FileSet : files[f] # None => FileOnCourse(r.todo, f)
              /\ \A k \in DOMAIN r.todo : r.todo[k].op = "rebuild" <=> k = Len(r.todo)
              /\ r.todo = <<>> => SearchIsCurrent

AloneOnCourse ==
    \A w \in Workers : run[w].alone =>
        /\ \A v \in Workers \ {w} : run[v] = Idle
        /\ CheckOnCourse(run[w])
        /\ ReconcileOnCourse(run[w])

\* No way to name a file is the path of another file below the root.
PathsApart ==
    \A f, g \in FileSet : \A path \in Spellings[g] \cup {RelPath[g]} :
        f # g => RelPath[f] \notin {path, DisplayPath(path)}

\* A document has the path it was scanned under, or one a user named it by.
PathOf(d, path) == path \in Spellings[d] \cup {RelPath[d]}

\* The elements of the four parts of what a check writes.
LEMMA ChunkWritesRange ==
    ASSUME NEW d \in FileSet, NEW text \in Texts
    PROVE  /\ ChunkWrites(d, text) \in Seq(Writes)
           /\ Range(ChunkWrites(d, text))
                 = {[op |-> "chunk", chunk |-> c] : c \in ChunkSet(d, text)}
<1> DEFINE n == Len(ChunksOf[text])
           s == ChunkWrites(d, text)
<1>1. /\ n \in Nat /\ DOMAIN s = 1 .. n /\ DOMAIN ChunkSeq(d, text) = 1 .. n
      /\ \A k \in 1 .. n : ChunkSeq(d, text)[k] \in Chunks
      /\ \A k \in 1 .. n : s[k] = [op |-> "chunk", chunk |-> ChunkSeq(d, text)[k]]
  BY ChunkSeqShape DEF ChunkWrites
<1>2. \A k \in 1 .. n : s[k] \in Writes
  <2> TAKE k \in 1 .. n
  <2> HIDE DEF s, n
  <2>1. s[k] \in [op : {"chunk"}, chunk : Chunks]
    BY <1>1
  <2> QED BY <2>1 DEF Writes
<1>3. s \in [1 .. n -> Writes]
  BY <1>1, <1>2 DEF ChunkWrites
<1> HIDE DEF s, n
<1>4. s \in Seq(Writes)
  BY <1>1, <1>3, SeqDef
<1>5. Range(s) = {[op |-> "chunk", chunk |-> c] : c \in ChunkSet(d, text)}
  BY <1>1 DEF Range, ChunkSet
<1> QED BY <1>4, <1>5 DEF s

LEMMA OccurrenceWritesRange ==
    ASSUME NEW d \in FileSet, NEW text \in Texts, NEW known \in SUBSET Concepts
    PROVE  Range(OccurrenceWrites(d, text, known))
              = {x \in [op : {"occurrence"}, chunk : ChunkSet(d, text), concept : known] :
                    x.concept \in Mentions[x.chunk.text]}
<1> DEFINE found(k) == {[op |-> "occurrence", chunk |-> ChunkSeq(d, text)[k], concept |-> c] :
                           c \in Detected(ChunkSeq(d, text)[k], known)}
           n == Len(ChunksOf[text])
           parts == [k \in DOMAIN ChunksOf[text] |-> SetToSeq(found(k))]
           all == {x \in [op : {"occurrence"}, chunk : ChunkSet(d, text), concept : known] :
                      x.concept \in Mentions[x.chunk.text]}
<1>1. n \in Nat /\ DOMAIN ChunksOf[text] = 1 .. n /\ DOMAIN ChunkSeq(d, text) = 1 .. n
      /\ ChunkSet(d, text) = {ChunkSeq(d, text)[k] : k \in 1 .. n}
  BY ChunkSeqShape DEF ChunkSet, Range
<1>2. \A k \in 1 .. n : /\ SetToSeq(found(k)) \in Seq(found(k))
                        /\ Range(SetToSeq(found(k))) = found(k)
  <2> TAKE k \in 1 .. n
  <2> DEFINE D == Detected(ChunkSeq(d, text)[k], known)
             make == [c \in D |-> [op |-> "occurrence", chunk |-> ChunkSeq(d, text)[k],
                                   concept |-> c]]
  <2>1. IsFiniteSet(D)
    <3>1. D \subseteq Concepts
      BY DEF Detected
    <3> QED BY <3>1, FS_Subset, ChunksAssumption
  <2>2. make \in Surjection(D, found(k))
    BY DEF Surjection
  <2>3. IsFiniteSet(found(k))
    BY <2>1, <2>2, FS_Surjection
  <2> HIDE DEF found
  <2> QED BY <2>3, SetToSeqElements
<1>3. \A k \in 1 .. n : found(k) \subseteq all
  <2> TAKE k \in 1 .. n
  <2>1. ChunkSeq(d, text)[k] \in ChunkSet(d, text)
    BY <1>1
  <2> QED BY <2>1 DEF Detected
<1>4. \A x \in all : \E k \in 1 .. n : x \in found(k)
  <2> TAKE x \in all
  <2>1. PICK k \in 1 .. n : x.chunk = ChunkSeq(d, text)[k]
    BY <1>1
  <2>2. x = [op |-> "occurrence", chunk |-> ChunkSeq(d, text)[k], concept |-> x.concept]
    BY <2>1
  <2>3. x.concept \in Detected(ChunkSeq(d, text)[k], known)
    BY <2>1 DEF Detected
  <2> QED BY <2>2, <2>3
<1> HIDE DEF found, all, n
<1>5. \A k \in 1 .. n : SetToSeq(found(k)) \in Seq(all)
  BY <1>2, <1>3, SeqMonotonic
<1>6. parts \in [1 .. n -> Seq(all)] /\ \A k \in 1 .. n : parts[k] = SetToSeq(found(k))
  BY <1>1, <1>5
<1>7. OccurrenceWrites(d, text, known) = FlattenSeq(parts)
  BY DEF OccurrenceWrites, found
<1> HIDE DEF parts
<1>8. parts \in Seq(Seq(all)) /\ DOMAIN parts = 1 .. n
  BY <1>1, <1>6, SeqDef
<1>9. Range(FlattenSeq(parts)) = UNION {Range(parts[k]) : k \in 1 .. n}
  BY <1>8, FlattenRange
<1>10. UNION {Range(parts[k]) : k \in 1 .. n} = UNION {found(k) : k \in 1 .. n}
  BY <1>2, <1>6
<1>11. UNION {found(k) : k \in 1 .. n} = all
  BY <1>3, <1>4
<1> QED BY <1>7, <1>9, <1>10, <1>11 DEF all

LEMMA IssueWritesRange ==
    ASSUME NEW d, NEW text, NEW flagged \in SUBSET Concepts
    PROVE  Range(IssueWrites(d, text, flagged))
              = {[op |-> "issue", issue |-> <<d, c>>, chunks |-> Quoted(d, text, c)] :
                    c \in {x \in flagged : Quoted(d, text, x) # {}}}
<1> DEFINE raised == {x \in flagged : Quoted(d, text, x) # {}}
           found == {[op |-> "issue", issue |-> <<d, c>>, chunks |-> Quoted(d, text, c)] :
                        c \in raised}
           make == [c \in raised |-> [op |-> "issue", issue |-> <<d, c>>,
                                      chunks |-> Quoted(d, text, c)]]
<1>1. IsFiniteSet(raised)
  <2>1. raised \subseteq Concepts
    OBVIOUS
  <2> QED BY <2>1, FS_Subset, ChunksAssumption
<1>2. make \in Surjection(raised, found)
  <2> HIDE DEF raised
  <2> QED BY DEF Surjection
<1>3. IsFiniteSet(found)
  BY <1>1, <1>2, FS_Surjection
<1>4. Range(SetToSeq(found)) = found
  BY <1>3, SetToSeqElements
<1> QED BY <1>4 DEF IssueWrites

\* The list of a check has these writes and no other.
LEMMA CheckPlanRange ==
    ASSUME NEW source \in Sources, source.text # None, NEW seen \in Glossaries,
           NEW writes \in BOOLEAN
    PROVE  Range(CheckPlan(source, seen, writes)) = CheckWrites(source, seen, writes)
<1> DEFINE d == source.file
           text == source.text
           written == DocumentWrite(d, source.path, text)
           a == <<written>>
           b == ChunkWrites(d, text)
           c == OccurrenceWrites(d, text, Known(seen))
           e == IF writes THEN IssueWrites(d, text, Flagged(seen)) ELSE <<>>
           raised == {x \in Flagged(seen) : Quoted(d, text, x) # {}}
           issue(x) == [op |-> "issue", issue |-> <<d, x>>, chunks |-> Quoted(d, text, x)]
<1>1. d \in FileSet /\ source.path \in Paths /\ text \in Texts
      /\ Known(seen) \in SUBSET Concepts /\ Flagged(seen) \in SUBSET Concepts
  BY DEF Sources, Known, Flagged
<1> HIDE DEF d, text
<1>2. a \in Seq(Writes) /\ Range(a) = {written}
  <2>1. written \in Writes
    BY <1>1 DEF Writes, DocumentWrite
  <2> HIDE DEF written
  <2>2. a \in Seq(Writes) /\ Len(a) = 1 /\ a[1] = written
    BY <2>1
  <2> HIDE DEF a
  <2>3. DOMAIN a = {1}
    BY <2>2, LenProperties
  <2> QED BY <2>2, <2>3 DEF Range
<1> HIDE DEF a
<1>3. b \in Seq(Writes)
      /\ Range(b) = {[op |-> "chunk", chunk |-> x] : x \in ChunkSet(d, text)}
  BY <1>1, ChunkWritesRange
<1>4. c \in Seq(Writes)
      /\ Range(c) = {x \in [op : {"occurrence"}, chunk : ChunkSet(d, text),
                            concept : Known(seen)] :
                        x.concept \in Mentions[x.chunk.text]}
  BY <1>1, OccurrenceWritesArePlan, OccurrenceWritesRange DEF Plans
<1>5. e \in Seq(Writes) /\ Range(e) = {issue(x) : x \in {y \in raised : writes}}
  <2>1. CASE writes
    <3>1. {y \in raised : writes} = raised
      BY <2>1
    <3>2. IssueWrites(d, text, Flagged(seen)) \in Seq(Writes)
      BY <1>1, IssueWritesArePlan DEF Plans
    <3> QED BY <1>1, <2>1, <3>1, <3>2, IssueWritesRange
  <2>2. CASE ~writes
    <3>1. {y \in raised : writes} = {} /\ e = <<>>
      BY <2>2
    <3>2. <<>> \in Seq(Writes) /\ Range(<<>>) = {}
      BY EmptySeq, EmptyIsPlan DEF Range
    <3> HIDE DEF e
    <3> QED BY <3>1, <3>2
  <2> QED BY <2>1, <2>2
<1> HIDE DEF b, c, e, written
<1>6. Range(((a \o b) \o c) \o e) = ((Range(a) \cup Range(b)) \cup Range(c)) \cup Range(e)
  <2>1. a \o b \in Seq(Writes) /\ Range(a \o b) = Range(a) \cup Range(b)
    BY <1>2, <1>3, ConcatProperties, RangeConcatenation
  <2> PICK ab \in Seq(Writes) : ab = a \o b
    BY <2>1
  <2>0. c \in Seq(Writes) /\ e \in Seq(Writes)
    BY <1>4, <1>5
  <2>2. ab \o c \in Seq(Writes) /\ Range(ab \o c) = Range(ab) \cup Range(c)
    BY <2>0, ConcatProperties, RangeConcatenation, ZenonT(40)
  <2> PICK abc \in Seq(Writes) : abc = ab \o c
    BY <2>2
  <2>3. Range(abc \o e) = Range(abc) \cup Range(e)
    BY <2>0, RangeConcatenation, ZenonT(40)
  <2> QED BY <2>1, <2>2, <2>3
<1>7. CheckPlan(source, seen, writes) = ((a \o b) \o c) \o e
  BY DEF CheckPlan, a, b, c, e, written, d, text
<1>8. CheckWrites(source, seen, writes)
         = ((Range(a) \cup Range(b)) \cup Range(c)) \cup Range(e)
  BY <1>2, <1>3, <1>4, <1>5 DEF CheckWrites, written, d, text
<1> QED BY <1>6, <1>7, <1>8

\* What a reconcile writes for one file.
SourceWrites(f, text) ==
    {[op |-> "delete", document |-> f], DocumentWrite(f, RelPath[f], text)}
    \cup {[op |-> "chunk", chunk |-> c] : c \in ChunkSet(f, text)}

LEMMA SourcePlanRange ==
    ASSUME NEW source \in Sources, source.text # None
    PROVE  /\ SourcePlan(source, source.file) \in Seq(Writes)
           /\ Range(SourcePlan(source, source.file)) = SourceWrites(source.file, source.text)
<1> DEFINE d == source.file
           text == source.text
           gone == [op |-> "delete", document |-> d]
           written == DocumentWrite(d, RelPath[d], text)
           a == <<gone, written>>
           b == ChunkWrites(d, text)
<1>1. d \in FileSet /\ RelPath[d] \in Paths /\ text \in Texts
  BY DEF Sources, Paths
<1> HIDE DEF d, text
<1>2. a \in Seq(Writes) /\ Range(a) = {gone, written}
  <2>1. gone \in Writes
    BY <1>1 DEF Writes
  <2>2. written \in Writes
    BY <1>1 DEF Writes, DocumentWrite
  <2> HIDE DEF gone, written
  <2>3. a \in Seq(Writes) /\ Len(a) = 2 /\ a[1] = gone /\ a[2] = written
    BY <2>1, <2>2
  <2> HIDE DEF a
  <2>4. DOMAIN a = {1, 2}
    BY <2>3, LenProperties
  <2> QED BY <2>3, <2>4 DEF Range
<1>3. b \in Seq(Writes)
      /\ Range(b) = {[op |-> "chunk", chunk |-> c] : c \in ChunkSet(d, text)}
  BY <1>1, ChunkWritesRange
<1>4. a \in Seq(Writes) /\ b \in Seq(Writes)
  BY <1>2, <1>3
<1>5. SourcePlan(source, source.file) = a \o b
  BY DEF SourcePlan, d, text
<1> HIDE DEF a, b
<1>6. a \o b \in Seq(Writes) /\ Range(a \o b) = Range(a) \cup Range(b)
  BY <1>4, ConcatProperties, RangeConcatenation
<1> QED BY <1>2, <1>3, <1>5, <1>6 DEF SourceWrites, gone, written, d, text

\* A reconcile that finds each file under its own id writes, for each file it
\* read, these writes and no other, and ends with the search rows.
LEMMA ReconcilePlanRange ==
    ASSUME NEW sources \in Seq(Sources), NEW ids \in [FileSet -> FileSet],
           \A f \in FileSet : ids[f] = f
    PROVE  LET plan == ReconcilePlan(sources, ids)
               Written(k) == SourceWrites(sources[k].file, sources[k].text)
           IN  /\ plan \in Seq(Writes) /\ plan # <<>>
               /\ \A x \in Range(plan) :
                     \/ x.op = "rebuild"
                     \/ \E k \in DOMAIN sources :
                           sources[k].text # None /\ x \in Written(k)
               /\ \A k \in DOMAIN sources :
                     sources[k].text # None => Written(k) \subseteq Range(plan)
               /\ \A k \in DOMAIN plan : plan[k].op = "rebuild" <=> k = Len(plan)
<1> DEFINE n == Len(sources)
           Written(k) == SourceWrites(sources[k].file, sources[k].text)
           part(k) == IF sources[k].text = None THEN <<>>
                      ELSE SourcePlan(sources[k], ids[sources[k].file])
           parts == [k \in DOMAIN sources |-> part(k)]
           flat == FlattenSeq(parts)
           rebuild == [op |-> "rebuild"]
           plan == flat \o <<rebuild>>
<1>1. /\ n \in Nat /\ DOMAIN sources = 1 .. n
      /\ \A k \in 1 .. n : sources[k] \in Sources
  BY LenProperties, ElementOfSeq
<1>2. \A k \in 1 .. n : /\ part(k) \in Seq(Writes)
                        /\ Range(part(k)) = IF sources[k].text = None THEN {} ELSE Written(k)
  <2> TAKE k \in 1 .. n
  <2>1. sources[k] \in Sources /\ ids[sources[k].file] = sources[k].file
    BY <1>1 DEF Sources
  <2>2. CASE sources[k].text = None
    <3>1. <<>> \in Seq(Writes) /\ Range(<<>>) = {}
      BY NothingLeft DEF Range
    <3> QED BY <2>2, <3>1
  <2>3. CASE sources[k].text # None
    <3>1. part(k) = SourcePlan(sources[k], sources[k].file)
      BY <2>1, <2>3
    <3> QED BY <2>1, <2>3, <3>1, SourcePlanRange
  <2> QED BY <2>2, <2>3
<1> HIDE DEF part, Written, n
<1>3. parts \in [1 .. n -> Seq(Writes)] /\ \A k \in 1 .. n : parts[k] = part(k)
  BY <1>1, <1>2
<1>4. parts \in Seq(Seq(Writes)) /\ DOMAIN parts = 1 .. n
  <2> HIDE DEF parts
  <2> QED BY <1>1, <1>3, SeqDef
<1> HIDE DEF parts
<1>5. flat \in Seq(Writes)
  <2>1. <<>> \in Seq(Writes) /\ \A s, t \in Seq(Writes) : s \o t \in Seq(Writes)
    BY EmptySeq, ConcatProperties
  <2> QED BY <1>4, <2>1, FlattenStaysIn
<1>6. Range(flat) = UNION {Range(parts[k]) : k \in 1 .. n}
  BY <1>4, FlattenRange
<1>7. Range(flat) = UNION {Range(part(k)) : k \in 1 .. n}
  BY <1>3, <1>6
<1>8. /\ \A x \in Range(flat) : \E k \in 1 .. n : sources[k].text # None /\ x \in Written(k)
      /\ \A k \in 1 .. n : sources[k].text # None => Written(k) \subseteq Range(flat)
  BY <1>2, <1>7
<1> HIDE DEF flat
<1>9. \A x \in Range(flat) : x.op # "rebuild"
  <2> TAKE x \in Range(flat)
  <2>1. PICK k \in 1 .. n : x \in Written(k)
    BY <1>8
  <2> QED BY <2>1 DEF Written, SourceWrites, DocumentWrite
<1>10. /\ <<rebuild>> \in Seq(Writes) /\ Len(<<rebuild>>) = 1 /\ <<rebuild>>[1] = rebuild
       /\ Range(<<rebuild>>) = {rebuild}
  <2>1. rebuild \in Writes
    BY DEF Writes
  <2> HIDE DEF rebuild
  <2> DEFINE last == <<rebuild>>
  <2>2. last \in Seq(Writes) /\ Len(last) = 1 /\ last[1] = rebuild
    BY <2>1
  <2> HIDE DEF last
  <2>3. DOMAIN last = {1}
    BY <2>2, LenProperties
  <2>4. Range(last) = {rebuild}
    BY <2>2, <2>3 DEF Range
  <2> QED BY <2>2, <2>4 DEF last
<1> DEFINE last == <<rebuild>>
<1>11. last \in Seq(Writes) /\ Len(last) = 1 /\ last[1].op = "rebuild"
       /\ \A x \in Range(last) : x.op = "rebuild"
  BY <1>10
<1> HIDE DEF last
<1>12. plan = flat \o last
  BY DEF last
<1> HIDE DEF plan
<1>13. plan \in Seq(Writes) /\ Range(plan) = Range(flat) \cup Range(last)
  BY <1>5, <1>11, <1>12, ConcatProperties, RangeConcatenation
<1>14. /\ Len(flat) \in Nat /\ DOMAIN flat = 1 .. Len(flat)
       /\ Len(plan) = Len(flat) + 1 /\ DOMAIN plan = 1 .. Len(plan)
       /\ \A k \in 1 .. Len(plan) : plan[k] = IF k <= Len(flat) THEN flat[k]
                                              ELSE last[k - Len(flat)]
  BY <1>5, <1>11, <1>12, <1>13, LenProperties, ConcatProperties
<1>15. \A k \in DOMAIN plan : plan[k].op = "rebuild" <=> k = Len(plan)
  <2> TAKE k \in DOMAIN plan
  <2>1. CASE k = Len(plan)
    <3>1. ~(k <= Len(flat)) /\ k - Len(flat) = 1
      BY <1>14, <2>1
    <3> QED BY <1>11, <1>14, <2>1, <3>1
  <2>2. CASE k # Len(plan)
    <3>1. k <= Len(flat) /\ k \in DOMAIN flat
      BY <1>14, <2>2
    <3>2. plan[k] = flat[k] /\ flat[k] \in Range(flat)
      BY <1>14, <3>1 DEF Range
    <3> QED BY <1>9, <2>2, <3>2
  <2> QED BY <2>1, <2>2
<1>16. plan # <<>>
  <2>1. Len(plan) # 0
    BY <1>14
  <2> QED BY <2>1, EmptySeq
<1>17. ReconcilePlan(sources, ids) = plan
  BY DEF ReconcilePlan, plan, flat, parts, part
<1> QED BY <1>1, <1>8, <1>11, <1>13, <1>15, <1>16, <1>17 DEF Written

-----------------------------------------------------------------------------
(***************************************************************************)
(* Who acts while a run is alone.                                          *)
(***************************************************************************)
OthersIdle == \A w \in Workers : run[w].alone => \A v \in Workers \ {w} : run[v] = Idle

\* The steps of a run that has begun leave the others as they are.
LEMMA OwnSteps ==
    ASSUME TypeOK, NEW v \in Workers,
           ReadDatabase(v) \/ Write(v) \/ Finish(v) \/ Crash(v)
    PROVE  /\ run[v] # Idle
           /\ \A w \in Workers \ {v} : run'[w] = run[w]
           /\ files' = files
           /\ Finish(v) \/ Crash(v) => run'[v] = Idle
<1>1. Idle.stage = "idle" /\ Idle.todo = <<>>
  BY DEF Idle
<1>2. run \in [Workers -> Runs]
  BY DEF TypeOK
<1>3. Finish(v) \/ Crash(v) => run'[v] = Idle
  BY <1>2 DEF Finish, Crash, Abort
<1>4. CASE ReadDatabase(v)
  <2>1. PICK todo, seen : Goto(v, todo, seen)
    BY <1>4 DEF ReadDatabase
  <2>2. run' = [run EXCEPT ![v].stage = "write", ![v].todo = todo, ![v].seen = seen]
    BY <2>1 DEF Goto
  <2>3. \A w \in Workers \ {v} : run'[w] = run[w]
    BY <1>2, <2>2
  <2>4. run[v].stage = "read" /\ files' = files
    BY <1>4 DEF ReadDatabase, Environment
  <2> QED BY <1>1, <1>3, <2>3, <2>4
<1>5. CASE Write(v)
  <2>1. run[v].todo # <<>> /\ (Done(v) \/ Abort(v)) /\ files' = files
    BY <1>5 DEF Write, WriteDocument, WriteChunk, WriteOccurrence, WriteIssue, DeleteRows,
                RebuildSearch, Does, Environment
  <2>2. \A w \in Workers \ {v} : run'[w] = run[w]
    BY <1>2, <2>1 DEF Done, Abort
  <2> QED BY <1>1, <1>3, <2>1, <2>2
<1>6. CASE Finish(v)
  <2>1. run' = [run EXCEPT ![v] = Idle] /\ run[v].stage = "write" /\ files' = files
    BY <1>6 DEF Finish, Environment
  <2> QED BY <1>1, <1>2, <2>1
<1>7. CASE Crash(v)
  <2>1. run' = [run EXCEPT ![v] = Idle] /\ run[v] # Idle /\ files' = files
    BY <1>7 DEF Crash, Abort, Environment
  <2> QED BY <1>2, <2>1
<1> QED BY <1>4, <1>5, <1>6, <1>7

\* But for being alone, a run is as it was.
SameWork(w) ==
    /\ run'[w].stage = run[w].stage /\ run'[w].kind = run[w].kind
    /\ run'[w].sources = run[w].sources /\ run'[w].todo = run[w].todo

\* A run that begins, or an edit, disturbs all others.
LEMMA StartsDisturb ==
    ASSUME TypeOK, NEW v \in Workers, NEW kind, NEW sources, NEW writes,
           Start(v, kind, sources, writes)
    PROVE  /\ \A w \in Workers \ {v} :
                 ~run'[w].alone /\ (run[w] = Idle => run'[w] = Idle) /\ SameWork(w)
           /\ run'[v].alone => \A w \in Workers \ {v} : run[w] = Idle
           /\ run'[v].stage = "read" /\ run'[v].kind = kind /\ run'[v].sources = sources
           /\ run'[v].todo = <<>>
<1> PICK others \in {{u \in Workers : run[u] # Idle}} : TRUE
  OBVIOUS
<1> PICK new \in {[Idle EXCEPT !.stage = "read", !.kind = kind, !.sources = sources,
                               !.writes = writes, !.alone = (others = {})]} : TRUE
  OBVIOUS
<1>1. run' = [u \in Workers |-> IF u = v THEN new ELSE [run[u] EXCEPT !.alone = FALSE]]
  BY Zenon DEF Start
<1>2. new.stage = "read" /\ new.kind = kind /\ new.sources = sources /\ new.todo = <<>>
  BY ZenonT(30) DEF Idle
<1>3. new.alone = (others = {})
  BY ZenonT(30) DEF Idle
<1>4. \A u \in Workers \ {v} : run'[u] = [run[u] EXCEPT !.alone = FALSE] /\ run[u] \in Runs
  BY <1>1 DEF TypeOK
<1>5. [Idle EXCEPT !.alone = FALSE] = Idle
  <2>1. Idle \in Runs
    BY IdleIsARun
  <2>2. Idle.alone = FALSE
    BY DEF Idle
  <2> QED BY <2>1, <2>2 DEF Runs
<1>6. \A u \in Workers \ {v} :
         ~run'[u].alone /\ (run[u] = Idle => run'[u] = Idle) /\ SameWork(u)
  <2> TAKE u \in Workers \ {v}
  <2>1. run'[u] = [run[u] EXCEPT !.alone = FALSE] /\ run[u] \in Runs
    BY <1>4
  <2>2. run'[u].alone = FALSE /\ SameWork(u)
    BY <2>1 DEF Runs, SameWork
  <2> QED BY <1>5, <2>1, <2>2
<1>7. new.alone => others = {}
  BY <1>3
<1> QED BY <1>1, <1>2, <1>6, <1>7

LEMMA EditsDisturb ==
    ASSUME TypeOK, (\E f \in FileSet : EditFile(f)) \/ (\E c \in Concepts : EditConcept(c))
    PROVE  \A w \in Workers : ~run'[w].alone /\ SameWork(w)
<1>1. Disturb
  BY DEF EditFile, EditConcept
<1> TAKE w \in Workers
<1>2. run'[w] = [run[w] EXCEPT !.alone = FALSE] /\ run[w] \in Runs
  BY <1>1 DEF Disturb, TypeOK
<1> QED BY <1>2 DEF Runs, SameWork

\* What may have happened if a run is alone after a step.
LEMMA AloneActs ==
    ASSUME TypeOK, OthersIdle, [Next]_vars, NEW w \in Workers, run'[w].alone
    PROVE  /\ \A v \in Workers \ {w} : run'[v] = Idle
           /\ \/ StartCheck(w) \/ StartReconcile(w)
              \/ run[w].alone /\ (UNCHANGED vars \/ ReadDatabase(w) \/ Write(w))
<1>1. CASE UNCHANGED vars
  BY <1>1 DEF vars, OthersIdle
<1>2. ASSUME NEW v \in Workers, StartCheck(v) \/ StartReconcile(v) \/ CatchUp(v)
      PROVE  /\ \A u \in Workers \ {w} : run'[u] = Idle
             /\ StartCheck(w) \/ StartReconcile(w)
  <2>1. StartCheck(v) \/ StartReconcile(v)
    BY <1>2 DEF CatchUp
  <2>2. PICK kind, sources, writes : Start(v, kind, sources, writes)
    BY <2>1 DEF StartCheck, StartReconcile
  <2>3. v = w
    BY <2>2, StartsDisturb
  <2> QED BY <2>1, <2>2, <2>3, StartsDisturb
<1>3. ASSUME NEW v \in Workers, ReadDatabase(v) \/ Write(v) \/ Finish(v) \/ Crash(v)
      PROVE  /\ \A u \in Workers \ {w} : run'[u] = Idle
             /\ run[w].alone /\ (ReadDatabase(w) \/ Write(w))
  <2>1. ~Idle.alone
    BY DEF Idle
  <2>2. CASE v # w
    <3>1. run'[w] = run[w] /\ run[v] # Idle
      BY <1>3, <2>2, OwnSteps
    <3> QED BY <2>2, <3>1 DEF OthersIdle
  <2>3. CASE v = w
    <3>1. /\ \A u \in Workers \ {w} : run'[u] = run[u]
          /\ ReadDatabase(w) \/ Write(w)
      BY <1>3, <2>1, <2>3, OwnSteps
    <3>2. run[w].alone
      <4>1. run \in [Workers -> Runs]
        BY DEF TypeOK
      <4>2. CASE ReadDatabase(w)
        <5>1. PICK todo, seen : Goto(w, todo, seen)
          BY <4>2 DEF ReadDatabase
        <5>2. run' = [run EXCEPT ![w].stage = "write", ![w].todo = todo, ![w].seen = seen]
          BY <5>1 DEF Goto
        <5> QED BY <4>1, <5>2 DEF Runs
      <4>3. CASE Write(w)
        <5>1. Done(w) \/ Abort(w)
          BY <4>3 DEF Write, WriteDocument, WriteChunk, WriteOccurrence, WriteIssue,
                      DeleteRows, RebuildSearch
        <5>2. ~Abort(w)
          BY <2>1, <4>1 DEF Abort
        <5>3. run' = [run EXCEPT ![w].todo = Tail(@)]
          BY <5>1, <5>2 DEF Done
        <5> QED BY <4>1, <5>3 DEF Runs
      <4> QED BY <3>1, <4>2, <4>3
    <3> QED BY <3>1, <3>2 DEF OthersIdle
  <2> QED BY <2>2, <2>3
<1> QED BY <1>1, <1>2, <1>3, EditsDisturb DEF Next

\* A run that ends with nothing left to write changes no row.
LEMMA EndsQuietly ==
    ASSUME IInv, [Next]_vars, NEW w \in Workers,
           run[w].stage = "write", run[w].todo = <<>>, run'[w] = Idle
    PROVE  UNCHANGED <<files, Rows>>
<1>1. TypeOK /\ Idle.stage = "idle"
  BY DEF IInv, Idle
<1>2. CASE UNCHANGED vars
  BY <1>2 DEF vars, Rows
<1>3. ASSUME NEW v \in Workers, StartCheck(v) \/ StartReconcile(v) \/ CatchUp(v)
      PROVE  FALSE
  <2>1. PICK kind, sources, writes : Start(v, kind, sources, writes)
    BY <1>3 DEF StartCheck, StartReconcile, CatchUp
  <2>2. v # w
    <3>1. run[v] = Idle
      BY <2>1 DEF Start
    <3> QED BY <1>1, <3>1
  <2> QED BY <1>1, <2>1, <2>2, StartsDisturb DEF SameWork
<1>4. ASSUME NEW v \in Workers, ReadDatabase(v) \/ Write(v)
      PROVE  FALSE
  <2>1. v = w
    BY <1>1, <1>4, OwnSteps
  <2> QED BY <1>4, <2>1
      DEF ReadDatabase, Write, WriteDocument, WriteChunk, WriteOccurrence, WriteIssue,
          DeleteRows, RebuildSearch, Does
<1>5. ASSUME NEW v \in Workers, Finish(v) \/ Crash(v)
      PROVE  UNCHANGED <<files, Rows>>
  BY <1>5 DEF Finish, Crash, Environment
<1> QED BY <1>1, <1>2, <1>3, <1>4, <1>5, EditsDisturb DEF Next, SameWork

-----------------------------------------------------------------------------
(***************************************************************************)
(* A check that nothing disturbed.                                         *)
(***************************************************************************)
ChecksOnCourse == \A w \in Workers : run[w].alone => CheckOnCourse(run[w])

\* No two writes of a check are for the same row and say something else.
LEMMA CheckWritesAgree ==
    ASSUME NEW source, source.file \in FileSet, source.text \in Texts,
           NEW seen, NEW writes,
           NEW x \in CheckWrites(source, seen, writes), NEW y \in CheckWrites(source, seen, writes)
    PROVE  /\ x.op \in {"document", "chunk", "occurrence", "issue"}
           /\ x.op = "document" /\ y.op = "document" => x = y
           /\ x.op = "issue" /\ y.op = "issue" /\ x.issue = y.issue => x.chunks = y.chunks
<1> DEFINE d == source.file
           text == source.text
           raised == {z \in Flagged(seen) : Quoted(d, text, z) # {}}
           issue(z) == [op |-> "issue", issue |-> <<d, z>>, chunks |-> Quoted(d, text, z)]
           Kinds(z) ==
              \/ z = DocumentWrite(d, source.path, text)
              \/ z.op \in {"chunk", "occurrence"}
              \/ z.op = "issue" /\ \E c \in raised : z = issue(c)
<1>1. \A z \in CheckWrites(source, seen, writes) : Kinds(z)
  BY DEF CheckWrites
<1>2. DocumentWrite(d, source.path, text).op = "document"
  BY DEF DocumentWrite
<1>3. \A z : Kinds(z) => z.op \in {"document", "chunk", "occurrence", "issue"}
  BY <1>2
<1>4. \A z : Kinds(z) /\ z.op = "document" => z = DocumentWrite(d, source.path, text)
  OBVIOUS
<1>5. \A z : Kinds(z) /\ z.op = "issue" => z.chunks = Quoted(d, text, z.issue[2])
  BY <1>2
<1> HIDE DEF Kinds, d, text
<1> QED BY <1>1, <1>3, <1>4, <1>5

\* A write is done, and what was done before stays.
LEMMA CheckWriteKeeps ==
    ASSUME IInv, NEW w \in Workers, run[w].kind = "check", run[w].stage = "write",
           CheckOnCourse(run[w]), Write(w), run'[w].alone
    PROVE  CheckOnCourse(run[w])'
<1> PICK source \in {run[w].sources[1]} : TRUE
  OBVIOUS
<1> PICK all \in {CheckWrites(source, run[w].seen, run[w].writes)} : TRUE
  OBVIOUS
<1> PICK todo \in {run[w].todo} : TRUE
  OBVIOUS
<1> PICK h \in {Head(todo)} : TRUE
  OBVIOUS
<1>1. /\ TypeOK /\ run[w] \in Runs /\ run \in [Workers -> Runs]
  BY DEF IInv, TypeOK
<1>2. /\ Len(run[w].sources) = 1 /\ source.text \in Texts /\ run[w].seen \in Glossaries
      /\ Range(todo) \subseteq all
      /\ \A x \in all : x \in Range(todo) \/ Holds(x)
  BY DEF CheckOnCourse
<1>3. source.file \in FileSet
  <2>1. run[w].sources \in Seq(Sources) /\ Len(run[w].sources) = 1
    BY <1>1, <1>2 DEF Runs
  <2>2. source \in Sources
    BY <2>1, ElementOfSeq
  <2> QED BY <2>2 DEF Sources
<1>4. todo # <<>> /\ Done(w)
  <2>1. todo # <<>> /\ (Done(w) \/ Abort(w))
    BY DEF Write, WriteDocument, WriteChunk, WriteOccurrence, WriteIssue,
           DeleteRows, RebuildSearch, Does
  <2>2. ~Abort(w)
    BY <1>1 DEF Abort, Idle
  <2> QED BY <2>1, <2>2
<1>5. /\ run'[w].todo = Tail(todo) /\ run'[w].stage = "write" /\ run'[w].kind = "check"
      /\ run'[w].sources = run[w].sources /\ run'[w].seen = run[w].seen
      /\ run'[w].writes = run[w].writes
  <2>1. run' = [run EXCEPT ![w].todo = Tail(todo)]
    BY <1>4 DEF Done
  <2> QED BY <1>1, <2>1 DEF Runs
<1>6. /\ todo \in Seq(Writes) /\ h \in Writes /\ h \in Range(todo)
      /\ Range(Tail(todo)) \subseteq Range(todo)
      /\ \A x \in Range(todo) : x = h \/ x \in Range(Tail(todo))
  <2>1. todo \in Seq(Writes)
    BY <1>1 DEF Runs
  <2>2. /\ DOMAIN todo = 1 .. Len(todo) /\ 1 \in DOMAIN todo /\ h = todo[1] /\ h \in Writes
        /\ \A k \in DOMAIN Tail(todo) : k + 1 \in DOMAIN todo /\ Tail(todo)[k] = todo[k + 1]
        /\ \A k \in DOMAIN todo : k > 1 => k - 1 \in DOMAIN Tail(todo)
                                           /\ todo[k] = Tail(todo)[k - 1]
    BY <1>4, <2>1, TailShape
  <2>3. \A k \in DOMAIN todo : k = 1 \/ k > 1
    BY <2>2
  <2> QED BY <2>1, <2>2, <2>3 DEF Range
<1>7. /\ h \in all
      /\ h.op \in {"document", "chunk", "occurrence", "issue"}
      /\ \A x \in all : /\ x.op = "document" /\ h.op = "document" => x = h
                        /\ x.op = "issue" /\ h.op = "issue" /\ x.issue = h.issue =>
                              x.chunks = h.chunks
  <2>1. h \in all
    BY <1>2, <1>6
  <2> QED BY <1>2, <1>3, <2>1, CheckWritesAgree
<1>8. Holds(h)' /\ \A x \in all : Holds(x) => Holds(x)'
  <2>1. CASE h.op = "document"
    <3>1. WriteDocument(w)
      BY <2>1 DEF Write, WriteChunk, WriteOccurrence, WriteIssue, DeleteRows,
                  RebuildSearch, Does
    <3>2. /\ documents' = [documents EXCEPT ![h.document] =
                              [path |-> h.path, text |-> h.text]]
          /\ UNCHANGED <<chunks, occurrences, evidence>>
      BY <3>1 DEF WriteDocument
    <3>3. documents'[h.document] = [path |-> h.path, text |-> h.text]
      BY <1>1, <1>6, <2>1, <3>2, WriteKinds DEF TypeOK
    <3> QED BY <1>7, <2>1, <3>2, <3>3 DEF Holds
  <2>2. CASE h.op = "chunk"
    <3>1. WriteChunk(w)
      BY <2>2 DEF Write, WriteDocument, WriteOccurrence, WriteIssue, DeleteRows,
                  RebuildSearch, Does
    <3>2. /\ chunks' = chunks \cup {h.chunk}
          /\ UNCHANGED <<documents, occurrences, evidence>>
      BY <3>1 DEF WriteChunk
    <3> QED BY <2>2, <3>2 DEF Holds
  <2>3. CASE h.op = "occurrence"
    <3>1. WriteOccurrence(w)
      BY <2>3 DEF Write, WriteDocument, WriteChunk, WriteIssue, DeleteRows,
                  RebuildSearch, Does
    <3>2. ~Abort(w)
      BY <1>1 DEF Abort, Idle
    <3>3. /\ occurrences' = occurrences \cup {[chunk |-> h.chunk, concept |-> h.concept]}
          /\ UNCHANGED <<documents, chunks, evidence>>
      BY <3>1, <3>2 DEF WriteOccurrence
    <3> QED BY <2>3, <3>3 DEF Holds
  <2>4. CASE h.op = "issue"
    <3>1. WriteIssue(w)
      BY <2>4 DEF Write, WriteDocument, WriteChunk, WriteOccurrence, DeleteRows,
                  RebuildSearch, Does
    <3>2. ~Abort(w)
      BY <1>1 DEF Abort, Idle
    <3>3. /\ evidence' = [evidence EXCEPT ![h.issue] = h.chunks]
          /\ UNCHANGED <<documents, chunks, occurrences>>
      BY <3>1, <3>2 DEF WriteIssue
    <3>4. evidence'[h.issue] = h.chunks
          /\ \A i : i # h.issue => evidence'[i] = evidence[i]
      BY <1>1, <1>6, <2>4, <3>3, WriteKinds DEF TypeOK
    <3> QED BY <1>7, <2>4, <3>3, <3>4 DEF Holds
  <2> QED BY <1>7, <2>1, <2>2, <2>3, <2>4
<1>9. \A x \in all : x \in Range(Tail(todo)) \/ Holds(x)'
  BY <1>2, <1>6, <1>8
<1>10. CheckWrites(run'[w].sources[1], run'[w].seen, run'[w].writes) = all
  BY <1>5
<1>11. Range(run'[w].todo) \subseteq all
  BY <1>2, <1>5, <1>6
<1> QED BY <1>2, <1>5, <1>9, <1>10, <1>11 DEF CheckOnCourse

LEMMA ChecksStayOnCourse ==
    ASSUME IInv, OthersIdle, ChecksOnCourse, [Next]_vars
    PROVE  OthersIdle' /\ ChecksOnCourse'
<1>1. TypeOK /\ run \in [Workers -> Runs]
  BY DEF IInv, TypeOK
<1>2. OthersIdle'
  BY <1>1, AloneActs DEF OthersIdle
<1>3. ASSUME NEW w \in Workers, run'[w].alone
      PROVE  CheckOnCourse(run[w])'
  <2>1. CASE StartCheck(w) \/ StartReconcile(w)
    <3>1. PICK kind, sources, writes : Start(w, kind, sources, writes)
      BY <2>1 DEF StartCheck, StartReconcile
    <3>2. run'[w].stage = "read"
      BY <1>1, <3>1, StartsDisturb
    <3> QED BY <3>2 DEF CheckOnCourse
  <2>2. CASE run[w].alone /\ UNCHANGED vars
    <3>1. CheckOnCourse(run[w]) /\ UNCHANGED <<run, documents, chunks, occurrences, evidence>>
      BY <2>2 DEF ChecksOnCourse, vars
    <3> QED BY <3>1 DEF CheckOnCourse, Holds
  <2>3. CASE run[w].alone /\ ReadDatabase(w)
    <3>1. SUFFICES ASSUME run'[w].kind = "check"
                   PROVE  CheckOnCourse(run[w])'
      BY DEF CheckOnCourse
    <3>2. run'[w].kind = run[w].kind
      <4>1. PICK todo, seen : Goto(w, todo, seen)
        BY <2>3 DEF ReadDatabase
      <4>2. run' = [run EXCEPT ![w].stage = "write", ![w].todo = todo, ![w].seen = seen]
        BY <4>1 DEF Goto
      <4> QED BY <1>1, <4>2 DEF Runs
    <3> PICK source \in {run[w].sources[1]} : TRUE
      OBVIOUS
    <3> PICK plan \in {CheckPlan(source, concepts, run[w].writes)} : TRUE
      OBVIOUS
    <3>3. run' = [run EXCEPT ![w].stage = "write", ![w].todo = plan, ![w].seen = concepts]
      BY <2>3, <3>1, <3>2 DEF ReadDatabase, Goto
    <3>4. /\ run'[w].todo = plan /\ run'[w].seen = concepts
          /\ run'[w].sources = run[w].sources /\ run'[w].writes = run[w].writes
      BY <1>1, <3>3 DEF Runs
    <3>5. /\ Len(run[w].sources) = 1 /\ source.text \in Texts
          /\ run[w].sources \in Seq(Sources) /\ run[w].writes \in BOOLEAN
          /\ concepts \in Glossaries
      BY <1>1, <2>3, <3>1, <3>2
      DEF IInv, RunsWellFormed, RunWellFormed, ReadDatabase, Runs, TypeOK
    <3>6. source \in Sources /\ source.text # None
      BY <3>5, ElementOfSeq, NoneAssumption
    <3>7. Range(plan) = CheckWrites(source, concepts, run[w].writes)
      BY <3>5, <3>6, CheckPlanRange
    <3> QED BY <3>4, <3>5, <3>7 DEF CheckOnCourse
  <2>4. CASE run[w].alone /\ Write(w)
    <3>1. CheckOnCourse(run[w])
      BY <2>4 DEF ChecksOnCourse
    <3>2. SUFFICES ASSUME run'[w].kind = "check"
                   PROVE  CheckOnCourse(run[w])'
      BY DEF CheckOnCourse
    <3>3. run[w].todo # <<>> /\ Done(w)
      <4>1. ~Abort(w)
        BY <1>1, <1>3 DEF Abort, Idle
      <4> QED BY <2>4, <4>1
          DEF Write, WriteDocument, WriteChunk, WriteOccurrence, WriteIssue,
              DeleteRows, RebuildSearch, Does
    <3>4. run[w].kind = "check" /\ run[w].stage = "write"
      <4>1. run'[w].kind = run[w].kind /\ RunWellFormed(run[w])
        BY <3>3, WriteShape DEF RunsWellFormed
      <4> QED BY <3>2, <3>3, <4>1 DEF RunWellFormed
    <3> QED BY <1>3, <2>4, <3>1, <3>4, CheckWriteKeeps
  <2> QED BY <1>1, <1>3, <2>1, <2>2, <2>3, <2>4, AloneActs
<1> QED BY <1>2, <1>3 DEF ChecksOnCourse

\* A check that was not disturbed has left its document, all chunks, all
\* occurrences and, if asked for, every issue with as many quotes as there is
\* room for (check_document, analyze_document), whatever was there before.
THEOREM UndisturbedCheckCovers == Spec => CheckCovers
<1> DEFINE Inv == IInv /\ OthersIdle /\ ChecksOnCourse
<1>1. Init => Inv
  <2>1. Init => OthersIdle /\ ChecksOnCourse
    BY DEF Init, Idle, OthersIdle, ChecksOnCourse
  <2> QED BY <2>1, InitEstablishes
<1>2. Inv /\ [Next]_vars => Inv'
  BY NextKeeps, ChecksStayOnCourse
<1> DEFINE Covers(w) ==
       LET source == run[w].sources[1]
           stored == ChunkSet(source.file, source.text)
       IN  /\ documents'[source.file] = [path |-> source.path, text |-> source.text]
           /\ stored \subseteq chunks'
           /\ \A x \in Known(run[w].seen) :
                 LET mentioning == {c \in stored : x \in Mentions[c.text]}
                     quoted == evidence'[<<source.file, x>>]
                 IN  /\ \A c \in mentioning : [chunk |-> c, concept |-> x] \in occurrences'
                     /\ run[w].writes /\ x \in Flagged(run[w].seen) /\ mentioning # {}
                           => /\ quoted # None /\ quoted \subseteq mentioning
                              /\ Cardinality(quoted)
                                    = Min({MaxEvidence, Cardinality(mentioning)})
<1>3. ASSUME Inv, [Next]_vars, NEW w \in Workers, EndsUndisturbed(w, "check")
      PROVE  Covers(w)
  <2> PICK source \in {run[w].sources[1]} : TRUE
    OBVIOUS
  <2> PICK seen \in {run[w].seen} : TRUE
    OBVIOUS
  <2> PICK stored \in {ChunkSet(source.file, source.text)} : TRUE
    OBVIOUS
  <2> PICK all \in {CheckWrites(source, seen, run[w].writes)} : TRUE
    OBVIOUS
  <2>1. UNCHANGED <<documents, chunks, occurrences, evidence>>
    BY <1>3, EndsQuietly DEF EndsUndisturbed, Rows
  <2>2. /\ run[w].todo = <<>> /\ CheckOnCourse(run[w]) /\ run[w] \in Runs
        /\ run[w].kind = "check" /\ run[w].stage = "write" /\ TypeOK
    BY <1>3 DEF EndsUndisturbed, ChecksOnCourse, IInv, TypeOK
  <2>3. Range(<<>>) = {}
    BY NothingLeft DEF Range
  <2>4. /\ Len(run[w].sources) = 1 /\ source.text \in Texts /\ seen \in Glossaries
        /\ \A x \in all : Holds(x)
    BY <2>2, <2>3 DEF CheckOnCourse
  <2>5. source.file \in FileSet
    <3>1. run[w].sources \in Seq(Sources)
      BY <2>2 DEF Runs
    <3>2. source \in Sources
      BY <2>4, <3>1, ElementOfSeq
    <3> QED BY <3>2 DEF Sources
  <2>6. documents[source.file] = [path |-> source.path, text |-> source.text]
    <3>1. DocumentWrite(source.file, source.path, source.text) \in all
      BY DEF CheckWrites
    <3> QED BY <2>4, <3>1 DEF Holds, DocumentWrite
  <2>7. stored \subseteq chunks
    <3>1. \A c \in stored : [op |-> "chunk", chunk |-> c] \in all
      BY DEF CheckWrites
    <3> QED BY <2>4, <3>1 DEF Holds
  <2>8. ASSUME NEW x \in Known(seen),
               NEW mentioning, mentioning = {c \in stored : x \in Mentions[c.text]}
        PROVE  /\ \A c \in mentioning : [chunk |-> c, concept |-> x] \in occurrences
               /\ run[w].writes /\ x \in Flagged(seen) /\ mentioning # {}
                     => evidence[<<source.file, x>>] = Quoted(source.file, source.text, x)
    <3>1. ASSUME NEW c \in mentioning
          PROVE  [chunk |-> c, concept |-> x] \in occurrences
      <4>1. [op |-> "occurrence", chunk |-> c, concept |-> x] \in all
        BY <2>8 DEF CheckWrites
      <4> QED BY <2>4, <4>1 DEF Holds
    <3>2. ASSUME run[w].writes, x \in Flagged(seen), mentioning # {}
          PROVE  evidence[<<source.file, x>>] = Quoted(source.file, source.text, x)
      <4>1. Quoted(source.file, source.text, x) # {}
        BY <2>4, <2>5, <2>8, <3>2, QuotedShape
      <4>2. [op |-> "issue", issue |-> <<source.file, x>>,
             chunks |-> Quoted(source.file, source.text, x)] \in all
        BY <3>2, <4>1 DEF CheckWrites
      <4> QED BY <2>4, <4>2 DEF Holds
    <3> QED BY <3>1, <3>2
  <2>9. ASSUME NEW x \in Known(seen),
               NEW mentioning, mentioning = {c \in stored : x \in Mentions[c.text]},
               run[w].writes, x \in Flagged(seen), mentioning # {}
        PROVE  /\ evidence[<<source.file, x>>] # None
               /\ evidence[<<source.file, x>>] \subseteq mentioning
               /\ Cardinality(evidence[<<source.file, x>>])
                     = Min({MaxEvidence, Cardinality(mentioning)})
    <3>1. evidence[<<source.file, x>>] = Quoted(source.file, source.text, x)
      BY <2>8, <2>9
    <3>2. /\ evidence[<<source.file, x>>] \subseteq mentioning
          /\ Cardinality(evidence[<<source.file, x>>])
                = Min({MaxEvidence, Cardinality(mentioning)})
      BY <2>4, <2>5, <2>9, <3>1, QuotedShape
    <3>3. evidence[<<source.file, x>>] # None
      BY <2>4, <2>5, <3>1, QuotesAssumption DEF Known
    <3> QED BY <3>2, <3>3
  <2>10. ASSUME NEW x \in Known(seen)
         PROVE  LET mentioning == {c \in stored : x \in Mentions[c.text]}
                    quoted == evidence'[<<source.file, x>>]
                IN  /\ \A c \in mentioning : [chunk |-> c, concept |-> x] \in occurrences'
                    /\ run[w].writes /\ x \in Flagged(seen) /\ mentioning # {}
                          => /\ quoted # None /\ quoted \subseteq mentioning
                             /\ Cardinality(quoted)
                                   = Min({MaxEvidence, Cardinality(mentioning)})
    <3> PICK mentioning \in {{c \in stored : x \in Mentions[c.text]}} : TRUE
      OBVIOUS
    <3>1. mentioning = {c \in stored : x \in Mentions[c.text]}
      OBVIOUS
    <3>2. /\ \A c \in mentioning : [chunk |-> c, concept |-> x] \in occurrences'
          /\ run[w].writes /\ x \in Flagged(seen) /\ mentioning # {}
                => /\ evidence'[<<source.file, x>>] # None
                   /\ evidence'[<<source.file, x>>] \subseteq mentioning
                   /\ Cardinality(evidence'[<<source.file, x>>])
                         = Min({MaxEvidence, Cardinality(mentioning)})
      BY <2>1, <2>8, <2>9, <3>1
    <3> QED BY <3>1, <3>2
  <2>11. /\ documents'[source.file] = [path |-> source.path, text |-> source.text]
         /\ stored \subseteq chunks'
    BY <2>1, <2>6, <2>7
  <2>12. /\ source = run[w].sources[1] /\ seen = run[w].seen
         /\ stored = ChunkSet(source.file, source.text)
    OBVIOUS
  <2> QED BY Zenon, <2>10, <2>11, <2>12
<1>4. Inv /\ [Next]_vars
      => \A w \in Workers : EndsUndisturbed(w, "check") => Covers(w)
  BY <1>3
<1> QED
  <2>1. Inv /\ [Next]_vars
        => [\A w \in Workers : EndsUndisturbed(w, "check") => Covers(w)]_vars
    BY <1>4
  <2>2. Spec => []Inv
    BY <1>1, <1>2, PTL DEF Spec
  <2>3. Spec => [][\A w \in Workers : EndsUndisturbed(w, "check") => Covers(w)]_vars
    BY <2>1, <2>2, PTL DEF Spec
  <2> QED BY <2>3 DEF CheckCovers

-----------------------------------------------------------------------------
(***************************************************************************)
(* The paths documents are stored under.                                   *)
(***************************************************************************)
RunPaths(r) ==
    /\ \A x \in Range(r.todo) : x.op = "document" => PathOf(x.document, x.path)
    /\ r.stage = "read" /\ r.kind = "check" =>
          PathOf(r.sources[1].file, r.sources[1].path)

PathsKept ==
    /\ \A d \in FileSet : documents[d] # None => PathOf(d, documents[d].path)
    /\ \A w \in Workers : RunPaths(run[w])

LEMMA IdlePaths == RunPaths(Idle)
<1>1. Range(<<>>) = {}
  BY NothingLeft DEF Range
<1> QED BY <1>1, IdleIsARun DEF RunPaths, Idle

\* So a reconcile finds each file under its own id.
LEMMA OwnIds ==
    ASSUME PathsApart, PathsKept, NEW f \in FileSet
    PROVE  IndexedAs(f) \subseteq {f} /\ DocumentIdsFor(f) = {f}
<1>1. IndexedAs(f) \subseteq {f}
  <2> SUFFICES ASSUME NEW d \in IndexedAs(f), d # f PROVE FALSE
    OBVIOUS
  <2>1. /\ d \in FileSet /\ documents[d] # None
        /\ RelPath[f] \in {documents[d].path, DisplayPath(documents[d].path)}
    BY DEF IndexedAs
  <2>2. documents[d].path \in Spellings[d] \cup {RelPath[d]}
    BY <2>1 DEF PathsKept, PathOf
  <2> QED BY <2>1, <2>2 DEF PathsApart
<1> QED BY <1>1 DEF DocumentIdsFor

\* What a list says, also when its first write is done.
LEMMA TodoRange ==
    ASSUME NEW todo \in Seq(Writes), todo # <<>>
    PROVE  /\ Head(todo) \in Range(todo) /\ Range(Tail(todo)) \subseteq Range(todo)
           /\ \A x \in Range(todo) : x = Head(todo) \/ x \in Range(Tail(todo))
<1>1. /\ DOMAIN todo = 1 .. Len(todo) /\ 1 \in DOMAIN todo /\ Head(todo) = todo[1]
      /\ \A k \in DOMAIN Tail(todo) : k + 1 \in DOMAIN todo /\ Tail(todo)[k] = todo[k + 1]
      /\ \A k \in DOMAIN todo : k > 1 => k - 1 \in DOMAIN Tail(todo)
                                         /\ todo[k] = Tail(todo)[k - 1]
  BY TailShape
<1>2. \A k \in DOMAIN todo : k = 1 \/ k > 1
  BY <1>1
<1> QED BY <1>1, <1>2 DEF Range

LEMMA PathsStay ==
    ASSUME IInv, PathsApart, PathsKept, [Next]_vars
    PROVE  PathsKept'
<1>1. TypeOK /\ run \in [Workers -> Runs]
  BY DEF IInv, TypeOK
<1>2. CASE UNCHANGED vars
  BY <1>2 DEF PathsKept, vars
<1>3. ASSUME UNCHANGED documents, \A w \in Workers : RunPaths(run'[w])
      PROVE  PathsKept'
  BY <1>3 DEF PathsKept
<1>4. \A w \in Workers : SameWork(w) => RunPaths(run'[w])
  BY DEF PathsKept, RunPaths, SameWork
<1>5. ASSUME NEW v \in Workers, StartCheck(v) \/ StartReconcile(v) \/ CatchUp(v)
      PROVE  PathsKept'
  <2>1. PICK kind, sources, writes :
           /\ Start(v, kind, sources, writes)
           /\ kind = "check" => PathOf(sources[1].file, sources[1].path)
    <3>1. CASE StartCheck(v)
      <4>1. PICK f \in FileSet, writes \in BOOLEAN :
               \E path \in Spellings[f] :
                  Start(v, "check", <<[file |-> f, path |-> path, text |-> files[f]]>>, writes)
        BY <3>1 DEF StartCheck
      <4>2. PICK path \in Spellings[f] :
               Start(v, "check", <<[file |-> f, path |-> path, text |-> files[f]]>>, writes)
        BY <4>1
      <4> PICK sources \in {<<[file |-> f, path |-> path, text |-> files[f]]>>} : TRUE
        OBVIOUS
      <4>3. sources[1].file = f /\ sources[1].path = path
        OBVIOUS
      <4>4. PathOf(sources[1].file, sources[1].path)
        BY <4>3 DEF PathOf
      <4>5. Start(v, "check", sources, writes)
        BY <4>2
      <4> QED BY <4>4, <4>5
    <3>2. CASE StartReconcile(v)
      <4>1. "reconcile" # "check"
        OBVIOUS
      <4> QED BY <3>2, <4>1 DEF StartReconcile
    <3> QED BY <1>5, <3>1, <3>2 DEF CatchUp
  <2>2. Range(<<>>) = {}
    BY NothingLeft DEF Range
  <2>3. RunPaths(run'[v])
    BY <1>1, <2>1, <2>2, StartsDisturb DEF RunPaths
  <2>4. \A w \in Workers \ {v} : SameWork(w)
    BY <1>1, <2>1, StartsDisturb
  <2>5. UNCHANGED documents
    BY <2>1 DEF Start, Rows
  <2> QED BY <1>3, <1>4, <2>3, <2>4, <2>5
<1>6. ASSUME NEW v \in Workers, ReadDatabase(v)
      PROVE  PathsKept'
  <2>1. \A w \in Workers \ {v} : run'[w] = run[w]
    BY <1>1, <1>6, OwnSteps
  <2>2. PICK todo, seen :
           /\ Goto(v, todo, seen)
           /\ \A x \in Range(todo) : x.op = "document" => PathOf(x.document, x.path)
    <3> PICK sources \in {run[v].sources} : TRUE
      OBVIOUS
    <3>1. sources \in Seq(Sources) /\ run[v].writes \in BOOLEAN /\ concepts \in Glossaries
      BY <1>1 DEF Runs, TypeOK
    <3>2. CASE run[v].kind = "check"
      <4>1. Goto(v, CheckPlan(sources[1], concepts, run[v].writes), concepts)
        BY <1>6, <3>2 DEF ReadDatabase
      <4>2. /\ Len(sources) = 1 /\ sources[1].text \in Texts
            /\ PathOf(sources[1].file, sources[1].path)
        BY <1>6, <3>2
        DEF IInv, RunsWellFormed, RunWellFormed, PathsKept, RunPaths, ReadDatabase
      <4>3. sources[1] \in Sources /\ sources[1].text # None
        <5>1. sources \in Seq(Sources) /\ Len(sources) = 1 /\ sources[1].text \in Texts
          BY <3>1, <4>2
        <5>2. sources[1] \in Sources
          <6>1. sources \in Seq(Sources) /\ 1 \in 1 .. Len(sources)
            BY <5>1
          <6> QED BY <6>1, ElementOfSeq
        <5>3. sources[1].text # None
          BY <5>1, NoneAssumption
        <5> QED BY <5>2, <5>3
      <4>4. Range(CheckPlan(sources[1], concepts, run[v].writes))
               = CheckWrites(sources[1], concepts, run[v].writes)
        BY <3>1, <4>3, CheckPlanRange
      <4>5. DocumentWrite(sources[1].file, sources[1].path, sources[1].text)
               \in CheckWrites(sources[1], concepts, run[v].writes)
        BY DEF CheckWrites
      <4>6. ASSUME NEW x \in CheckWrites(sources[1], concepts, run[v].writes),
                   x.op = "document"
            PROVE  PathOf(x.document, x.path)
        <5>1. x = DocumentWrite(sources[1].file, sources[1].path, sources[1].text)
          <6>1. sources[1].file \in FileSet
            BY <4>3 DEF Sources
          <6>2. DocumentWrite(sources[1].file, sources[1].path, sources[1].text).op
                   = "document"
            BY DEF DocumentWrite
          <6> QED BY <4>2, <4>5, <4>6, <6>1, <6>2, CheckWritesAgree
        <5> QED BY <4>2, <5>1 DEF DocumentWrite
      <4> QED BY <4>1, <4>4, <4>6
    <3>3. CASE run[v].kind # "check"
      <4>1. PICK ids \in [FileSet -> FileSet] :
               /\ \A f \in FileSet : ids[f] \in DocumentIdsFor(f)
               /\ Goto(v, ReconcilePlan(sources, ids), None)
        BY <1>6, <3>3 DEF ReadDatabase
      <4>2. \A f \in FileSet : ids[f] = f
        BY <4>1, OwnIds
      <4>3. ASSUME NEW x \in Range(ReconcilePlan(sources, ids)), x.op = "document"
            PROVE  PathOf(x.document, x.path)
        <5>1. PICK k \in DOMAIN sources :
                 x \in SourceWrites(sources[k].file, sources[k].text)
          BY <3>1, <4>2, <4>3, ReconcilePlanRange
        <5>2. x = DocumentWrite(sources[k].file, RelPath[sources[k].file], sources[k].text)
          BY <4>3, <5>1 DEF SourceWrites
        <5> QED BY <5>2 DEF DocumentWrite, PathOf
      <4> QED BY <4>1, <4>3
    <3> QED BY <3>2, <3>3
  <2>3. run' = [run EXCEPT ![v].stage = "write", ![v].todo = todo, ![v].seen = seen]
    BY <2>2 DEF Goto
  <2>4. run'[v].todo = todo /\ run'[v].stage = "write"
    BY <1>1, <2>3 DEF Runs
  <2>5. RunPaths(run'[v])
    BY <2>2, <2>4 DEF RunPaths
  <2>6. UNCHANGED documents
    BY <1>6 DEF ReadDatabase, Rows
  <2> QED BY <1>3, <2>1, <2>5, <2>6 DEF PathsKept
<1>7. ASSUME NEW v \in Workers, Write(v)
      PROVE  PathsKept'
  <2> PICK todo \in {run[v].todo} : TRUE
    OBVIOUS
  <2>1. todo # <<>> /\ (Done(v) \/ Abort(v))
    BY <1>7 DEF Write, WriteDocument, WriteChunk, WriteOccurrence, WriteIssue,
                DeleteRows, RebuildSearch, Does
  <2>2. todo \in Seq(Writes) /\ Head(todo) \in Range(todo) /\ Head(todo) \in Writes
        /\ Range(Tail(todo)) \subseteq Range(todo)
    <3>1. todo \in Seq(Writes)
      BY <1>1 DEF Runs
    <3> QED BY <2>1, <3>1, TodoRange, TailShape
  <2>3. \A w \in Workers : RunPaths(run'[w])
    <3>1. \A w \in Workers \ {v} : run'[w] = run[w]
      BY <1>1, <1>7, OwnSteps
    <3>2. CASE Abort(v)
      <4>1. run'[v] = Idle
        BY <1>1, <3>2 DEF Abort
      <4> QED BY <3>1, <4>1, IdlePaths DEF PathsKept
    <3>3. CASE Done(v)
      <4>1. run' = [run EXCEPT ![v].todo = Tail(todo)]
        BY <3>3 DEF Done
      <4>2. /\ run'[v].todo = Tail(todo) /\ run'[v].stage = run[v].stage
            /\ run'[v].kind = run[v].kind /\ run'[v].sources = run[v].sources
        BY <1>1, <4>1 DEF Runs
      <4>3. RunPaths(run'[v])
        BY <2>2, <4>2 DEF PathsKept, RunPaths
      <4> QED BY <3>1, <4>3 DEF PathsKept
    <3> QED BY <2>1, <3>2, <3>3
  <2>4. CASE WriteDocument(v)
    <3> PICK h \in {Head(todo)} : TRUE
      OBVIOUS
    <3>1. /\ h.op = "document"
          /\ documents' = [documents EXCEPT ![h.document] =
                              [path |-> h.path, text |-> h.text]]
      BY <2>4 DEF WriteDocument, Does
    <3>2. h.document \in FileSet /\ PathOf(h.document, h.path)
      BY <2>2, <3>1, WriteKinds DEF PathsKept, RunPaths
    <3>3. documents'[h.document].path = h.path
      BY <1>1, <3>1, <3>2 DEF TypeOK
    <3>4. \A d \in FileSet \ {h.document} : documents'[d] = documents[d]
      BY <1>1, <3>1 DEF TypeOK
    <3>5. \A d \in FileSet : documents'[d] # None => PathOf(d, documents'[d].path)
      BY <3>2, <3>3, <3>4 DEF PathsKept
    <3> QED BY <2>3, <3>5 DEF PathsKept
  <2>5. CASE ~WriteDocument(v)
    <3>1. UNCHANGED documents
      BY <1>7, <2>5 DEF Write, WriteChunk, WriteOccurrence, WriteIssue, DeleteRows,
                        RebuildSearch
    <3> QED BY <1>3, <2>3, <3>1
  <2> QED BY <2>4, <2>5
<1>8. ASSUME NEW v \in Workers, Finish(v) \/ Crash(v)
      PROVE  PathsKept'
  <2>1. run'[v] = Idle /\ \A w \in Workers \ {v} : run'[w] = run[w]
    BY <1>1, <1>8, OwnSteps
  <2>2. UNCHANGED documents
    BY <1>8 DEF Finish, Crash, Rows
  <2> QED BY <1>3, <2>1, <2>2, IdlePaths DEF PathsKept
<1>9. CASE (\E f \in FileSet : EditFile(f)) \/ (\E c \in Concepts : EditConcept(c))
  <2>1. \A w \in Workers : SameWork(w)
    BY <1>1, <1>9, EditsDisturb
  <2>2. UNCHANGED documents
    BY <1>9 DEF EditFile, EditConcept, Rows
  <2> QED BY <1>3, <1>4, <2>1, <2>2
<1> QED BY <1>2, <1>5, <1>6, <1>7, <1>8, <1>9 DEF Next

-----------------------------------------------------------------------------
(***************************************************************************)
(* A reconcile that nothing disturbed.                                     *)
(***************************************************************************)
ReconcilesOnCourse == \A w \in Workers : run[w].alone => ReconcileOnCourse(run[w])

\* A document write of a reconcile, a delete and a chunk are what their fields say.
LEMMA WriteRecords ==
    ASSUME NEW x \in Writes
    PROVE  /\ x.op = "delete" => x = [op |-> "delete", document |-> x.document]
           /\ x.op = "document" => x = DocumentWrite(x.document, x.path, x.text)
           /\ x.op = "chunk" => x = [op |-> "chunk", chunk |-> x.chunk]
<1>1. x.op = "delete" => x \in [op : {"delete"}, document : FileSet]
  BY DEF Writes
<1>2. x.op = "document" =>
         x \in [op : {"document"}, document : FileSet, path : Paths, text : Texts]
  BY DEF Writes
<1>3. x.op = "chunk" => x \in [op : {"chunk"}, chunk : Chunks]
  BY DEF Writes
<1> QED BY <1>1, <1>2, <1>3 DEF DocumentWrite

\* One write brings each file nearer to what it says.
LEMMA FileStaysOnCourse ==
    ASSUME TypeOK, NEW todo \in Seq(Writes), todo # <<>>, Ordered(todo),
           \A x \in Range(todo) : ReconcileWrite(x),
           NEW f \in FileSet, files[f] # None, FileOnCourse(todo, f),
           NEW h, h = Head(todo), files' = files,
           \/ /\ h.op = "document" /\ chunks' = chunks
              /\ documents' = [documents EXCEPT ![h.document] =
                                  [path |-> h.path, text |-> h.text]]
           \/ /\ h.op = "chunk" /\ documents' = documents
              /\ chunks' = chunks \cup {h.chunk}
           \/ /\ h.op = "delete" /\ documents' = documents
              /\ chunks' = chunks \ {c \in chunks : c.document = h.document}
           \/ /\ h.op = "rebuild" /\ UNCHANGED <<documents, chunks>>
    PROVE  FileOnCourse(Tail(todo), f)'
<1> PICK t \in {Tail(todo)} : TRUE
  OBVIOUS
<1> PICK stored \in {ChunkSet(f, files[f])} : TRUE
  OBVIOUS
<1> PICK row \in {[path |-> RelPath[f], text |-> files[f]]} : TRUE
  OBVIOUS
<1> PICK gone \in {[op |-> "delete", document |-> f]} : TRUE
  OBVIOUS
<1> PICK written \in {DocumentWrite(f, RelPath[f], files[f])} : TRUE
  OBVIOUS
<1> DEFINE chunk(c) == [op |-> "chunk", chunk |-> c]
           Target(docs, stock, list) ==
              \/ gone \in Range(list)
              \/ /\ docs[f] = row \/ written \in Range(list)
                 /\ {c \in stock : c.document = f} \subseteq stored
                 /\ \A c \in stored : c \in stock \/ chunk(c) \in Range(list)
<1>1. Target(documents, chunks, todo)
  BY DEF FileOnCourse
<1>2. SUFFICES Target(documents', chunks', t)
  BY DEF FileOnCourse
<1>3. /\ h \in Range(todo) /\ h \in Writes /\ ReconcileWrite(h)
      /\ \A x \in Range(todo) : x = h \/ x \in Range(t)
  BY TodoRange, TailShape
<1>4. /\ gone.op = "delete" /\ gone.document = f
      /\ written.op = "document" /\ written.document = f
      /\ \A c : chunk(c).op = "chunk" /\ chunk(c).chunk = c
  BY DEF DocumentWrite
<1>5. /\ files[f] \in Texts /\ \A c \in stored : c.document = f
  <2>1. files[f] \in Texts
    BY DEF TypeOK
  <2> QED BY <2>1, ChunkSeqShape
<1> HIDE DEF chunk
<1>6. CASE h.op = "document"
  <2>1. /\ documents' = [documents EXCEPT ![h.document] =
                            [path |-> h.path, text |-> h.text]]
        /\ chunks' = chunks
    BY <1>6
  <2>2. h.document \in FileSet /\ h.path = RelPath[h.document] /\ h.text = files[h.document]
    BY <1>3, <1>6, WriteKinds DEF ReconcileWrite
  <2>3. CASE h.document = f
    <3>1. documents'[f] = row
      BY <2>1, <2>2, <2>3 DEF TypeOK
    <3> QED BY <1>1, <1>3, <1>4, <1>6, <2>1, <3>1
  <2>4. CASE h.document # f
    <3>1. documents'[f] = documents[f]
      BY <2>1, <2>4 DEF TypeOK
    <3> QED BY <1>1, <1>3, <1>4, <1>6, <2>1, <2>4, <3>1
  <2> QED BY <2>3, <2>4
<1>7. CASE h.op = "chunk"
  <2>1. documents' = documents /\ chunks' = chunks \cup {h.chunk}
    BY <1>7
  <2>2. /\ files[h.chunk.document] # None
        /\ h.chunk \in ChunkSet(h.chunk.document, files[h.chunk.document])
    BY <1>3, <1>7 DEF ReconcileWrite
  <2>3. h.chunk.document = f => h.chunk \in stored
    BY <2>2
  <2>4. CASE gone \in Range(todo)
    BY <1>3, <1>4, <1>7, <2>4
  <2>5. CASE gone \notin Range(todo)
    <3>1. {c \in chunks' : c.document = f} \subseteq stored
      BY <1>1, <2>1, <2>3, <2>5
    <3>2. documents'[f] = row \/ written \in Range(t)
      BY <1>1, <1>3, <1>4, <1>7, <2>1, <2>5
    <3>3. \A c \in stored : c \in chunks' \/ chunk(c) \in Range(t)
      <4> SUFFICES ASSUME NEW c \in stored, c \notin chunks'
                   PROVE  chunk(c) \in Range(t)
        OBVIOUS
      <4>1. c # h.chunk /\ chunk(c) \in Range(todo)
        BY <1>1, <2>1, <2>5
      <4> QED BY <1>3, <1>4, <4>1
    <3> QED BY <3>1, <3>2, <3>3
  <2> QED BY <2>4, <2>5
<1>8. CASE h.op = "delete"
  <2>1. documents' = documents /\ chunks' = chunks \ {c \in chunks : c.document = h.document}
    BY <1>8
  <2>2. CASE h.document = f
    <3>1. {c \in chunks' : c.document = f} \subseteq stored
      BY <2>1, <2>2
    <3>2. 1 \in DOMAIN todo /\ todo[1] = h
          /\ \A k \in DOMAIN todo : todo[k] \in Range(todo) /\ todo[k] \in Writes
      <4>1. \A k \in DOMAIN todo : todo[k] \in Writes
        BY LenProperties, ElementOfSeq
      <4> QED BY <4>1, TailShape DEF Range
    <3>3. PICK j \in DOMAIN todo : /\ 1 < j /\ todo[j].op = "document"
                                   /\ todo[j].document = f
      BY <1>8, <2>2, <3>2 DEF Ordered
    <3>4. todo[j] = written
      <4>1. todo[j].path = RelPath[f] /\ todo[j].text = files[f]
        BY <3>2, <3>3 DEF ReconcileWrite
      <4> QED BY <3>2, <3>3, <4>1, WriteRecords
    <3>5. \A k \in DOMAIN todo : 1 < k => todo[k] \in Range(t)
      BY TailShape DEF Range
    <3>6. ASSUME NEW c \in stored
          PROVE  chunk(c) \in Range(t)
      <4>1. c \in ChunkSet(todo[j].document, todo[j].text)
        BY <3>4 DEF DocumentWrite
      <4>2. PICK i \in DOMAIN todo : j < i /\ todo[i].op = "chunk" /\ todo[i].chunk = c
        BY ZenonT(30), <3>3, <4>1 DEF Ordered
      <4>3. todo[i] = chunk(c)
        BY <3>2, <4>2, WriteRecords DEF chunk
      <4>4. 1 < i
        <5>1. i \in Nat /\ j \in Nat
          BY TailShape
        <5> QED BY <3>3, <4>2, <5>1
      <4> QED BY <3>5, <4>3, <4>4
    <3> QED BY <3>1, <3>3, <3>4, <3>5, <3>6
  <2>3. CASE h.document # f
    <3>1. \A c \in chunks : c.document = f => c \in chunks'
      BY <2>1, <2>3
    <3>2. \A c \in chunks' : c \in chunks
      BY <2>1
    <3>3. CASE gone \in Range(todo)
      BY <1>3, <1>4, <2>3, <3>3
    <3>4. CASE gone \notin Range(todo)
      <4>1. documents'[f] = row \/ written \in Range(t)
        BY <1>1, <1>3, <1>4, <1>8, <2>1, <3>4
      <4>2. {c \in chunks' : c.document = f} \subseteq stored
        BY <1>1, <3>2, <3>4
      <4>3. \A c \in stored : c \in chunks' \/ chunk(c) \in Range(t)
        BY <1>1, <1>3, <1>4, <1>5, <1>8, <3>1, <3>4
      <4> QED BY <4>1, <4>2, <4>3
    <3> QED BY <3>3, <3>4
  <2> QED BY <2>2, <2>3
<1>9. CASE h.op = "rebuild"
  BY <1>1, <1>3, <1>4, <1>9
<1> QED BY <1>6, <1>7, <1>8, <1>9

\* One write of a reconcile is done.
LEMMA ReconcileWriteKeeps ==
    ASSUME IInv, NEW w \in Workers, run[w].kind = "reconcile", run[w].stage = "write",
           ReconcileOnCourse(run[w]), Write(w), run'[w].alone
    PROVE  ReconcileOnCourse(run[w])'
<1> PICK todo \in {run[w].todo} : TRUE
  OBVIOUS
<1> PICK t \in {Tail(todo)} : TRUE
  OBVIOUS
<1> PICK h \in {Head(todo)} : TRUE
  OBVIOUS
<1>1. TypeOK /\ run[w] \in Runs /\ run \in [Workers -> Runs]
  BY DEF IInv, TypeOK
<1>2. /\ \A x \in Range(todo) : ReconcileWrite(x)
      /\ \A f \in FileSet : files[f] # None => FileOnCourse(todo, f)
      /\ \A k \in DOMAIN todo : todo[k].op = "rebuild" <=> k = Len(todo)
  BY DEF ReconcileOnCourse
<1>3. ~Abort(w)
  BY <1>1 DEF Abort, Idle
<1>4. todo # <<>> /\ Done(w) /\ files' = files
  BY <1>3 DEF Write, WriteDocument, WriteChunk, WriteOccurrence, WriteIssue,
              DeleteRows, RebuildSearch, Does, Environment
<1>5. run'[w].todo = t /\ run'[w].stage = "write"
  <2>1. run' = [run EXCEPT ![w].todo = t]
    BY <1>4 DEF Done
  <2> QED BY <1>1, <2>1 DEF Runs
<1>6. /\ todo \in Seq(Writes) /\ Ordered(todo)
  BY <1>1 DEF Runs, IInv, RunsWellFormed, RunWellFormed
<1>7. h \in Range(todo) /\ Range(t) \subseteq Range(todo) /\ ReconcileWrite(h)
  BY <1>2, <1>4, <1>6, TodoRange
<1>8. \A x \in Range(t) : ReconcileWrite(x)'
  BY <1>2, <1>4, <1>7 DEF ReconcileWrite
<1>9. \/ /\ h.op = "document" /\ chunks' = chunks
         /\ documents' = [documents EXCEPT ![h.document] =
                             [path |-> h.path, text |-> h.text]]
      \/ /\ h.op = "chunk" /\ documents' = documents
         /\ chunks' = chunks \cup {h.chunk}
      \/ /\ h.op = "delete" /\ documents' = documents
         /\ chunks' = chunks \ {c \in chunks : c.document = h.document}
      \/ /\ h.op = "rebuild" /\ UNCHANGED <<documents, chunks>> /\ SearchIsCurrent'
  <2>1. CASE WriteDocument(w)
    BY <2>1 DEF WriteDocument, Does
  <2>2. CASE WriteChunk(w)
    BY <2>2 DEF WriteChunk, Does
  <2>3. CASE WriteOccurrence(w)
    BY <1>7, <2>3 DEF WriteOccurrence, Does, ReconcileWrite
  <2>4. CASE WriteIssue(w)
    BY <1>7, <2>4 DEF WriteIssue, Does, ReconcileWrite
  <2>5. CASE DeleteRows(w)
    BY <2>5 DEF DeleteRows, Does
  <2>6. CASE RebuildSearch(w)
    <3>1. h.op = "rebuild" /\ UNCHANGED <<documents, chunks>>
      BY <2>6 DEF RebuildSearch, Does
    <3>2. SearchIsCurrent'
      BY <2>6, <3>1 DEF RebuildSearch, SearchIsCurrent
    <3> QED BY <3>1, <3>2
  <2> QED BY <2>1, <2>2, <2>3, <2>4, <2>5, <2>6 DEF Write
<1>10. ASSUME NEW f \in FileSet, files[f] # None
       PROVE  FileOnCourse(t, f)'
  BY <1>1, <1>2, <1>4, <1>6, <1>9, <1>10, FileStaysOnCourse
<1>11. /\ \A k \in DOMAIN t : t[k].op = "rebuild" <=> k = Len(t)
       /\ t = <<>> => h.op = "rebuild"
  <2>1. /\ Len(todo) \in Nat \ {0} /\ DOMAIN todo = 1 .. Len(todo) /\ h = todo[1]
        /\ t \in Seq(Writes) /\ DOMAIN t = 1 .. Len(todo) - 1
        /\ \A k \in DOMAIN t : k + 1 \in DOMAIN todo /\ t[k] = todo[k + 1]
    BY <1>4, <1>6, TailShape
  <2>2. Len(t) = Len(todo) - 1
    BY <1>4, <1>6, HeadTailProperties
  <2>3. \A k \in DOMAIN t : t[k].op = "rebuild" <=> k = Len(t)
    <3> TAKE k \in DOMAIN t
    <3>1. k + 1 = Len(todo) <=> k = Len(t)
      <4>1. k \in Nat /\ Len(todo) \in Nat
        BY <2>1
      <4> QED BY <2>2, <4>1
    <3> QED BY <1>2, <2>1, <3>1
  <2>4. ASSUME t = <<>> PROVE h.op = "rebuild"
    <3>1. Len(t) = 0
      BY <2>4, EmptySeq
    <3>2. Len(todo) = 1
      <4>1. Len(todo) \in Nat
        BY <2>1
      <4> QED BY <2>2, <3>1, <4>1
    <3> QED BY <1>2, <2>1, <3>2
  <2> QED BY <2>3, <2>4
<1>12. t = <<>> => SearchIsCurrent'
  BY <1>9, <1>11
<1> QED BY <1>4, <1>5, <1>8, <1>10, <1>11, <1>12 DEF ReconcileOnCourse

LEMMA ReconcilesStayOnCourse ==
    ASSUME IInv, OthersIdle, PathsApart, PathsKept, ReconcilesOnCourse, [Next]_vars
    PROVE  ReconcilesOnCourse'
<1>1. TypeOK /\ run \in [Workers -> Runs]
  BY DEF IInv, TypeOK
<1> SUFFICES ASSUME NEW w \in Workers, run'[w].alone, run'[w].kind = "reconcile"
             PROVE  ReconcileOnCourse(run[w])'
  BY DEF ReconcilesOnCourse, ReconcileOnCourse
<1>2. CASE StartCheck(w) \/ StartReconcile(w)
  <2>1. StartReconcile(w)
    <3>1. ASSUME StartCheck(w) PROVE FALSE
      <4>1. PICK sources, writes : Start(w, "check", sources, writes)
        BY <3>1 DEF StartCheck
      <4>2. run'[w].kind = "check"
        BY <1>1, <4>1, StartsDisturb
      <4> QED BY <4>2
    <3> QED BY <1>2, <3>1
  <2> PICK sources \in {[k \in DOMAIN Files |->
                           [file |-> Files[k], path |-> RelPath[Files[k]],
                            text |-> files[Files[k]]]]} : TRUE
    OBVIOUS
  <2>2. Start(w, "reconcile", sources, FALSE)
    BY <2>1 DEF StartReconcile
  <2>3. run'[w].stage = "read" /\ run'[w].sources = sources
    BY <1>1, <2>2, StartsDisturb
  <2>4. files' = files
    BY <2>2 DEF Start
  <2> QED BY <2>3, <2>4 DEF ReconcileOnCourse
<1>3. CASE run[w].alone /\ UNCHANGED vars
  <2>1. /\ ReconcileOnCourse(run[w])
        /\ UNCHANGED <<run, files, documents, chunks, search>>
    BY <1>3 DEF ReconcilesOnCourse, vars
  <2> QED BY <2>1 DEF ReconcileOnCourse, ReconcileWrite, FileOnCourse, SearchIsCurrent
<1>4. CASE run[w].alone /\ ReadDatabase(w)
  <2> PICK sources \in {run[w].sources} : TRUE
    OBVIOUS
  <2>1. run[w].kind = "reconcile" /\ run[w].stage = "read" /\ UNCHANGED <<files, Rows>>
    <3>1. PICK todo, seen : Goto(w, todo, seen)
      BY <1>4 DEF ReadDatabase
    <3>2. run' = [run EXCEPT ![w].stage = "write", ![w].todo = todo, ![w].seen = seen]
      BY <3>1 DEF Goto
    <3>3. run'[w].kind = run[w].kind
      BY <1>1, <3>2 DEF Runs
    <3> QED BY <1>4, <3>3 DEF ReadDatabase, Environment
  <2>2. PICK ids \in [FileSet -> FileSet] :
           /\ \A f \in FileSet : ids[f] \in DocumentIdsFor(f)
           /\ Goto(w, ReconcilePlan(sources, ids), None)
    BY <1>4, <2>1 DEF ReadDatabase
  <2>3. \A f \in FileSet : ids[f] = f
    BY <2>2, OwnIds
  <2> PICK plan \in {ReconcilePlan(sources, ids)} : TRUE
    OBVIOUS
  <2>4. run'[w].todo = plan /\ run'[w].stage = "write"
    <3>1. run' = [run EXCEPT ![w].stage = "write", ![w].todo = plan, ![w].seen = None]
      BY <2>2 DEF Goto
    <3> QED BY <1>1, <3>1 DEF Runs
  <2>5. /\ sources \in Seq(Sources) /\ DOMAIN sources = DOMAIN Files
        /\ \A k \in DOMAIN sources : sources[k].file = Files[k]
                                     /\ sources[k].text = files[Files[k]]
        /\ \A k \in DOMAIN sources : Files[k] \in FileSet
    <3>1. sources = [k \in DOMAIN Files |->
                        [file |-> Files[k], path |-> RelPath[Files[k]],
                         text |-> files[Files[k]]]]
      BY <1>4, <2>1 DEF ReconcilesOnCourse, ReconcileOnCourse
    <3>2. sources \in Seq(Sources)
      BY <1>1 DEF Runs
    <3>3. \A k \in DOMAIN Files : Files[k] \in FileSet
      BY DEF FileSet, Range
    <3> QED BY <3>1, <3>2, <3>3
  <2> DEFINE Written(k) == SourceWrites(sources[k].file, sources[k].text)
  <2>6. /\ plan # <<>>
        /\ \A x \in Range(plan) :
              \/ x.op = "rebuild"
              \/ \E k \in DOMAIN sources : sources[k].text # None /\ x \in Written(k)
        /\ \A k \in DOMAIN sources : sources[k].text # None => Written(k) \subseteq Range(plan)
        /\ \A k \in DOMAIN plan : plan[k].op = "rebuild" <=> k = Len(plan)
    BY <2>3, <2>5, ReconcilePlanRange
  <2>7. ASSUME NEW x \in Range(plan)
        PROVE  ReconcileWrite(x)
    <3>1. CASE x.op = "rebuild"
      BY <3>1 DEF ReconcileWrite
    <3>2. CASE x.op # "rebuild"
      <4>1. PICK k \in DOMAIN sources : sources[k].text # None /\ x \in Written(k)
        BY <2>6, <2>7, <3>2
      <4> PICK f \in FileSet : f = Files[k]
        BY <2>5
      <4>2. files[f] # None /\ x \in SourceWrites(f, files[f])
        BY <2>5, <4>1
      <4>3. files[f] \in Texts
        BY <1>1, <4>2 DEF TypeOK
      <4>4. \A c \in ChunkSet(f, files[f]) : c.document = f
        BY <4>3, ChunkSeqShape
      <4> QED BY <4>2, <4>4 DEF SourceWrites, ReconcileWrite, DocumentWrite
    <3> QED BY <3>1, <3>2
  <2>8. ASSUME NEW f \in FileSet, files[f] # None
        PROVE  FileOnCourse(plan, f)
    <3>1. PICK k \in DOMAIN sources : f = Files[k]
      BY <2>5 DEF FileSet, Range
    <3>2. sources[k].file = f /\ sources[k].text = files[f]
      BY <2>5, <3>1
    <3>3. [op |-> "delete", document |-> f] \in Range(plan)
      BY <2>6, <2>8, <3>2 DEF SourceWrites
    <3> QED BY <3>3 DEF FileOnCourse
  <2>9. UNCHANGED <<files, documents, chunks>>
    BY <2>1 DEF Rows
  <2>10. /\ \A x \in Range(plan) : ReconcileWrite(x)'
         /\ \A f \in FileSet : files'[f] # None => FileOnCourse(plan, f)'
    BY <2>7, <2>8, <2>9 DEF ReconcileWrite, FileOnCourse
  <2> HIDE DEF Written
  <2> QED BY <2>4, <2>6, <2>10 DEF ReconcileOnCourse
<1>5. CASE run[w].alone /\ Write(w)
  <2>1. ReconcileOnCourse(run[w])
    BY <1>5 DEF ReconcilesOnCourse
  <2>2. run[w].todo # <<>> /\ Done(w)
    <3>1. ~Abort(w)
      BY <1>1 DEF Abort, Idle
    <3> QED BY <1>5, <3>1
        DEF Write, WriteDocument, WriteChunk, WriteOccurrence, WriteIssue,
            DeleteRows, RebuildSearch, Does
  <2>3. run[w].kind = "reconcile" /\ run[w].stage = "write"
    <3>1. run'[w].kind = run[w].kind /\ RunWellFormed(run[w])
      BY <2>2, WriteShape DEF RunsWellFormed
    <3> QED BY <2>2, <3>1 DEF RunWellFormed
  <2> QED BY <1>5, <2>1, <2>3, ReconcileWriteKeeps
<1> QED BY <1>1, <1>2, <1>3, <1>4, <1>5, AloneActs

\* If no file can be named by the path of another, a reconcile that was not
\* disturbed has repaired the project (reconcile_project): every file's document
\* and chunks are those of its text, the search rows are the chunks, and no file
\* is new or changed, whatever earlier runs had left.
THEOREM UndisturbedReconcileRepairs ==
    ASSUME PathsApart
    PROVE  Spec => ReconcileRepairs
<1> DEFINE Inv == IInv /\ OthersIdle /\ PathsKept /\ ReconcilesOnCourse
           Repaired ==
              /\ PendingFiles' = {} /\ StaleFiles' = {}
              /\ \A f \in FileSet : files[f] # None =>
                    LET stored == ChunkSet(f, files[f])
                    IN  /\ {c \in chunks' : c.document = f} = stored
                        /\ {s.chunk : s \in {x \in search' : x.document = f}} = stored
           Step == \A w \in Workers : EndsUndisturbed(w, "reconcile") => Repaired
<1>1. Init => Inv
  <2>1. Init => OthersIdle /\ ReconcilesOnCourse
    BY DEF Init, Idle, OthersIdle, ReconcilesOnCourse
  <2>2. Init => PathsKept
    BY IdlePaths DEF Init, PathsKept
  <2> QED BY <2>1, <2>2, InitEstablishes
<1>2. Inv /\ [Next]_vars => Inv'
  <2> SUFFICES ASSUME Inv, [Next]_vars PROVE Inv'
    OBVIOUS
  <2>1. IInv'
    BY NextKeeps
  <2>2. OthersIdle'
    <3>1. TypeOK
      BY DEF IInv
    <3> QED BY <3>1, AloneActs DEF OthersIdle
  <2>3. PathsKept'
    BY PathsStay
  <2>4. ReconcilesOnCourse'
    BY ReconcilesStayOnCourse
  <2> QED BY <2>1, <2>2, <2>3, <2>4
<1>3. ASSUME Inv, [Next]_vars, NEW w \in Workers, EndsUndisturbed(w, "reconcile")
      PROVE  Repaired
  <2>1. UNCHANGED <<files, documents, chunks, search>>
    BY <1>3, EndsQuietly DEF EndsUndisturbed, Rows
  <2>2. /\ run[w].todo = <<>> /\ run[w].stage = "write" /\ run[w].kind = "reconcile"
        /\ ReconcileOnCourse(run[w]) /\ TypeOK
    BY <1>3 DEF EndsUndisturbed, ReconcilesOnCourse, IInv
  <2>3. SearchIsCurrent /\ \A f \in FileSet : files[f] # None => FileOnCourse(<<>>, f)
    BY <2>2 DEF ReconcileOnCourse
  <2>4. Range(<<>>) = {}
    BY NothingLeft DEF Range
  <2>5. \A f \in FileSet : files[f] # None =>
           /\ documents[f] = [path |-> RelPath[f], text |-> files[f]]
           /\ {c \in chunks : c.document = f} \subseteq ChunkSet(f, files[f])
           /\ ChunkSet(f, files[f]) \subseteq chunks
    BY <2>3, <2>4 DEF FileOnCourse
  <2>6. \A f \in FileSet : files[f] # None =>
           /\ files[f] \in Texts /\ ChunkSet(f, files[f]) # {}
           /\ \A c \in ChunkSet(f, files[f]) : c.document = f
    <3> SUFFICES ASSUME NEW f \in FileSet, files[f] # None
                 PROVE  /\ files[f] \in Texts /\ ChunkSet(f, files[f]) # {}
                        /\ \A c \in ChunkSet(f, files[f]) : c.document = f
      OBVIOUS
    <3>1. files[f] \in Texts
      BY <2>2 DEF TypeOK
    <3>2. 1 \in DOMAIN ChunkSeq(f, files[f])
      BY <3>1, ChunkSeqShape
    <3>3. ChunkSeq(f, files[f])[1] \in ChunkSet(f, files[f])
      BY <3>2 DEF ChunkSet, Range
    <3> QED BY <3>1, <3>3, ChunkSeqShape
  <2>7. PendingFiles = {} /\ StaleFiles = {}
    <3>1. ASSUME NEW f \in FileSet, files[f] # None
          PROVE  /\ f \in IndexedAs(f)
                 /\ \A d \in IndexedAs(f) : documents[d].text = files[f]
      <4>1. /\ documents[f] = [path |-> RelPath[f], text |-> files[f]]
            /\ documents[f] \in DocumentRows \cup {None}
        BY <2>2, <2>5, <3>1 DEF TypeOK
      <4>2. documents[f] # None
        <5>1. [path |-> RelPath[f], text |-> files[f]] \in DocumentRows
          BY <2>6, <3>1 DEF DocumentRows, Paths
        <5> QED BY <4>1, <5>1, NoneAssumption
      <4>3. f \in IndexedAs(f)
        BY <4>1, <4>2 DEF IndexedAs
      <4>4. IndexedAs(f) \subseteq {f}
        BY <1>3, OwnIds
      <4> QED BY <4>1, <4>3, <4>4
    <3> QED BY <3>1 DEF PendingFiles, StaleFiles
  <2>8. PendingFiles' = {} /\ StaleFiles' = {}
    BY <2>1, <2>7 DEF PendingFiles, StaleFiles, IndexedAs
  <2>9. ASSUME NEW f \in FileSet, files[f] # None
        PROVE  /\ {c \in chunks : c.document = f} = ChunkSet(f, files[f])
               /\ {s.chunk : s \in {x \in search : x.document = f}} = ChunkSet(f, files[f])
    <3> PICK stored \in {ChunkSet(f, files[f])} : TRUE
      OBVIOUS
    <3>1. stored # {} /\ \A c \in chunks : c.document = f <=> c \in stored
      BY <2>5, <2>6, <2>9
    <3>2. stored \subseteq chunks
      BY <2>5, <2>9
    <3>3. {c \in chunks : c.document = f} = stored
      BY <3>1, <3>2
    <3>4. ASSUME NEW x \in search, x.document = f
          PROVE  x.chunk \in stored
      <4>1. x \in {[document |-> c.document, chunk |-> c] : c \in chunks}
            \/ \E d \in FileSet : /\ x = [document |-> d, chunk |-> None]
                                  /\ \A c \in chunks : c.document # d
        BY <2>3, <3>4 DEF SearchIsCurrent
      <4> QED BY <3>1, <3>2, <3>4, <4>1
    <3>5. ASSUME NEW c \in stored
          PROVE  \E x \in search : x.document = f /\ x.chunk = c
      <4>1. [document |-> c.document, chunk |-> c] \in search
        BY <2>3, <3>2 DEF SearchIsCurrent
      <4> QED BY <3>1, <3>2, <4>1
    <3> QED BY <3>3, <3>4, <3>5
  <2> QED BY <2>1, <2>8, <2>9
<1>4. Inv /\ [Next]_vars => [Step]_vars
  BY <1>3
<1>5. Spec => []Inv
  BY <1>1, <1>2, PTL DEF Spec
<1>6. Spec => [][Step]_vars
  BY <1>4, <1>5, PTL DEF Spec
<1> QED BY <1>6 DEF ReconcileRepairs
=============================================================================
