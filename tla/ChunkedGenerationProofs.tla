---------------------- MODULE ChunkedGenerationProofs ----------------------
(***************************************************************************)
(* Proofs about ChunkedGeneration: records are kept while they move from   *)
(* file to file, outputs are in order, and a .done file tells the truth,   *)
(* for any numbers of chunks, samples, jobs, submissions and stops.        *)
(***************************************************************************)
EXTENDS ChunkedGeneration, FiniteSetTheorems, SequenceTheorems, WellFoundedInduction, TLAPS

LEMMA Constants ==
    /\ NumChunks \in Nat \ {0} /\ NumSamples \in Nat /\ DependentJobs \in Nat
    /\ Hole \notin Nat /\ NoFile \notin Seq(Nat \cup {Hole})
    /\ \A m \in Modes : m.sequential \in BOOLEAN /\ m.submits \in Nat /\ m.stops \in Nat
BY ChunkedGenerationAssumption DEF Mode

-----------------------------------------------------------------------------
(* calculate_chunk_indices: the chunks partition the data.                 *)

Size(c) == End(c) - Start(c)

LEMMA Division ==
    /\ BaseSize \in Nat /\ Remainder \in 0..(NumChunks - 1)
    /\ NumSamples = NumChunks * BaseSize + Remainder
BY Constants DEF BaseSize, Remainder

\* Each chunk begins where the one before it ends, the first at the first sample, and the
\* last one ends with the last sample; their sizes differ by one at most.
LEMMA Partition ==
    /\ Start(0) = 0
    /\ \A c \in Chunks : /\ Start(c) \in 0..NumSamples /\ End(c) \in 0..NumSamples
                         /\ Size(c) \in {BaseSize, BaseSize + 1} /\ Size(c) \in Nat
                         /\ End(c) = Start(c) + Size(c)
                         /\ End(c) = IF c = NumChunks - 1 THEN NumSamples ELSE Start(c + 1)
<1>1. /\ BaseSize \in Nat /\ Remainder \in 0..(NumChunks - 1) /\ NumChunks \in Nat \ {0}
      /\ NumSamples = NumChunks * BaseSize + Remainder
    BY Division, Constants
<1> QED  BY <1>1 DEF Chunks, Start, End, Size

LEMMA ChunkBounds ==
    ASSUME NEW c \in Chunks
    PROVE  /\ Start(c) \in Nat /\ Size(c) \in Nat /\ Start(c) + Size(c) <= NumSamples
           /\ Chunk(c) = Start(c)..(Start(c) + Size(c) - 1)
           /\ Chunk(c) \subseteq Samples
<1>1. Start(c) \in 0..NumSamples /\ End(c) \in 0..NumSamples /\ Size(c) \in Nat /\ End(c) = Start(c) + Size(c)
    BY Partition
<1>2. Chunk(c) = Start(c)..(Start(c) + Size(c) - 1)
    BY <1>1 DEF Chunk
<1> QED  BY <1>1, <1>2, Constants DEF Samples

\* At least one sample for each chunk: the scripts are run with fewer chunks than samples.
Full == NumChunks <= NumSamples

LEMMA NonEmpty == ASSUME Full, NEW c \in Chunks  PROVE Size(c) > 0
<1>1. /\ BaseSize \in Nat /\ Remainder \in 0..(NumChunks - 1) /\ NumChunks \in Nat \ {0}
      /\ NumSamples = NumChunks * BaseSize + Remainder
    BY Division, Constants
<1>2. BaseSize > 0
    BY <1>1 DEF Full
<1> QED  BY <1>1, <1>2, Partition

-----------------------------------------------------------------------------
(* Files.                                                                  *)

Distinct(s) == \A i, j \in DOMAIN s : s[i] = s[j] => i = j

LEMMA IsFile == /\ NoFile \notin Seq(Samples) /\ NoFile \notin Seq(Samples \cup {Hole})
                /\ <<>> \in Seq(Samples) /\ <<>> \in Seq(Samples \cup {Hole}) /\ <<>> # NoFile
<1>1. Samples \subseteq Nat
    BY Constants DEF Samples
<1>2. \A s \in Seq(Samples) : s \in Seq(Nat \cup {Hole})
    BY <1>1, SeqMonotonic
<1>3. \A s \in Seq(Samples \cup {Hole}) : s \in Seq(Nat \cup {Hole})
    BY <1>1, SeqMonotonic
<1>4. <<>> \in Seq(Samples) /\ <<>> \in Seq(Samples \cup {Hole})
    BY EmptySeq
<1> QED  BY <1>2, <1>3, <1>4, Constants

LEMMA Grown ==
    ASSUME NEW S, NEW s \in Seq(S), NEW x \in S
    PROVE  /\ Append(s, x) \in Seq(S) /\ Len(Append(s, x)) = Len(s) + 1
           /\ DOMAIN Append(s, x) = 1..(Len(s) + 1) /\ DOMAIN s = 1..Len(s) /\ Len(s) \in Nat
           /\ \A i \in 1..Len(s) : Append(s, x)[i] = s[i]
           /\ Append(s, x)[Len(s) + 1] = x
           /\ ToSet(Append(s, x)) = ToSet(s) \cup {x}
           /\ Distinct(s) /\ x \notin ToSet(s) => Distinct(Append(s, x))
<1>1. /\ Append(s, x) \in Seq(S) /\ Len(Append(s, x)) = Len(s) + 1
      /\ \A i \in 1..Len(s) : Append(s, x)[i] = s[i]
      /\ Append(s, x)[Len(s) + 1] = x
    BY AppendProperties
<1>2. DOMAIN Append(s, x) = 1..(Len(s) + 1) /\ DOMAIN s = 1..Len(s) /\ Len(s) \in Nat
    BY <1>1, LenProperties
<1>3. ToSet(Append(s, x)) = ToSet(s) \cup {x}
    BY <1>1, <1>2 DEF ToSet
<1>4. ASSUME Distinct(s), x \notin ToSet(s)  PROVE Distinct(Append(s, x))
    BY <1>1, <1>2, <1>4 DEF Distinct, ToSet
<1> QED  BY <1>1, <1>2, <1>3, <1>4

\* A file with every sample of a chunk once is as long as the chunk.
LEMMA Counted ==
    ASSUME NEW c \in Chunks, NEW s \in Seq(Samples), Distinct(s), ToSet(s) = Chunk(c)
    PROVE  Len(s) = Size(c)
<1>1. s \in [1..Len(s) -> Chunk(c)] /\ Len(s) \in Nat /\ DOMAIN s = 1..Len(s)
    <2>1. s \in [1..Len(s) -> Samples] /\ Len(s) \in Nat /\ DOMAIN s = 1..Len(s)
        BY LenProperties
    <2> QED  BY <2>1 DEF ToSet
<1>2. s \in Bijection(1..Len(s), Chunk(c))
    BY <1>1 DEF Bijection, Injection, Surjection, IsInjective, Distinct, ToSet
<1>3. IsFiniteSet(1..Len(s)) /\ Cardinality(1..Len(s)) = Len(s)
    <2>1. 1 \in Int /\ Len(s) \in Int
        BY <1>1
    <2>2. IsFiniteSet(1..Len(s)) /\ Cardinality(1..Len(s)) = IF 1 > Len(s) THEN 0 ELSE Len(s) - 1 + 1
        BY <2>1, FS_Interval
    <2> QED  BY <1>1, <2>2
<1>4. Cardinality(Chunk(c)) = Len(s)
    BY <1>2, <1>3, FS_Bijection DEF ExistsBijection
<1>5. Cardinality(Chunk(c)) = Size(c)
    <2> DEFINE a == Start(c)
               b == Start(c) + Size(c) - 1
    <2>1. a \in Int /\ b \in Int /\ Chunk(c) = a..b /\ Size(c) = IF a > b THEN 0 ELSE b - a + 1
        BY ChunkBounds
    <2> HIDE DEF a, b
    <2> QED  BY <2>1, FS_Interval
<1> QED  BY <1>4, <1>5

\* cat: nothing but the data and unwritten bytes is added, and at the end of the file
\* nothing is overwritten.
LEMMA WrittenFile ==
    ASSUME NEW S, Hole \in S, NEW f \in Seq(S), NEW data \in Seq(S), NEW off \in Nat
    PROVE  /\ Written(f, off, data) \in Seq(S)
           /\ ToSet(Written(f, off, data)) \subseteq ToSet(f) \cup ToSet(data) \cup {Hole}
           /\ ToSet(data) \subseteq ToSet(Written(f, off, data))
           /\ off = Len(f) => /\ Len(Written(f, off, data)) = off + Len(data)
                              /\ ToSet(f) \subseteq ToSet(Written(f, off, data))
<1> DEFINE end == off + Len(data)
           len == IF Len(f) > end THEN Len(f) ELSE end
           w   == [k \in 1..len |-> IF k \in (off + 1)..end THEN data[k - off]
                                    ELSE IF k <= Len(f) THEN f[k] ELSE Hole]
<1>1. /\ Len(f) \in Nat /\ DOMAIN f = 1..Len(f) /\ \A i \in 1..Len(f) : f[i] \in S
      /\ Len(data) \in Nat /\ DOMAIN data = 1..Len(data) /\ \A i \in 1..Len(data) : data[i] \in S
    BY LenProperties, ElementOfSeq
<1>2. Written(f, off, data) = w
    BY DEF Written
<1>3. len \in Nat /\ DOMAIN w = 1..len
    BY <1>1
<1>4. \A k \in 1..len : w[k] \in S
    BY <1>1
<1>5. w \in Seq(S) /\ Len(w) = len
    <2>1. w \in [1..len -> S]
        BY <1>4
    <2> HIDE DEF w, len
    <2>2. w \in Seq(S)
        BY <1>3, <2>1, SeqDef
    <2> QED  BY <1>3, <2>2, LenProperties
<1>6. ToSet(w) \subseteq ToSet(f) \cup ToSet(data) \cup {Hole}
    <2> SUFFICES ASSUME NEW k \in 1..len
                 PROVE  w[k] \in {f[i] : i \in 1..Len(f)} \cup {data[i] : i \in 1..Len(data)} \cup {Hole}
        BY <1>1, <1>3 DEF ToSet
    <2>1. k \in (off + 1)..end => k - off \in 1..Len(data) /\ w[k] = data[k - off]
        BY <1>1
    <2>2. k \notin (off + 1)..end => (k \in 1..Len(f) /\ w[k] = f[k]) \/ w[k] = Hole
        BY <1>1, <1>3
    <2> HIDE DEF w, end, len
    <2> QED  BY <2>1, <2>2
<1>7. ToSet(data) \subseteq ToSet(w)
    <2> SUFFICES ASSUME NEW i \in 1..Len(data)  PROVE \E k \in 1..len : w[k] = data[i]
        BY <1>1, <1>3 DEF ToSet
    <2>1. off + i \in 1..len /\ off + i \in (off + 1)..end /\ (off + i) - off = i
        BY <1>1
    <2> QED  BY <2>1
<1>8. ASSUME off = Len(f)  PROVE len = off + Len(data) /\ ToSet(f) \subseteq ToSet(w)
    <2>1. len = off + Len(data)
        BY <1>1, <1>8
    <2>2. \A i \in 1..Len(f) : i \in 1..len /\ w[i] = f[i]
        BY <1>1, <1>8
    <2> QED  BY <1>1, <1>3, <2>1, <2>2 DEF ToSet
<1> HIDE DEF w, len
<1> QED  BY <1>2, <1>5, <1>6, <1>7, <1>8

LEMMA Put ==
    ASSUME NEW c \in Chunks, async[c] \in Seq(Samples), Distinct(async[c]), ToSet(async[c]) = Chunk(c),
           NEW k \in 1..Len(async[c])
    PROVE  Ordered(c)[k] = Start(c) + k - 1 /\ Start(c) + k - 1 \in Samples
<1>1. Len(async[c]) = Size(c) /\ DOMAIN async[c] = 1..Len(async[c])
    BY Counted, LenProperties
<1>2. Start(c) + k - 1 \in Chunk(c) /\ Start(c) + k - 1 \in Samples
    <2>1. Start(c) + k - 1 \in Chunk(c)
        BY <1>1, ChunkBounds
    <2> QED  BY <2>1, ChunkBounds
<1>3. Ordered(c)[k] = CHOOSE i \in ToSet(async[c]) : i = Start(c) + k - 1
    BY <1>1 DEF Ordered
<1> QED  BY <1>2, <1>3

-----------------------------------------------------------------------------
(* The concatenation that merge_chunks writes (FlattenSeq), by induction   *)
(* from the least number of a set.                                         *)

LEMMA Least ==
    ASSUME NEW T, T \subseteq Nat, T # {}
    PROVE  \E n \in T : \A m \in T : n <= m
<1> DEFINE R == {p \in Nat \X Nat : p[1] < p[2]}
<1>1. IsWellFoundedOn(R, Nat)
    BY NatLessThanWellFounded DEF OpToRel
<1>2. PICK n \in T : \A m \in T : <<m, n>> \notin R
    <2> HIDE DEF R
    <2> QED  BY <1>1, WFMin
<1>3. ASSUME NEW m \in T  PROVE n <= m
    <2>1. m \in Nat /\ n \in Nat /\ ~(m < n)
        BY <1>2
    <2> QED  BY <2>1
<1> QED  BY <1>3

\* The function that FlattenSeq computes
Flattening(f, s, n) == f = [i \in 1..n |-> IF i = 1 THEN s[i] ELSE f[i - 1] \o s[i]]

LEMMA FlatteningExists == ASSUME NEW s, NEW N \in Nat  PROVE \E f : Flattening(f, s, N)
<1> DEFINE T == {n \in Nat : ~(\E f : Flattening(f, s, n))}
<1>1. ASSUME T # {}  PROVE FALSE
    <2>1. PICK n \in T : \A m \in T : n <= m
        <3>1. T \subseteq Nat
            OBVIOUS
        <3> HIDE DEF T
        <3> QED  BY <1>1, <3>1, Least
    <2>2. n \in Nat /\ ~(\E f : Flattening(f, s, n))
        OBVIOUS
    <2>3. n # 0
        <3> DEFINE e == [i \in 1..0 |-> 0]
        <3>1. Flattening(e, s, 0)
            <4>1. 1..0 = {}
                OBVIOUS
            <4> QED  BY <4>1 DEF Flattening
        <3> QED  BY <2>2, <3>1
    <2>4. n - 1 \in Nat /\ n - 1 \notin T
        BY <2>1, <2>2, <2>3
    <2>5. PICK f : Flattening(f, s, n - 1)
        BY <2>4
    <2> DEFINE g == [i \in 1..n |-> IF i = 1 THEN s[i] ELSE f[i - 1] \o s[i]]
    <2>6. \A i \in 1..(n - 1) : g[i] = f[i]
        <3> TAKE i \in 1..(n - 1)
        <3>1. i \in 1..n
            BY <2>2
        <3>2. g[i] = IF i = 1 THEN s[i] ELSE f[i - 1] \o s[i]
            BY <3>1
        <3>3. f[i] = IF i = 1 THEN s[i] ELSE f[i - 1] \o s[i]
            BY <2>5 DEF Flattening
        <3> QED  BY <3>2, <3>3
    <2>7. \A i \in 1..n : g[i] = IF i = 1 THEN s[i] ELSE g[i - 1] \o s[i]
        <3> TAKE i \in 1..n
        <3>1. CASE i = 1
            BY <3>1
        <3>2. CASE i # 1
            <4>1. i - 1 \in 1..(n - 1)
                BY <2>2, <3>2
            <4>2. g[i - 1] = f[i - 1]
                BY <2>6, <4>1
            <4> QED  BY <3>2, <4>2
        <3> QED  BY <3>1, <3>2
    <2>8. Flattening(g, s, n)
        <3>1. g = [i \in 1..n |-> g[i]]
            OBVIOUS
        <3> HIDE DEF g
        <3> QED  BY <2>7, <3>1 DEF Flattening
    <2> QED  BY <2>2, <2>8
<1> QED  BY <1>1

LEMMA FlatteningsAgree ==
    ASSUME NEW s, NEW t, NEW f, NEW g, NEW n \in Nat,
           Flattening(f, s, n), Flattening(g, t, n + 1), \A i \in 1..n : s[i] = t[i]
    PROVE  \A i \in 1..n : f[i] = g[i]
<1> DEFINE T == {i \in 1..n : f[i] # g[i]}
<1>1. ASSUME T # {}  PROVE FALSE
    <2>1. PICK i \in T : \A j \in T : i <= j
        <3>1. T \subseteq Nat
            OBVIOUS
        <3> HIDE DEF T
        <3> QED  BY <1>1, <3>1, Least
    <2>2. i \in 1..n /\ i \in 1..(n + 1) /\ f[i] # g[i] /\ s[i] = t[i]
        OBVIOUS
    <2>3. /\ f[i] = IF i = 1 THEN s[i] ELSE f[i - 1] \o s[i]
          /\ g[i] = IF i = 1 THEN t[i] ELSE g[i - 1] \o t[i]
        BY <2>2 DEF Flattening
    <2>4. i # 1
        BY <2>2, <2>3
    <2>5. i - 1 \in 1..n /\ i - 1 \notin T
        BY <2>1, <2>2, <2>4
    <2>6. f[i - 1] = g[i - 1]
        BY <2>5
    <2> QED  BY <2>2, <2>3, <2>6
<1> QED  BY <1>1

LEMMA FlattenIs ==
    ASSUME NEW s, Len(s) \in Nat, Len(s) # 0
    PROVE  \E f : Flattening(f, s, Len(s)) /\ FlattenSeq(s) = f[Len(s)]
<1> DEFINE F == CHOOSE f : Flattening(f, s, Len(s))
<1>1. FlattenSeq(s) = F[Len(s)]
    BY DEF FlattenSeq, Flattening
<1>2. Flattening(F, s, Len(s))
    BY FlatteningExists
<1> QED  BY <1>1, <1>2

\* Flattening one sequence more
LEMMA FlattenAppend ==
    ASSUME NEW S, NEW s \in Seq(Seq(S)), NEW x \in Seq(S)
    PROVE  FlattenSeq(<<>>) = <<>> /\ FlattenSeq(Append(s, x)) = FlattenSeq(s) \o x
<1> DEFINE t == Append(s, x)
           n == Len(s)
<1>1. /\ n \in Nat /\ Len(t) = n + 1 /\ t \in Seq(Seq(S))
      /\ t[n + 1] = x /\ \A i \in 1..n : s[i] = t[i]
    BY AppendProperties, LenProperties
<1>2. FlattenSeq(<<>>) = <<>>
    BY EmptySeq DEF FlattenSeq
<1> HIDE DEF t, n
<1>3. PICK g : Flattening(g, t, n + 1) /\ FlattenSeq(t) = g[n + 1]
    <2>1. Len(t) \in Nat /\ Len(t) # 0 /\ Len(t) = n + 1
        BY <1>1
    <2>2. \E g : Flattening(g, t, Len(t)) /\ FlattenSeq(t) = g[Len(t)]
        BY <2>1, FlattenIs
    <2> QED  BY <2>1, <2>2
<1>4. g[n + 1] = IF n + 1 = 1 THEN x ELSE g[n] \o x
    <2>1. n + 1 \in 1..(n + 1) /\ (n + 1) - 1 = n
        BY <1>1
    <2>2. g[n + 1] = IF n + 1 = 1 THEN t[n + 1] ELSE g[(n + 1) - 1] \o t[n + 1]
        BY <1>3, <2>1 DEF Flattening
    <2> QED  BY <1>1, <2>1, <2>2
<1>5. CASE n = 0
    <2>1. s = <<>>
        BY <1>5, EmptySeq DEF n
    <2> QED  BY <1>2, <1>3, <1>4, <1>5, <2>1, ConcatEmptySeq DEF t
<1>6. CASE n # 0
    <2>1. PICK f : Flattening(f, s, n) /\ FlattenSeq(s) = f[n]
        BY <1>1, <1>6, FlattenIs DEF n
    <2>2. f[n] = g[n]
        <3>1. n \in 1..n /\ n + 1 \in Nat /\ n <= n /\ n <= n + 1
            BY <1>1, <1>6
        <3>2. \A i \in 1..n : f[i] = g[i]
            <4>1. /\ Flattening(f, s, n) /\ Flattening(g, t, n + 1)
                  /\ \A i \in 1..n : s[i] = t[i]
                BY <1>1, <1>3, <2>1
            <4> HIDE DEF Flattening
            <4> QED  BY ONLY <1>1, <3>1, <4>1, FlatteningsAgree
        <3> QED  BY <3>1, <3>2
    <2> QED  BY <1>1, <1>2, <1>3, <1>4, <1>6, <2>1, <2>2 DEF t
<1> QED  BY <1>1, <1>5, <1>6

\* Writing at the end of a file is concatenation.
LEMMA WrittenAtEnd ==
    ASSUME NEW S, Hole \in S, NEW f \in Seq(S), NEW data \in Seq(S)
    PROVE  /\ Written(f, Len(f), data) = f \o data
           /\ Len(Written(f, Len(f), data)) = Len(f) + Len(data)
           /\ ToSet(Written(f, Len(f), data)) \subseteq ToSet(f) \cup ToSet(data) \cup {Hole}
           /\ ToSet(f) \cup ToSet(data) \subseteq ToSet(Written(f, Len(f), data))
<1>1. /\ Len(f) \in Nat /\ Len(data) \in Nat /\ f \o data \in Seq(S)
      /\ Len(f \o data) = Len(f) + Len(data)
      /\ \A i \in 1..Len(f) + Len(data) : (f \o data)[i] = IF i <= Len(f) THEN f[i] ELSE data[i - Len(f)]
    BY LenProperties, ConcatProperties
<1>2. f \o data = [i \in 1..Len(f) + Len(data) |-> (f \o data)[i]]
    BY <1>1, LenProperties
<1>3. Written(f, Len(f), data)
        = [k \in 1..Len(f) + Len(data) |-> IF k <= Len(f) THEN f[k] ELSE data[k - Len(f)]]
    BY <1>1 DEF Written
<1>4. ASSUME NEW off \in Nat, off = Len(f)
      PROVE  /\ ToSet(Written(f, off, data)) \subseteq ToSet(f) \cup ToSet(data) \cup {Hole}
             /\ ToSet(f) \cup ToSet(data) \subseteq ToSet(Written(f, off, data))
    <2>1. ToSet(data) \subseteq ToSet(Written(f, off, data))
        BY WrittenFile
    <2>2. ToSet(Written(f, off, data)) \subseteq ToSet(f) \cup ToSet(data) \cup {Hole}
        BY WrittenFile
    <2>3. ToSet(f) \subseteq ToSet(Written(f, off, data))
        BY <1>4, WrittenFile
    <2> QED  BY <2>1, <2>2, <2>3
<1> QED  BY <1>1, <1>2, <1>3, <1>4

-----------------------------------------------------------------------------
(* The inductive invariant: what the files of a chunk have, and where its  *)
(* job is.                                                                 *)

Kept(c) ==
    /\ async[c] # NoFile => Distinct(async[c]) /\ ToSet(async[c]) \subseteq Chunk(c)
    /\ out[c] # NoFile =>
          Len(out[c]) <= Size(c) /\ \A k \in DOMAIN out[c] : out[c][k] = Start(c) + k - 1

\* The chunk needs no more generation: its output is there, or all was merged, or a job was
\* stopped before it could restore the order.
Settled(c) == out[c] # NoFile \/ merged # NoFile \/ Chunk(c) \subseteq Filled(c)

Placed(c) ==
    /\ pc[c] = "generate" => async[c] # NoFile /\ todo[c] = Chunk(c) \ Filled(c) /\ todo[c] # {}
    /\ pc[c] \in {"restore", "write"} => async[c] # NoFile /\ Filled(c) = Chunk(c)
    /\ pc[c] \in {"generate", "restore"} => out[c] = NoFile
    /\ pc[c] = "write" => out[c] # NoFile
    /\ done[c] => pc[c] \notin {"generate", "restore", "write"}
    /\ done[c] \/ pc[c] = "touch" => Settled(c)

\* A merge begins when all chunks are done.
Merging(c) ==
    /\ pc[c] = "check" => \A d \in Chunks : d < at[c] => done[d]
    /\ pc[c] \in {"open", "cat", "mark", "remove"} => \A d \in Chunks : done[d]
    /\ pc[c] \in {"cat", "mark", "remove"} => merged # NoFile
    /\ pc[c] = "cat" => offset[c] <= Start(at[c])
    /\ pc[c] = "remove" => mergedDone

Begun == merged # NoFile => \A d \in Chunks : done[d]

Inv == TypeOK /\ Begun /\ \A c \in Chunks : Kept(c) /\ Placed(c) /\ Merging(c)

LEMMA InitInv == Init => Inv
<1> SUFFICES ASSUME Init  PROVE Inv
    OBVIOUS
<1>1. 0 \in Chunks /\ 0 \in 0..NumSamples /\ 0 \in 0..(DependentJobs + 1)
    BY Constants DEF Chunks
<1>2. 0 \in 0..mode.submits /\ 0 \in 0..mode.stops
    BY Constants DEF Init
<1>3. TypeOK
    BY <1>1, <1>2 DEF Init, TypeOK, Labels
<1>4. ASSUME NEW c \in Chunks  PROVE Kept(c) /\ Placed(c) /\ Merging(c)
    BY <1>4 DEF Init, Kept, Placed, Merging
<1> QED  BY <1>3, <1>4 DEF Inv, Begun, Init

\* The record that restore_async_order writes next.
LEMMA NextRecord ==
    ASSUME Inv, NEW c \in Chunks, RestoreWrite(c)
    PROVE  /\ out[c] \in Seq(Samples) /\ Start(c) + Len(out[c]) \in Samples
           /\ out' = [out EXCEPT ![c] = Append(out[c], Start(c) + Len(out[c]))]
           /\ Len(out[c]) + 1 <= Size(c)
<1>1. /\ out[c] \in Seq(Samples) /\ async[c] \in Seq(Samples)
      /\ Distinct(async[c]) /\ ToSet(async[c]) = Chunk(c) /\ Len(out[c]) < Len(async[c])
    BY DEF RestoreWrite, At, Inv, TypeOK, Kept, Placed, Filled
<1>2. Len(out[c]) \in Nat /\ Len(async[c]) \in Nat /\ Len(async[c]) = Size(c) /\ Start(c) \in Nat
    BY <1>1, LenProperties, Counted, ChunkBounds
<1>3. Len(out[c]) + 1 \in 1..Len(async[c]) /\ Start(c) + (Len(out[c]) + 1) - 1 = Start(c) + Len(out[c])
    BY <1>1, <1>2
<1>4. Ordered(c)[Len(out[c]) + 1] = Start(c) + Len(out[c]) /\ Start(c) + Len(out[c]) \in Samples
    BY <1>1, <1>3, Put
<1> QED  BY <1>1, <1>2, <1>3, <1>4 DEF RestoreWrite

\* The loop of merge_chunks over the input files
LEMMA Turned ==
    ASSUME TypeOK, NEW c \in Chunks, NEW here, NEW next, Advance(c, here, next)
    PROVE  \/ /\ at[c] = NumChunks - 1 /\ at' = [at EXCEPT ![c] = 0] /\ pc' = [pc EXCEPT ![c] = next]
           \/ /\ at[c] # NumChunks - 1 /\ at' = [at EXCEPT ![c] = at[c] + 1] /\ at[c] + 1 \in Chunks
              /\ pc' = [pc EXCEPT ![c] = here]
<1>1. at[c] \in Chunks
    BY DEF TypeOK
<1>2. at[c] # NumChunks - 1 => at[c] + 1 \in Chunks
    BY <1>1, Constants DEF Chunks
<1> QED  BY <1>2 DEF Advance, LastTurn, Goto

LEMMA TurnedTypes ==
    ASSUME TypeOK, NEW c \in Chunks, NEW here \in Labels, NEW next \in Labels, Advance(c, here, next)
    PROVE  at' \in [Chunks -> Chunks] /\ pc' \in [Chunks -> Labels]
<1>0. 0 \in Chunks
    BY Constants DEF Chunks
<1>1. at \in [Chunks -> Chunks] /\ pc \in [Chunks -> Labels] /\ 0 \in Chunks
    BY <1>0 DEF TypeOK
<1>2. CASE at' = [at EXCEPT ![c] = 0] /\ pc' = [pc EXCEPT ![c] = next]
    BY <1>1, <1>2
<1>3. CASE /\ at' = [at EXCEPT ![c] = at[c] + 1] /\ at[c] + 1 \in Chunks
           /\ pc' = [pc EXCEPT ![c] = here]
    BY <1>1, <1>3
<1> QED  BY <1>2, <1>3, Turned

\* One file more in the merged output
LEMMA Catted ==
    ASSUME Inv, NEW c \in Chunks, MergeCat(c)
    PROVE  \E data \in Seq(Samples) :
              /\ data = IF out[at[c]] = NoFile THEN <<>> ELSE out[at[c]]
              /\ merged' = Written(merged, offset[c], data)
              /\ merged \in Seq(Samples \cup {Hole}) /\ data \in Seq(Samples \cup {Hole})
              /\ merged' \in Seq(Samples \cup {Hole})
              /\ offset' = [offset EXCEPT ![c] = offset[c] + Len(data)]
              /\ offset[c] + Len(data) \in 0..End(at[c])
              /\ Advance(c, "cat", IF failed[c] \/ out[at[c]] = NoFile THEN "idle" ELSE "mark")
<1> DEFINE k == at[c]
           data == IF out[k] = NoFile THEN <<>> ELSE out[k]
<1>1. k \in Chunks /\ offset[c] \in Nat /\ offset[c] <= Start(k)
    BY DEF MergeCat, At, Inv, TypeOK, Merging
<1>2. data \in Seq(Samples)
    BY <1>1, IsFile DEF Inv, TypeOK
<1>3. Len(data) \in Nat /\ Len(data) <= Size(k)
    <2>1. Len(data) \in Nat
        BY <1>2, LenProperties
    <2>2. CASE out[k] = NoFile
        BY <1>1, <2>1, <2>2, EmptySeq, ChunkBounds
    <2>3. CASE out[k] # NoFile
        BY <1>1, <2>1, <2>3 DEF Inv, Kept
    <2> QED  BY <2>2, <2>3
<1>4. merged \in Seq(Samples \cup {Hole}) /\ data \in Seq(Samples \cup {Hole})
    BY <1>2, SeqMonotonic DEF MergeCat, At, Inv, TypeOK, Merging
<1>5. /\ merged' = Written(merged, offset[c], data)
      /\ offset' = [offset EXCEPT ![c] = offset[c] + Len(data)]
      /\ Advance(c, "cat", IF failed[c] \/ out[k] = NoFile THEN "idle" ELSE "mark")
    BY DEF MergeCat
<1> HIDE DEF data
<1>6. merged' \in Seq(Samples \cup {Hole})
    BY <1>1, <1>4, <1>5, WrittenFile
<1>7. offset[c] + Len(data) \in 0..End(k)
    BY <1>1, <1>3, Partition
<1> QED  BY <1>2, <1>4, <1>5, <1>6, <1>7 DEF data

-----------------------------------------------------------------------------
(* Types.                                                                  *)

LEMMA NextTypes == Inv /\ [Next]_vars => TypeOK'
<1> SUFFICES ASSUME Inv, [Next]_vars  PROVE TypeOK'
    OBVIOUS
<1> USE DEF TypeOK, files, local, run, Goto, At, Labels
<1>0. TypeOK
    BY DEF Inv
<1>Z. 0 \in Chunks /\ NumChunks \in Nat /\ NumSamples \in Nat /\ 0 \in 0..NumSamples
    BY Constants DEF Chunks
<1>M. mode.submits \in Nat /\ mode.stops \in Nat
    BY <1>0, Constants
<1>1. ASSUME Submit  PROVE TypeOK'
    <2>1. submits' \in 0..mode.submits /\ left' \in [Chunks -> 0..(DependentJobs + 1)]
        BY <1>0, <1>1, <1>M, Constants DEF Submit
    <2> QED  BY <1>0, <1>1, <2>1 DEF Submit
<1>2. ASSUME NEW c \in Chunks, Starts(c)  PROVE left' \in [Chunks -> 0..(DependentJobs + 1)]
    <2>1. left[c] - 1 \in 0..(DependentJobs + 1)
        BY <1>0, <1>2, Constants DEF Starts
    <2> QED  BY <1>0, <1>2, <2>1 DEF Starts
<1>3. ASSUME NEW c \in Chunks, StartFilled(c) \/ StartTorn(c)  PROVE TypeOK'
    BY <1>0, <1>2, <1>3 DEF StartFilled, StartTorn
<1>4. ASSUME NEW c \in Chunks, StartRemaining(c)  PROVE TypeOK'
    <2>1. left' \in [Chunks -> 0..(DependentJobs + 1)]
        BY <1>2, <1>4 DEF StartRemaining
    <2>2. todo' = [todo EXCEPT ![c] = Chunk(c) \ Filled(c)] /\ todo' \in [Chunks -> SUBSET Samples]
        BY <1>0, <1>4, ChunkBounds DEF StartRemaining
    <2>3. async' \in [Chunks -> Seq(Samples) \cup {NoFile}]
        BY <1>0, <1>4, IsFile DEF StartRemaining
    <2>4. pc' \in [Chunks -> Labels]
        BY <1>0, <1>4 DEF StartRemaining
    <2> QED  BY <1>0, <1>4, <2>1, <2>2, <2>3, <2>4 DEF StartRemaining
<1>5. ASSUME NEW c \in Chunks, NEW i \in Samples, Generate(c, i)  PROVE TypeOK'
    <2>1. async[c] \in Seq(Samples)
        BY <1>0, <1>5 DEF Generate, Inv, Placed
    <2>2. Append(async[c], i) \in Seq(Samples)
        BY <2>1, Grown
    <2>3. async' \in [Chunks -> Seq(Samples) \cup {NoFile}]
        BY <1>0, <1>5, <2>2 DEF Generate
    <2>4. todo' \in [Chunks -> SUBSET Samples] /\ pc' \in [Chunks -> Labels]
        BY <1>0, <1>5 DEF Generate
    <2> QED  BY <1>0, <1>5, <2>3, <2>4 DEF Generate
<1>6. ASSUME NEW c \in Chunks, RestoreOpen(c) \/ RestoreUnlink(c)  PROVE TypeOK'
    <2>1. CASE RestoreOpen(c)
        BY <1>0, <2>1, IsFile DEF RestoreOpen
    <2>2. CASE RestoreUnlink(c)
        BY <1>0, <2>2 DEF RestoreUnlink
    <2> QED  BY <1>6, <2>1, <2>2
<1>7. ASSUME NEW c \in Chunks, RestoreWrite(c)  PROVE TypeOK'
    <2>1. out' \in [Chunks -> Seq(Samples) \cup {NoFile}]
        <3>1. /\ out[c] \in Seq(Samples) /\ Start(c) + Len(out[c]) \in Samples
              /\ out' = [out EXCEPT ![c] = Append(out[c], Start(c) + Len(out[c]))]
            <4> HIDE DEF TypeOK, Labels, Goto, At
            <4> QED  BY <1>7, NextRecord
        <3>2. Append(out[c], Start(c) + Len(out[c])) \in Seq(Samples)
            BY <3>1, Grown
        <3> QED  BY <1>0, <3>1, <3>2
    <2> QED  BY <1>0, <1>7, <2>1 DEF RestoreWrite
<1>8. ASSUME NEW c \in Chunks, Touch(c)  PROVE TypeOK'
    BY <1>0, <1>8, <1>Z DEF Touch
<1>9. ASSUME NEW c \in Chunks, Check(c)  PROVE TypeOK'
    <2>1. at' \in [Chunks -> Chunks] /\ pc' \in [Chunks -> Labels]
        <3>1. CASE Advance(c, "check", "open")
            <4>1. "check" \in Labels /\ "open" \in Labels
                OBVIOUS
            <4> HIDE DEF TypeOK, Labels, Goto, At
            <4> QED  BY <1>0, <3>1, <4>1, TurnedTypes
        <3>2. CASE Goto(c, "idle") /\ UNCHANGED at
            BY <1>0, <3>2
        <3> QED  BY <1>9, <3>1, <3>2 DEF Check
    <2> QED  BY <1>0, <1>9, <2>1 DEF Check
<1>10. ASSUME NEW c \in Chunks, MergeOpen(c)  PROVE TypeOK'
    BY <1>0, <1>10, <1>Z, IsFile DEF MergeOpen
<1>11. ASSUME NEW c \in Chunks, MergeCat(c)  PROVE TypeOK'
    <2>1. PICK data \in Seq(Samples) :
              /\ merged' \in Seq(Samples \cup {Hole})
              /\ offset' = [offset EXCEPT ![c] = offset[c] + Len(data)]
              /\ offset[c] + Len(data) \in 0..End(at[c])
              /\ Advance(c, "cat", IF failed[c] \/ out[at[c]] = NoFile THEN "idle" ELSE "mark")
        BY <1>11, Catted
    <2>2. at' \in [Chunks -> Chunks] /\ pc' \in [Chunks -> Labels]
        <3>1. "cat" \in Labels /\ (IF failed[c] \/ out[at[c]] = NoFile THEN "idle" ELSE "mark") \in Labels
            OBVIOUS
        <3> HIDE DEF TypeOK, Labels, Goto, At
        <3> QED  BY <1>0, <2>1, <3>1, TurnedTypes
    <2>3. offset' \in [Chunks -> 0..NumSamples]
        <3>1. End(at[c]) \in 0..NumSamples
            BY <1>0, Partition
        <3>2. offset[c] + Len(data) \in 0..NumSamples
            BY <1>Z, <2>1, <3>1
        <3> QED  BY <1>0, <2>1, <3>2
    <2>4. failed' \in [Chunks -> BOOLEAN]
        BY <1>0, <1>11 DEF MergeCat
    <2> QED  BY <1>0, <1>11, <2>1, <2>2, <2>3, <2>4 DEF MergeCat
<1>12. ASSUME NEW c \in Chunks, MergeMark(c)  PROVE TypeOK'
    BY <1>0, <1>12 DEF MergeMark
<1>13. ASSUME NEW c \in Chunks, MergeRemove(c)  PROVE TypeOK'
    <2>1. at' \in [Chunks -> Chunks] /\ pc' \in [Chunks -> Labels]
        <3>1. CASE Advance(c, "remove", "idle")
            <4>1. "remove" \in Labels /\ "idle" \in Labels
                OBVIOUS
            <4> HIDE DEF TypeOK, Labels, Goto, At
            <4> QED  BY <1>0, <3>1, <4>1, TurnedTypes
        <3>2. CASE Goto(c, "idle") /\ UNCHANGED at
            BY <1>0, <3>2
        <3> QED  BY <1>13, <3>1, <3>2 DEF MergeRemove
    <2> QED  BY <1>0, <1>13, <2>1 DEF MergeRemove
<1>14. ASSUME NEW c \in Chunks, Stop(c)  PROVE TypeOK'
    <2>1. stops' \in 0..mode.stops
        BY <1>0, <1>14, <1>M DEF Stop
    <2>2. torn' \in [Chunks -> BOOLEAN] /\ halfway' \in BOOLEAN
        BY <1>0, <1>14 DEF Stop
    <2> QED  BY <1>0, <1>14, <1>Z, <2>1, <2>2 DEF Stop
<1>15. ASSUME UNCHANGED vars  PROVE TypeOK'
    BY <1>0, <1>15 DEF vars
<1> HIDE DEF TypeOK, files, local, run, Goto, At, Labels
<1> QED  BY <1>1, <1>3, <1>4, <1>5, <1>6, <1>7, <1>8, <1>9, <1>10, <1>11, <1>12, <1>13, <1>14, <1>15
         DEF Next, Job

-----------------------------------------------------------------------------
(* What a job does to the files and the place of another one.              *)

Elsewhere(d) ==
    /\ async'[d] = async[d] /\ todo'[d] = todo[d] /\ pc'[d] = pc[d]
    /\ at'[d] = at[d] /\ offset'[d] = offset[d]

\* A job changes only its own chunk, but for the merged files and the outputs it removes when
\* the merged file is marked done.  The marks of finished chunks stay.
Moves(c) ==
    /\ \A d \in Chunks : d # c => Elsewhere(d)
    /\ \A d \in Chunks : done[d] => done'[d]
    /\ \A d \in Chunks : d # c => done'[d] = done[d]
    /\ merged # NoFile => merged' # NoFile
    /\ mergedDone => mergedDone'
    /\ mode' = mode
    /\ \A d \in Chunks : \/ out'[d] = out[d]
                         \/ d = c /\ pc[c] \in {"restore", "write"}
                         \/ pc[c] = "remove" /\ d = at[c] /\ out'[d] = NoFile

LEMMA JobMoves == ASSUME Inv, NEW c \in Chunks, Job(c) \/ Stop(c)  PROVE Moves(c)
<1> USE DEF files, local, run, Goto, At
<1>1. TypeOK
    BY DEF Inv
<1>2. CASE StartFilled(c) \/ StartTorn(c)
    BY <1>1, <1>2 DEF StartFilled, StartTorn, Starts, TypeOK, Moves, Elsewhere
<1>3. CASE StartRemaining(c)
    BY <1>1, <1>3 DEF StartRemaining, Starts, TypeOK, Moves, Elsewhere
<1>4. ASSUME NEW i \in Samples, Generate(c, i)  PROVE Moves(c)
    BY <1>1, <1>4 DEF Generate, TypeOK, Moves, Elsewhere
<1>5. CASE RestoreOpen(c)
    BY <1>1, <1>5 DEF RestoreOpen, TypeOK, Moves, Elsewhere
<1>6. CASE RestoreWrite(c)
    BY <1>1, <1>6 DEF RestoreWrite, TypeOK, Moves, Elsewhere
<1>7. CASE RestoreUnlink(c)
    BY <1>1, <1>7 DEF RestoreUnlink, TypeOK, Moves, Elsewhere
<1>8. CASE Touch(c)
    BY <1>1, <1>8 DEF Touch, TypeOK, Moves, Elsewhere
<1>9. CASE Check(c)
    BY <1>1, <1>9 DEF Check, Advance, TypeOK, Moves, Elsewhere
<1>10. CASE MergeOpen(c)
    BY <1>1, <1>10, IsFile DEF MergeOpen, TypeOK, Moves, Elsewhere
<1>11. CASE MergeCat(c)
    <2>1. merged' # NoFile
        BY <1>11, Catted, IsFile
    <2> QED  BY <1>1, <1>11, <2>1 DEF MergeCat, Advance, TypeOK, Moves, Elsewhere
<1>12. CASE MergeMark(c)
    BY <1>1, <1>12 DEF MergeMark, TypeOK, Moves, Elsewhere
<1>13. CASE MergeRemove(c)
    BY <1>1, <1>13 DEF MergeRemove, Advance, TypeOK, Moves, Elsewhere
<1>14. CASE Stop(c)
    BY <1>1, <1>14 DEF Stop, TypeOK, Moves, Elsewhere
<1> HIDE DEF files, local, run, Goto, At
<1> QED  BY <1>2, <1>3, <1>4, <1>5, <1>6, <1>7, <1>8, <1>9, <1>10, <1>11, <1>12, <1>13, <1>14 DEF Job

LEMMA OthersPlaced ==
    ASSUME Inv, NEW c \in Chunks, Moves(c), NEW d \in Chunks, d # c
    PROVE  Kept(d)' /\ Placed(d)' /\ Merging(d)'
<1>1. /\ Elsewhere(d) /\ done'[d] = done[d] /\ \A e \in Chunks : done[e] => done'[e]
      /\ merged # NoFile => merged' # NoFile
      /\ mergedDone => mergedDone'
      /\ Kept(d) /\ Placed(d) /\ Merging(d)
    BY DEF Moves, Inv
<1>2. \/ out'[d] = out[d]
      \/ out'[d] = NoFile /\ merged # NoFile /\ done[d]
    BY DEF Moves, Inv, Merging
<1>3. Filled(d)' = Filled(d)
    BY <1>1 DEF Elsewhere, Filled
<1>4. Kept(d)'
    BY <1>1, <1>2 DEF Kept, Elsewhere
<1>5. Placed(d)'
    <2>1. CASE out'[d] = out[d]
        BY <1>1, <1>3, <2>1 DEF Placed, Elsewhere, Settled
    <2>2. CASE out'[d] = NoFile /\ merged # NoFile /\ done[d]
        BY <1>1, <2>2 DEF Placed, Elsewhere, Settled
    <2> QED  BY <1>2, <2>1, <2>2
<1>6. Merging(d)'
    BY <1>1 DEF Merging, Elsewhere
<1> QED  BY <1>4, <1>5, <1>6

LEMMA OwnKept ==
    ASSUME Inv, TypeOK', NEW c \in Chunks, Job(c) \/ Stop(c)
    PROVE  Kept(c)'
<1> USE DEF files, local, run
<1>1. TypeOK /\ Kept(c)
    BY DEF Inv
<1>2. ASSUME UNCHANGED <<async, out>>  PROVE Kept(c)'
    BY <1>1, <1>2 DEF Kept
<1>3. CASE StartRemaining(c)
    <2>1. out' = out /\ (async'[c] = async[c] \/ async'[c] = <<>>)
        BY <1>1, <1>3 DEF StartRemaining, TypeOK
    <2>2. Distinct(<<>>) /\ ToSet(<<>>) = {}
        BY DEF Distinct, ToSet
    <2> QED  BY <1>1, <2>1, <2>2 DEF Kept
<1>4. ASSUME NEW i \in Samples, Generate(c, i)  PROVE Kept(c)'
    <2>1. /\ async[c] \in Seq(Samples) /\ async[c] # NoFile /\ i \in Chunk(c) /\ i \notin ToSet(async[c])
          /\ async'[c] = Append(async[c], i) /\ out' = out
        BY <1>1, <1>4 DEF Generate, At, Inv, Placed, Filled, TypeOK
    <2>2. Distinct(async'[c]) /\ ToSet(async'[c]) \subseteq Chunk(c)
        BY <1>1, <2>1, Grown DEF Kept
    <2> QED  BY <1>1, <2>1, <2>2 DEF Kept
<1>5. CASE RestoreOpen(c)
    <2>1. async' = async /\ out'[c] = <<>> /\ Len(<<>>) = 0 /\ DOMAIN <<>> = {}
        BY <1>1, <1>5, EmptySeq DEF RestoreOpen, TypeOK
    <2>2. Size(c) \in Nat
        BY ChunkBounds
    <2>3. /\ Len(out'[c]) <= Size(c) /\ \A k \in DOMAIN out'[c] : out'[c][k] = Start(c) + k - 1
        BY <2>1, <2>2
    <2> QED  BY <1>1, <2>1, <2>3 DEF Kept
<1>6. CASE RestoreWrite(c)
    <2>1. /\ out[c] \in Seq(Samples) /\ Start(c) + Len(out[c]) \in Samples
          /\ out'[c] = Append(out[c], Start(c) + Len(out[c])) /\ Len(out[c]) + 1 <= Size(c)
          /\ async' = async /\ out[c] # NoFile
        <3>1. async' = async /\ out[c] # NoFile
            BY <1>6 DEF RestoreWrite, At, Inv, Placed
        <3> QED  BY <1>1, <1>6, <3>1, NextRecord DEF TypeOK
    <2>2. /\ Len(out'[c]) = Len(out[c]) + 1 /\ DOMAIN out'[c] = 1..(Len(out[c]) + 1)
          /\ DOMAIN out[c] = 1..Len(out[c]) /\ Len(out[c]) \in Nat
          /\ \A i \in 1..Len(out[c]) : out'[c][i] = out[c][i]
          /\ out'[c][Len(out[c]) + 1] = Start(c) + Len(out[c])
        BY <2>1, Grown
    <2>3. ASSUME NEW k \in DOMAIN out'[c]  PROVE out'[c][k] = Start(c) + k - 1
        <3>1. CASE k \in 1..Len(out[c])
            BY <1>1, <2>1, <2>2, <3>1 DEF Kept
        <3>2. CASE k = Len(out[c]) + 1
            <4>1. Start(c) \in Nat
                BY ChunkBounds
            <4> QED  BY <2>2, <3>2, <4>1
        <3> QED  BY <2>2, <3>1, <3>2
    <2> QED  BY <1>1, <2>1, <2>2, <2>3 DEF Kept
<1>7. CASE RestoreUnlink(c)
    BY <1>1, <1>7 DEF RestoreUnlink, Kept, TypeOK
<1>8. CASE MergeRemove(c)
    <2>1. async' = async /\ (out'[c] = out[c] \/ out'[c] = NoFile)
        BY <1>1, <1>8 DEF MergeRemove, TypeOK
    <2> QED  BY <1>1, <2>1 DEF Kept
<1>9. \/ UNCHANGED <<async, out>>
      \/ StartRemaining(c) \/ (\E i \in Samples : Generate(c, i)) \/ RestoreOpen(c)
      \/ RestoreWrite(c) \/ RestoreUnlink(c) \/ MergeRemove(c)
    BY DEF Job, StartFilled, StartTorn, Touch, Check, MergeOpen, MergeCat, MergeMark, Stop
<1> QED  BY <1>2, <1>3, <1>4, <1>5, <1>6, <1>7, <1>8, <1>9

LEMMA OwnPlaced ==
    ASSUME Inv, TypeOK', NEW c \in Chunks, Job(c) \/ Stop(c)
    PROVE  Placed(c)'
<1> USE DEF files, local, run, Goto, At
<1>1. TypeOK /\ Placed(c) /\ Kept(c)
    BY DEF Inv
<1>2. ASSUME UNCHANGED <<async, out, todo, done>>, merged # NoFile => merged' # NoFile,
             pc'[c] \notin {"generate", "restore", "write"}, done[c] \/ pc'[c] = "touch" => Settled(c)
      PROVE  Placed(c)'
    BY <1>2 DEF Placed, Settled, Filled
<1>3. CASE StartFilled(c)
    <2>1. pc'[c] = "touch" /\ Settled(c)
        BY <1>1, <1>3 DEF StartFilled, TypeOK, Settled
    <2> QED  BY <1>2, <1>3, <2>1 DEF StartFilled
<1>4. CASE StartTorn(c)
    BY <1>1, <1>2, <1>4 DEF StartTorn, Starts, Placed
<1>5. CASE StartRemaining(c)
    <2>1. /\ todo'[c] = Chunk(c) \ Filled(c) /\ UNCHANGED <<out, done, merged>> /\ out[c] = NoFile
          /\ merged = NoFile /\ pc[c] = "idle"
          /\ pc'[c] = IF todo'[c] = {} THEN "touch" ELSE "generate"
          /\ async'[c] = IF todo'[c] # {} /\ async[c] = NoFile THEN <<>> ELSE async[c]
        BY <1>1, <1>5 DEF StartRemaining, Starts, TypeOK
    <2>2. Filled(c)' = Filled(c)
        <3>1. ToSet(<<>>) = {}
            BY DEF ToSet
        <3> QED  BY <2>1, <3>1, IsFile DEF Filled
    <2>3. CASE todo'[c] = {}
        <3>1. Settled(c)'
            BY <2>1, <2>2, <2>3 DEF Settled
        <3> QED  BY <2>1, <2>3, <3>1 DEF Placed
    <2>4. CASE todo'[c] # {}
        <3>1. async'[c] # NoFile
            BY <2>1, <2>4, IsFile
        <3>2. ~done[c]
            BY <1>1, <2>1, <2>4 DEF Placed, Settled
        <3> QED  BY <2>1, <2>2, <2>4, <3>1, <3>2 DEF Placed
    <2> QED  BY <2>3, <2>4
<1>6. ASSUME NEW i \in Samples, Generate(c, i)  PROVE Placed(c)'
    <2>1. /\ async[c] \in Seq(Samples) /\ async[c] # NoFile /\ i \in todo[c] /\ out[c] = NoFile
          /\ async'[c] = Append(async[c], i) /\ UNCHANGED <<out, done, merged>>
          /\ todo'[c] = todo[c] \ {i} /\ pc[c] = "generate" /\ todo[c] = Chunk(c) \ Filled(c)
          /\ pc'[c] = IF todo'[c] = {} THEN "restore" ELSE "generate"
        BY <1>1, <1>6 DEF Generate, Placed, TypeOK
    <2>2. async'[c] \in Seq(Samples) /\ async'[c] # NoFile /\ Filled(c)' = Filled(c) \cup {i}
        <3>1. i \in Samples /\ Append(async[c], i) \in Seq(Samples)
              /\ ToSet(Append(async[c], i)) = ToSet(async[c]) \cup {i}
            BY <2>1, Grown
        <3> QED  BY <2>1, <3>1, IsFile DEF Filled
    <2>3. Filled(c) \subseteq Chunk(c) /\ ~done[c]
        BY <1>1, <2>1 DEF Kept, Filled, Placed
    <2> QED  BY <2>1, <2>2, <2>3 DEF Placed
<1>7. CASE RestoreOpen(c)
    <2>1. /\ async' = async /\ done' = done /\ pc'[c] = "write" /\ out'[c] # NoFile /\ pc[c] = "restore"
        BY <1>1, <1>7, IsFile DEF RestoreOpen, TypeOK
    <2>2. Filled(c)' = Filled(c)
        BY <2>1 DEF Filled
    <2> QED  BY <1>1, <2>1, <2>2 DEF Placed
<1>8. CASE RestoreWrite(c)
    <2>1. /\ out[c] \in Seq(Samples) /\ Start(c) + Len(out[c]) \in Samples
          /\ out' = [out EXCEPT ![c] = Append(out[c], Start(c) + Len(out[c]))]
        BY <1>8, NextRecord
    <2>2. Append(out[c], Start(c) + Len(out[c])) \in Seq(Samples)
        BY <2>1, Grown
    <2>3. out'[c] # NoFile /\ async' = async /\ done' = done /\ pc' = pc /\ pc[c] = "write"
        <3>1. out'[c] = Append(out[c], Start(c) + Len(out[c]))
            BY <1>1, <2>1 DEF TypeOK
        <3>2. async' = async /\ done' = done /\ pc' = pc /\ pc[c] = "write"
            BY <1>8 DEF RestoreWrite
        <3> QED  BY <2>2, <3>1, <3>2, IsFile
    <2>4. Filled(c)' = Filled(c)
        BY <2>3 DEF Filled
    <2> QED  BY <1>1, <2>3, <2>4 DEF Placed
<1>9. CASE RestoreUnlink(c)
    <2>1. out' = out /\ done' = done /\ pc'[c] = "touch" /\ pc[c] = "write" /\ out[c] # NoFile
        BY <1>1, <1>9 DEF RestoreUnlink, TypeOK, Placed
    <2> QED  BY <2>1 DEF Placed, Settled
<1>10. CASE Touch(c)
    <2>1. /\ UNCHANGED <<async, out, merged>> /\ pc[c] = "touch" /\ pc'[c] = "check"
        BY <1>1, <1>10 DEF Touch, TypeOK
    <2>2. Settled(c)'
        BY <1>1, <2>1 DEF Placed, Settled, Filled
    <2> QED  BY <2>1, <2>2 DEF Placed
<1>11. CASE Check(c)
    <2>1. /\ UNCHANGED <<async, out, todo, done, merged>> /\ pc[c] = "check"
          /\ pc'[c] \in {"check", "open", "idle"}
        BY <1>1, <1>11 DEF Check, Advance, TypeOK
    <2> QED  BY <1>1, <1>2, <2>1 DEF Placed
<1>12. CASE MergeOpen(c)
    <2>1. /\ UNCHANGED <<async, out, todo, done>> /\ merged' # NoFile /\ pc[c] = "open"
          /\ pc'[c] = "cat"
        BY <1>1, <1>12, IsFile DEF MergeOpen, TypeOK
    <2> QED  BY <1>1, <1>2, <2>1 DEF Placed
<1>13. CASE MergeCat(c)
    <2>1. merged' # NoFile
        BY <1>13, Catted, IsFile
    <2>2. /\ UNCHANGED <<async, out, todo, done>> /\ pc[c] = "cat" /\ pc'[c] \in {"cat", "idle", "mark"}
        BY <1>1, <1>13 DEF MergeCat, Advance, TypeOK
    <2> QED  BY <1>1, <1>2, <2>1, <2>2 DEF Placed
<1>14. CASE MergeMark(c)
    <2>1. /\ UNCHANGED <<async, out, todo, done, merged>> /\ pc[c] = "mark" /\ pc'[c] = "remove"
        BY <1>1, <1>14 DEF MergeMark, TypeOK
    <2> QED  BY <1>1, <1>2, <2>1 DEF Placed
<1>15. CASE MergeRemove(c)
    <2>1. /\ UNCHANGED <<async, todo, done, merged>> /\ pc[c] = "remove" /\ pc'[c] \in {"remove", "idle"}
        BY <1>1, <1>15 DEF MergeRemove, Advance, TypeOK
    <2>2. merged # NoFile
        BY <2>1 DEF Inv, Merging
    <2> QED  BY <2>1, <2>2 DEF Placed, Settled
<1>16. CASE Stop(c)
    <2>1. UNCHANGED <<async, out, done, merged>> /\ pc'[c] = "idle"
        BY <1>1, <1>16 DEF Stop, TypeOK
    <2> QED  BY <1>1, <2>1 DEF Placed, Settled, Filled
<1> HIDE DEF files, local, run, Goto, At
<1> QED  BY <1>3, <1>4, <1>5, <1>6, <1>7, <1>8, <1>9, <1>10, <1>11, <1>12, <1>13, <1>14, <1>15, <1>16
         DEF Job

LEMMA OwnMerging ==
    ASSUME Inv, TypeOK', NEW c \in Chunks, Job(c) \/ Stop(c)
    PROVE  Merging(c)' /\ Begun'
<1> USE DEF files, local, run, Goto, At
<1>1. TypeOK /\ Merging(c) /\ Begun
    BY DEF Inv
<1>2. ASSUME UNCHANGED <<done, merged>>, pc'[c] \in {"idle", "generate", "restore", "write", "touch"}
      PROVE  Merging(c)' /\ Begun'
    BY <1>1, <1>2 DEF Merging, Begun
<1>3. CASE StartFilled(c) \/ StartRemaining(c) \/ RestoreOpen(c) \/ RestoreUnlink(c) \/ Stop(c)
    <2>1. UNCHANGED <<done, merged>> /\ pc'[c] \in {"idle", "generate", "touch", "write"}
        BY <1>1, <1>3 DEF StartFilled, StartRemaining, RestoreOpen, RestoreUnlink, Stop, TypeOK
    <2> QED  BY <1>2, <2>1
<1>4. CASE StartTorn(c) \/ RestoreWrite(c)
    <2>1. UNCHANGED <<done, merged>> /\ pc'[c] \in {"idle", "write"}
        BY <1>1, <1>4 DEF StartTorn, Starts, RestoreWrite, TypeOK
    <2> QED  BY <1>2, <2>1
<1>5. ASSUME NEW i \in Samples, Generate(c, i)  PROVE Merging(c)' /\ Begun'
    <2>1. UNCHANGED <<done, merged>> /\ pc'[c] \in {"generate", "restore"}
        BY <1>1, <1>5 DEF Generate, TypeOK
    <2> QED  BY <1>2, <2>1
<1>6. CASE Touch(c)
    <2>1. /\ merged' = merged /\ pc'[c] = "check" /\ at'[c] = 0
          /\ \A d \in Chunks : done[d] => done'[d]
        BY <1>1, <1>6 DEF Touch, TypeOK
    <2>2. \A d \in Chunks : ~(d < 0)
        BY DEF Chunks
    <2> QED  BY <1>1, <2>1, <2>2 DEF Merging, Begun
<1>7. CASE Check(c)
    <2>1. UNCHANGED <<done, merged>> /\ pc[c] = "check" /\ at[c] \in Chunks
        BY <1>1, <1>7 DEF Check, TypeOK
    <2>2. CASE pc'[c] = "idle"
        BY <1>2, <2>1, <2>2
    <2>3. CASE done[at[c]] /\ Advance(c, "check", "open")
        <3>1. \A d \in Chunks : d <= at[c] => done[d]
            BY <1>1, <2>1, <2>3 DEF Merging, Chunks
        <3>2. CASE at[c] = NumChunks - 1 /\ pc'[c] = "open"
            <4>1. \A d \in Chunks : done[d]
                BY <3>1, <3>2, Constants DEF Chunks
            <4> QED  BY <1>1, <2>1, <3>2, <4>1 DEF Merging, Begun
        <3>3. CASE at'[c] = at[c] + 1 /\ pc'[c] = "check"
            <4>1. \A d \in Chunks : d < at'[c] => d <= at[c]
                BY <2>1, <3>3 DEF Chunks
            <4> QED  BY <1>1, <2>1, <3>1, <3>3, <4>1 DEF Merging, Begun
        <3> QED  BY <1>1, <2>3, <3>2, <3>3, Turned DEF TypeOK
    <2> QED  BY <1>1, <1>7, <2>2, <2>3 DEF Check, TypeOK
<1>8. CASE MergeOpen(c)
    <2>1. /\ done' = done /\ merged' # NoFile /\ pc[c] = "open" /\ pc'[c] = "cat"
          /\ at'[c] = 0 /\ offset'[c] = 0 /\ Start(0) = 0
        BY <1>1, <1>8, IsFile, Partition DEF MergeOpen, TypeOK
    <2> QED  BY <1>1, <2>1 DEF Merging, Begun
<1>9. CASE MergeCat(c)
    <2>1. PICK data \in Seq(Samples) :
              /\ merged' \in Seq(Samples \cup {Hole})
              /\ offset' = [offset EXCEPT ![c] = offset[c] + Len(data)]
              /\ offset[c] + Len(data) \in 0..End(at[c])
              /\ Advance(c, "cat", IF failed[c] \/ out[at[c]] = NoFile THEN "idle" ELSE "mark")
        BY <1>9, Catted
    <2>2. /\ done' = done /\ merged' # NoFile /\ pc[c] = "cat" /\ at[c] \in Chunks
          /\ offset'[c] = offset[c] + Len(data) /\ \A d \in Chunks : done[d]
        BY <1>1, <1>9, <2>1, IsFile DEF MergeCat, TypeOK, Merging
    <2>3. CASE /\ at[c] # NumChunks - 1 /\ at'[c] = at[c] + 1 /\ pc'[c] = "cat"
        <3>1. End(at[c]) = Start(at'[c]) /\ End(at[c]) \in Nat
            BY <2>2, <2>3, Partition
        <3>2. offset'[c] <= Start(at'[c])
            BY <2>1, <2>2, <3>1
        <3> QED  BY <2>2, <2>3, <3>2 DEF Merging, Begun
    <2>4. CASE pc'[c] \in {"idle", "mark"}
        BY <2>2, <2>4 DEF Merging, Begun
    <2>5. \/ /\ at[c] # NumChunks - 1 /\ at'[c] = at[c] + 1 /\ pc'[c] = "cat"
          \/ pc'[c] \in {"idle", "mark"}
        BY <1>1, <2>1 DEF TypeOK, Advance, LastTurn
    <2> QED  BY <2>3, <2>4, <2>5
<1>10. CASE MergeMark(c)
    <2>1. UNCHANGED <<done, merged>> /\ pc[c] = "mark" /\ pc'[c] = "remove" /\ mergedDone'
        BY <1>1, <1>10 DEF MergeMark, TypeOK
    <2> QED  BY <1>1, <2>1 DEF Merging, Begun
<1>11. CASE MergeRemove(c)
    <2>1. UNCHANGED <<done, merged, mergedDone>> /\ pc[c] = "remove" /\ pc'[c] \in {"remove", "idle"}
        BY <1>1, <1>11 DEF MergeRemove, Advance, TypeOK
    <2> QED  BY <1>1, <2>1 DEF Merging, Begun
<1> HIDE DEF files, local, run, Goto, At
<1> QED  BY <1>3, <1>4, <1>5, <1>6, <1>7, <1>8, <1>9, <1>10, <1>11 DEF Job

LEMMA NextInv == Inv /\ [Next]_vars => Inv'
<1> SUFFICES ASSUME Inv, [Next]_vars  PROVE Inv'
    OBVIOUS
<1>1. TypeOK'
    BY NextTypes
<1>2. ASSUME NEW c \in Chunks, Job(c) \/ Stop(c)  PROVE Inv'
    <2>1. Kept(c)' /\ Placed(c)' /\ Merging(c)' /\ Begun'
        BY <1>1, <1>2, OwnKept, OwnPlaced, OwnMerging
    <2>2. ASSUME NEW d \in Chunks, d # c  PROVE Kept(d)' /\ Placed(d)' /\ Merging(d)'
        BY <1>2, <2>2, JobMoves, OthersPlaced
    <2> QED  BY <1>1, <2>1, <2>2 DEF Inv
<1>3. CASE Submit \/ UNCHANGED vars
    <2>1. UNCHANGED <<files, pc, local>>
        BY <1>3 DEF Submit, vars
    <2>2. ASSUME NEW d \in Chunks  PROVE Kept(d)' /\ Placed(d)' /\ Merging(d)'
        BY <2>1, <2>2 DEF Inv, files, local, Kept, Placed, Merging, Settled, Filled
    <2>3. Begun'
        BY <2>1 DEF Inv, files, Begun
    <2> QED  BY <1>1, <2>2, <2>3 DEF Inv
<1> QED  BY <1>2, <1>3 DEF Next

-----------------------------------------------------------------------------
(* Without a job stopped between its last record and the removal of the    *)
(* -async file, an output is there in full or being written.               *)

\* (a) An output that nobody writes has the whole chunk.  (b) Records that are all there are
\* put in order at once, so no job finds nothing left to generate.  (c) A chunk that is
\* finished keeps its output until the merged file is marked done.
Complete(c) ==
    /\ out[c] # NoFile /\ pc[c] # "write" => Len(out[c]) = Size(c)
    /\ pc[c] \notin {"restore", "write"} => ~(Chunk(c) \subseteq Filled(c))
    /\ done[c] \/ pc[c] = "touch" => out[c] # NoFile \/ mergedDone

Whole == Inv /\ (~halfway => \A c \in Chunks : Complete(c))

LEMMA OthersComplete ==
    ASSUME Inv, NEW c \in Chunks, Moves(c), NEW d \in Chunks, d # c, Complete(d)
    PROVE  Complete(d)'
<1>1. Elsewhere(d) /\ done'[d] = done[d] /\ (mergedDone => mergedDone')
    BY DEF Moves
<1>2. out'[d] = out[d] \/ (out'[d] = NoFile /\ mergedDone)
    BY DEF Moves, Inv, Merging
<1>3. Filled(d)' = Filled(d)
    BY <1>1 DEF Elsewhere, Filled
<1> QED  BY <1>1, <1>2, <1>3 DEF Elsewhere, Complete

LEMMA OwnComplete ==
    ASSUME Inv, Inv', Full, NEW c \in Chunks, \A d \in Chunks : Complete(d), Job(c) \/ Stop(c), ~halfway'
    PROVE  Complete(c)'
<1> USE DEF files, local, run, Goto, At
<1>1. TypeOK /\ Placed(c) /\ Complete(c)
    BY DEF Inv
<1>2. ASSUME UNCHANGED <<async, out, done>>, mergedDone => mergedDone',
             pc[c] \notin {"restore", "write"}, pc'[c] \notin {"restore", "write"},
             pc'[c] = "touch" => out[c] # NoFile \/ mergedDone
      PROVE  Complete(c)'
    BY <1>1, <1>2 DEF Complete, Filled
<1>3. CASE StartFilled(c)
    <2>1. pc[c] = "idle" /\ pc'[c] = "touch" /\ UNCHANGED files /\ (out[c] # NoFile \/ merged # NoFile)
        BY <1>1, <1>3 DEF StartFilled, Starts, TypeOK
    <2>2. out[c] # NoFile \/ mergedDone
        BY <1>1, <2>1 DEF Inv, Begun, Complete
    <2> QED  BY <1>2, <2>1, <2>2
<1>4. CASE StartTorn(c)
    BY <1>1, <1>2, <1>4 DEF StartTorn, Starts
<1>5. CASE StartRemaining(c)
    <2>1. /\ todo'[c] = Chunk(c) \ Filled(c) /\ UNCHANGED <<out, done, mergedDone>> /\ out[c] = NoFile
          /\ pc[c] = "idle" /\ pc'[c] = IF todo'[c] = {} THEN "touch" ELSE "generate"
          /\ async'[c] = IF todo'[c] # {} /\ async[c] = NoFile THEN <<>> ELSE async[c]
        BY <1>1, <1>5 DEF StartRemaining, Starts, TypeOK
    <2>2. Filled(c)' = Filled(c)
        <3>1. ToSet(<<>>) = {}
            BY DEF ToSet
        <3> QED  BY <2>1, <3>1, IsFile DEF Filled
    <2>3. todo'[c] # {} /\ pc'[c] = "generate"
        BY <1>1, <2>1 DEF Complete
    <2> QED  BY <1>1, <2>1, <2>2, <2>3 DEF Complete
<1>6. ASSUME NEW i \in Samples, Generate(c, i)  PROVE Complete(c)'
    <2>1. /\ UNCHANGED <<out, done, mergedDone>> /\ pc[c] = "generate" /\ out[c] = NoFile
          /\ pc'[c] \in {"generate", "restore"}
        BY <1>1, <1>6 DEF Generate, Placed, TypeOK
    <2>2. pc'[c] = "generate" => ~(Chunk(c) \subseteq Filled(c)')
        BY DEF Inv, Placed
    <2> QED  BY <1>1, <2>1, <2>2 DEF Complete
<1>7. CASE RestoreOpen(c) \/ RestoreWrite(c)
    <2>1. /\ pc'[c] = "write" /\ UNCHANGED <<done, mergedDone>> /\ pc[c] \in {"restore", "write"}
        BY <1>1, <1>7 DEF RestoreOpen, RestoreWrite, TypeOK
    <2> QED  BY <1>1, <2>1 DEF Complete, Placed
<1>8. CASE RestoreUnlink(c)
    <2>1. /\ UNCHANGED <<out, done, mergedDone>> /\ pc[c] = "write" /\ pc'[c] = "touch"
          /\ out[c] # NoFile /\ async'[c] = NoFile /\ Len(out[c]) = Len(async[c])
          /\ async[c] \in Seq(Samples) /\ Distinct(async[c]) /\ ToSet(async[c]) = Chunk(c)
        BY <1>1, <1>8 DEF RestoreUnlink, TypeOK, Inv, Placed, Kept, Filled
    <2>2. Len(out[c]) = Size(c)
        BY <2>1, Counted
    <2>3. Start(c) \in Chunk(c) /\ Filled(c)' = {}
        <3>1. Start(c) \in Nat /\ Size(c) \in Nat /\ Size(c) > 0 /\ Chunk(c) = Start(c)..(Start(c) + Size(c) - 1)
            BY ChunkBounds, NonEmpty
        <3>2. Start(c) \in Chunk(c)
            BY <3>1
        <3> QED  BY <2>1, <3>2 DEF Filled
    <2> QED  BY <2>1, <2>2, <2>3 DEF Complete
<1>9. CASE Touch(c)
    <2>1. /\ UNCHANGED <<async, out, mergedDone>> /\ pc[c] = "touch" /\ pc'[c] = "check"
        BY <1>1, <1>9 DEF Touch, TypeOK
    <2> QED  BY <1>1, <2>1 DEF Complete, Filled
<1>10. CASE Check(c) \/ MergeOpen(c) \/ MergeCat(c) \/ MergeMark(c)
    <2>1. /\ UNCHANGED <<async, out, done>> /\ (mergedDone => mergedDone')
          /\ pc[c] \in {"check", "open", "cat", "mark"}
        BY <1>1, <1>10 DEF Check, MergeOpen, MergeCat, MergeMark, TypeOK
    <2>2. pc'[c] \in {"check", "open", "cat", "mark", "remove", "idle"}
        BY <1>1, <1>10 DEF Check, MergeOpen, MergeCat, MergeMark, Advance, TypeOK
    <2> QED  BY <1>2, <2>1, <2>2
<1>11. CASE MergeRemove(c)
    <2>1. /\ UNCHANGED <<async, done, mergedDone>> /\ pc[c] = "remove" /\ pc'[c] \in {"remove", "idle"}
          /\ (out'[c] = out[c] \/ out'[c] = NoFile)
        BY <1>1, <1>11 DEF MergeRemove, Advance, TypeOK
    <2>2. mergedDone
        BY <2>1 DEF Inv, Merging
    <2> QED  BY <1>1, <2>1, <2>2 DEF Complete, Filled
<1>12. CASE Stop(c)
    <2>1. UNCHANGED <<async, out, done, mergedDone>> /\ pc'[c] = "idle" /\ pc[c] \notin {"restore", "write"}
        BY <1>1, <1>12 DEF Stop, TypeOK
    <2> QED  BY <1>2, <2>1
<1> HIDE DEF files, local, run, Goto, At
<1> QED  BY <1>3, <1>4, <1>5, <1>6, <1>7, <1>8, <1>9, <1>10, <1>11, <1>12 DEF Job

LEMMA NextWhole == Full /\ Whole /\ [Next]_vars => Whole'
<1> SUFFICES ASSUME Full, Whole, [Next]_vars  PROVE Whole'
    OBVIOUS
<1>1. Inv /\ Inv'
    BY NextInv DEF Whole
<1>2. ASSUME NEW c \in Chunks, Job(c) \/ Stop(c), ~halfway'  PROVE \A d \in Chunks : Complete(d)'
    <2>1. ~halfway
        BY <1>2 DEF Job, StartFilled, StartTorn, StartRemaining, Generate, RestoreOpen, RestoreWrite,
            RestoreUnlink, Touch, Check, MergeOpen, MergeCat, MergeMark, MergeRemove, Stop, run
    <2>2. \A d \in Chunks : Complete(d)
        BY <2>1 DEF Whole
    <2>3. Moves(c)
        BY <1>1, <1>2, JobMoves
    <2>4. Complete(c)'
        BY <1>1, <1>2, <2>2, OwnComplete
    <2>5. ASSUME NEW d \in Chunks, d # c  PROVE Complete(d)'
        BY <1>1, <2>2, <2>3, <2>5, OthersComplete
    <2> QED  BY <2>4, <2>5
<1>3. CASE Submit \/ UNCHANGED vars
    <2>1. UNCHANGED <<files, pc, halfway>>
        BY <1>3 DEF Submit, vars, run
    <2> QED  BY <1>1, <2>1 DEF Whole, Complete, Filled, files
<1> QED  BY <1>1, <1>2, <1>3 DEF Next, Whole

\* An output as long as its chunk has all samples of the chunk.
LEMMA FullOutput ==
    ASSUME NEW c \in Chunks, Kept(c), out[c] # NoFile, out[c] \in Seq(Samples), Len(out[c]) = Size(c)
    PROVE  ToSet(out[c]) = Chunk(c)
<1>1. /\ DOMAIN out[c] = 1..Size(c) /\ Start(c) \in Nat /\ Size(c) \in Nat
      /\ Chunk(c) = Start(c)..(Start(c) + Size(c) - 1)
      /\ \A k \in 1..Size(c) : out[c][k] = Start(c) + k - 1
    BY ChunkBounds, LenProperties DEF Kept
<1>2. \A i \in Chunk(c) : /\ i - Start(c) + 1 \in 1..Size(c) /\ out[c][i - Start(c) + 1] = i
    <2> TAKE i \in Chunk(c)
    <2>1. i - Start(c) + 1 \in 1..Size(c) /\ Start(c) + (i - Start(c) + 1) - 1 = i
        BY <1>1
    <2> QED  BY <1>1, <2>1
<1>3. \A k \in 1..Size(c) : out[c][k] \in Chunk(c)
    BY <1>1
<1> QED  BY <1>1, <1>2, <1>3 DEF ToSet

-----------------------------------------------------------------------------
(* Jobs one at a time: the merge finds every output, and what it has       *)
(* written is the concatenation of the outputs so far.                     *)

Present(d) == out[d] # NoFile
Moved(d)   == Records(out[d]) \subseteq Records(merged)
Outs       == UNION {Records(out[d]) : d \in Chunks}
Inputs(n)  == [k \in 1..n |-> out[k - 1]]

Single  == \A c, d \in Chunks : pc[c] # "idle" /\ pc[d] # "idle" => c = d
Covered == (\A d \in Chunks : Present(d)) => Records(merged) \subseteq Outs

Alone(c) ==
    /\ pc[c] = "check" => \A d \in Chunks : d < at[c] => Present(d)
    /\ pc[c] \in {"open", "cat", "mark"} => \A d \in Chunks : Present(d)
    /\ pc[c] = "cat" => /\ offset[c] = Len(merged)
                        /\ merged = FlattenSeq(Inputs(at[c]))
                        /\ \A d \in Chunks : d < at[c] => Moved(d)
    /\ pc[c] = "mark" => /\ merged = FlattenSeq(Inputs(NumChunks))
                         /\ \A d \in Chunks : Moved(d)
    /\ pc[c] = "remove" => \A d \in Chunks : d >= at[c] => Present(d) /\ Moved(d)

Solo == Inv /\ (mode.sequential => Single /\ Covered /\ \A c \in Chunks : Alone(c))

LEMMA OthersIdle ==
    ASSUME Inv, Single, mode.sequential, NEW c \in Chunks, Job(c) \/ Stop(c), NEW d \in Chunks, d # c
    PROVE  pc[d] = "idle" /\ pc'[d] = "idle"
<1>1. pc'[d] = pc[d]
    BY JobMoves DEF Moves, Elsewhere
<1>2. pc[c] # "idle" \/ Idle
    BY DEF Job, StartFilled, StartTorn, StartRemaining, Starts, Generate, RestoreOpen, RestoreWrite,
           RestoreUnlink, Touch, Check, MergeOpen, MergeCat, MergeMark, MergeRemove, Stop, At
<1>3. pc[d] = "idle"
    BY <1>2 DEF Single, Idle, At
<1> QED  BY <1>1, <1>3

LEMMA FileRecords ==
    /\ Records(NoFile) = {} /\ Records(<<>>) = {}
    /\ \A s \in Seq(Samples) : Records(s) = ToSet(s) /\ s # NoFile
    /\ \A s \in Seq(Samples \cup {Hole}) : Records(s) = ToSet(s) \ {Hole} /\ s # NoFile
<1>1. Records(NoFile) = {}
    BY DEF Records
<1>2. Records(<<>>) = {}
    BY DEF Records, ToSet
<1>3. ASSUME NEW s \in Seq(Samples)  PROVE Records(s) = ToSet(s) /\ s # NoFile
    <2>1. s # NoFile
        BY IsFile
    <2>2. ToSet(s) \subseteq Samples /\ Hole \notin Samples
        <3>1. DOMAIN s = 1..Len(s) /\ \A i \in 1..Len(s) : s[i] \in Samples
            BY LenProperties, ElementOfSeq
        <3> QED  BY <3>1, Constants DEF ToSet, Samples
    <2> QED  BY <2>1, <2>2 DEF Records
<1>4. ASSUME NEW s \in Seq(Samples \cup {Hole})  PROVE Records(s) = ToSet(s) \ {Hole} /\ s # NoFile
    BY IsFile DEF Records
<1> QED  BY <1>1, <1>2, <1>3, <1>4

\* One turn of cat, when no job interferes
LEMMA CatAlone ==
    ASSUME Inv, NEW c \in Chunks, MergeCat(c), Alone(c)
    PROVE  /\ out[at[c]] \in Seq(Samples) /\ merged' = merged \o out[at[c]]
           /\ offset'[c] = Len(merged')
           /\ merged' = FlattenSeq(Inputs(at[c] + 1))
           /\ Records(merged') = Records(merged) \cup Records(out[at[c]])
<1> DEFINE k == at[c]
           H == Samples \cup {Hole}
<1>1. /\ k \in Chunks /\ Present(k) /\ offset[c] = Len(merged) /\ merged = FlattenSeq(Inputs(k))
      /\ \A d \in Chunks : out[d] \in Seq(Samples) /\ out[d] # NoFile
    BY DEF MergeCat, At, Alone, Inv, TypeOK, Present
<1>2. PICK data \in Seq(Samples) :
          /\ data = IF out[k] = NoFile THEN <<>> ELSE out[k]
          /\ merged' = Written(merged, offset[c], data)
          /\ merged \in Seq(H) /\ data \in Seq(H)
          /\ merged' \in Seq(H)
          /\ offset' = [offset EXCEPT ![c] = offset[c] + Len(data)]
    BY Catted
<1>3. data = out[k]
    BY <1>1, <1>2
<1>4. merged' = merged \o out[k]
    <2> DEFINE G == H
    <2>1. /\ merged \in Seq(G) /\ out[k] \in Seq(G) /\ Hole \in G
          /\ merged' = Written(merged, Len(merged), out[k])
        BY <1>1, <1>2, <1>3
    <2> HIDE DEF G
    <2>2. Written(merged, Len(merged), out[k]) = merged \o out[k]
        BY ONLY <2>1, WrittenAtEnd
    <2> QED  BY <2>1, <2>2
<1>5. /\ Hole \in H /\ Len(merged) \in Nat /\ Len(merged') = Len(merged) + Len(out[k])
      /\ ToSet(merged') \subseteq ToSet(merged) \cup ToSet(out[k]) \cup {Hole}
      /\ ToSet(out[k]) \subseteq ToSet(merged') /\ ToSet(merged) \subseteq ToSet(merged')
    <2>1. Hole \in H /\ Len(merged) \in Nat
        BY <1>2, LenProperties
    <2>2. /\ merged \in Seq(H) /\ out[k] \in Seq(H)
          /\ merged' = Written(merged, Len(merged), out[k])
        BY <1>1, <1>2, <1>3
    <2> HIDE DEF H, k
    <2>3. /\ ToSet(Written(merged, Len(merged), out[k])) \subseteq ToSet(merged) \cup ToSet(out[k]) \cup {Hole}
          /\ Len(Written(merged, Len(merged), out[k])) = Len(merged) + Len(out[k])
          /\ ToSet(merged) \cup ToSet(out[k]) \subseteq ToSet(Written(merged, Len(merged), out[k]))
        BY <2>1, <2>2, WrittenAtEnd
    <2> QED  BY <2>1, <2>2, <2>3
<1>6. offset'[c] = Len(merged')
    BY <1>1, <1>2, <1>3, <1>5 DEF Inv, TypeOK
<1>7. Records(merged') = Records(merged) \cup Records(out[k])
    <2>1. Hole \notin ToSet(out[k])
        <3>1. Records(out[k]) = ToSet(out[k])
            BY <1>1, FileRecords
        <3> QED  BY <1>1, <3>1 DEF Records
    <2>2. /\ Records(merged') = ToSet(merged') \ {Hole} /\ Records(merged) = ToSet(merged) \ {Hole}
          /\ Records(out[k]) = ToSet(out[k])
        BY <1>1, <1>2, FileRecords
    <2> QED  BY <1>5, <2>1, <2>2
<1>8. merged' = FlattenSeq(Inputs(k + 1))
    <2>1. Inputs(k) \in Seq(Seq(Samples)) /\ Len(Inputs(k)) = k /\ k \in Nat
        <3>1. k \in Nat /\ \A i \in 1..k : i - 1 \in Chunks
            BY <1>1, Constants DEF Chunks
        <3>2. Inputs(k) \in [1..k -> Seq(Samples)]
            BY <1>1, <3>1 DEF Inputs
        <3>3. Inputs(k) \in Seq(Seq(Samples))
            <4> DEFINE S == Seq(Samples)
                       n == k
            <4>1. n \in Nat /\ Inputs(k) \in [1..n -> S]
                BY <3>1, <3>2
            <4> HIDE DEF S, n, k
            <4>2. Inputs(k) \in Seq(S)
                BY <4>1, SeqDef
            <4> QED  BY <4>2 DEF S
        <3>4. DOMAIN Inputs(k) = 1..k
            BY DEF Inputs
        <3> QED  BY <3>1, <3>3, <3>4, LenProperties
    <2>2. Append(Inputs(k), out[k]) = Inputs(k + 1)
        <3>1. /\ Len(Append(Inputs(k), out[k])) = k + 1 /\ Append(Inputs(k), out[k])[k + 1] = out[k]
              /\ \A i \in 1..k : Append(Inputs(k), out[k])[i] = Inputs(k)[i]
              /\ Append(Inputs(k), out[k]) \in Seq(Seq(Samples))
            BY <1>1, <2>1, AppendProperties
        <3>2. Append(Inputs(k), out[k]) = [i \in 1..(k + 1) |-> Append(Inputs(k), out[k])[i]]
            BY <3>1, LenProperties
        <3>3. \A i \in 1..(k + 1) : Append(Inputs(k), out[k])[i] = out[i - 1]
            <4> TAKE i \in 1..(k + 1)
            <4>1. CASE i \in 1..k
                BY <3>1, <4>1 DEF Inputs
            <4>2. CASE i = k + 1
                <5>1. i - 1 = k
                    BY <2>1, <4>2
                <5> QED  BY <3>1, <4>2, <5>1
            <4> QED  BY <2>1, <4>1, <4>2
        <3> QED  BY <3>2, <3>3 DEF Inputs
    <2>3. FlattenSeq(Append(Inputs(k), out[k])) = FlattenSeq(Inputs(k)) \o out[k]
        BY <1>1, <2>1, FlattenAppend
    <2> QED  BY <1>1, <1>4, <2>2, <2>3
<1> QED  BY <1>1, <1>4, <1>6, <1>7, <1>8

LEMMA OwnAlone ==
    ASSUME Inv, Inv', NEW c \in Chunks, Alone(c), Job(c) \/ Stop(c)
    PROVE  Alone(c)'
<1> USE DEF files, local, run, Goto, At
<1>1. TypeOK /\ at[c] \in Chunks
    BY DEF Inv, TypeOK
<1>2. ASSUME pc'[c] \notin {"check", "open", "cat", "mark", "remove"}  PROVE Alone(c)'
    BY <1>2 DEF Alone
<1>3. CASE StartFilled(c) \/ StartRemaining(c) \/ RestoreOpen(c) \/ RestoreUnlink(c) \/ Stop(c)
    <2>1. pc'[c] \in {"idle", "generate", "touch", "write"}
        BY <1>1, <1>3 DEF StartFilled, StartRemaining, RestoreOpen, RestoreUnlink, Stop, TypeOK
    <2> QED  BY <1>2, <2>1
<1>4. CASE StartTorn(c) \/ RestoreWrite(c)
    <2>1. pc'[c] \in {"idle", "write"}
        BY <1>1, <1>4 DEF StartTorn, Starts, RestoreWrite, TypeOK
    <2> QED  BY <1>2, <2>1
<1>5. ASSUME NEW i \in Samples, Generate(c, i)  PROVE Alone(c)'
    <2>1. pc'[c] \in {"generate", "restore"}
        BY <1>1, <1>5 DEF Generate, TypeOK
    <2> QED  BY <1>2, <2>1
<1>6. CASE Touch(c)
    <2>1. pc'[c] = "check" /\ at'[c] = 0
        BY <1>1, <1>6 DEF Touch, TypeOK
    <2>2. \A d \in Chunks : ~(d < 0)
        BY DEF Chunks
    <2> QED  BY <2>1, <2>2 DEF Alone
<1>7. CASE Check(c)
    <2>1. /\ UNCHANGED <<out, merged>> /\ pc[c] = "check"
          /\ \A d \in Chunks : d < at[c] => Present(d)
        BY <1>7 DEF Check, Alone
    <2>2. CASE pc'[c] = "idle"
        BY <1>2, <2>2
    <2>3. CASE out[at[c]] # NoFile /\ Advance(c, "check", "open")
        <3>1. \A d \in Chunks : d <= at[c] => Present(d)
            BY <1>1, <2>1, <2>3 DEF Present, Chunks
        <3>2. CASE at[c] = NumChunks - 1 /\ pc'[c] = "open"
            <4>1. \A d \in Chunks : Present(d)
                BY <3>1, <3>2, Constants DEF Chunks
            <4> QED  BY <2>1, <3>2, <4>1 DEF Alone, Present
        <3>3. CASE at'[c] = at[c] + 1 /\ pc'[c] = "check"
            <4>1. \A d \in Chunks : d < at'[c] => d <= at[c]
                BY <1>1, <3>3 DEF Chunks
            <4> QED  BY <2>1, <3>1, <3>3, <4>1 DEF Alone, Present
        <3> QED  BY <1>1, <2>3, <3>2, <3>3, Turned DEF TypeOK
    <2> QED  BY <1>1, <1>7, <2>2, <2>3 DEF Check, TypeOK
<1>8. CASE MergeOpen(c)
    <2>1. /\ merged' = <<>> /\ out' = out /\ pc[c] = "open" /\ pc'[c] = "cat" /\ at'[c] = 0 /\ offset'[c] = 0
          /\ \A d \in Chunks : Present(d)
        BY <1>1, <1>8 DEF MergeOpen, TypeOK, Alone
    <2>2. \A d \in Chunks : ~(d < 0)
        BY DEF Chunks
    <2>3. Len(<<>>) = 0 /\ Inputs(0)' = <<>> /\ FlattenSeq(<<>>) = <<>>
        <3>1. Inputs(0)' = <<>>
            <4>1. 1..0 = {}
                OBVIOUS
            <4> QED  BY <4>1 DEF Inputs
        <3>2. <<>> \in Seq(Seq(Samples)) /\ <<>> \in Seq(Samples)
            BY EmptySeq
        <3> QED  BY <3>1, <3>2, EmptySeq, FlattenAppend
    <2>4. merged' = FlattenSeq(Inputs(0)')
        BY <2>1, <2>3
    <2> QED  BY <2>1, <2>2, <2>3, <2>4 DEF Alone, Present
<1>9. CASE MergeCat(c)
    <2>1. /\ offset'[c] = Len(merged') /\ merged' = FlattenSeq(Inputs(at[c] + 1))
          /\ Records(merged') = Records(merged) \cup Records(out[at[c]])
        BY <1>9, CatAlone
    <2>2. out' = out /\ pc[c] = "cat" /\ \A d \in Chunks : Present(d)
        BY <1>9 DEF MergeCat, Alone
    <2>3. \A n : Inputs(n)' = Inputs(n)
        BY <2>2 DEF Inputs
    <2>4. \A d \in Chunks : d <= at[c] => Moved(d)'
        BY <1>1, <2>1, <2>2 DEF Alone, Moved, Chunks
    <2>5. CASE pc'[c] = "idle"
        BY <1>2, <2>5
    <2>6. CASE at[c] = NumChunks - 1 /\ pc'[c] = "mark"
        <3>1. \A d \in Chunks : Moved(d)'
            BY <2>4, <2>6, Constants DEF Chunks
        <3>2. at[c] + 1 = NumChunks
            BY <2>6, Constants
        <3>3. merged' = FlattenSeq(Inputs(NumChunks)')
            BY <2>1, <2>3, <3>2
        <3> QED  BY <2>2, <2>6, <3>1, <3>3 DEF Alone, Present
    <2>7. CASE at'[c] = at[c] + 1 /\ pc'[c] = "cat"
        <3>1. \A d \in Chunks : d < at'[c] => Moved(d)'
            BY <1>1, <2>4, <2>7 DEF Chunks
        <3>2. Inputs(at[c])' = Inputs(at[c] + 1)
            BY <2>2, <2>7 DEF Inputs
        <3> QED  BY <2>1, <2>2, <2>7, <3>1, <3>2 DEF Alone, Present
    <2>8. \/ pc'[c] = "idle" \/ (at[c] = NumChunks - 1 /\ pc'[c] = "mark")
          \/ (at'[c] = at[c] + 1 /\ pc'[c] = "cat")
        BY <1>1, <1>9 DEF MergeCat, Advance, LastTurn, TypeOK
    <2> QED  BY <2>5, <2>6, <2>7, <2>8
<1>10. CASE MergeMark(c)
    <2>1. UNCHANGED <<out, merged>> /\ pc[c] = "mark" /\ pc'[c] = "remove"
        BY <1>1, <1>10 DEF MergeMark, TypeOK
    <2> QED  BY <2>1 DEF Alone, Present, Moved
<1>11. CASE MergeRemove(c)
    <2>1. /\ merged' = merged /\ pc[c] = "remove" /\ out' = [out EXCEPT ![at[c]] = NoFile]
          /\ \A d \in Chunks : d >= at[c] => Present(d) /\ Moved(d)
        BY <1>11 DEF MergeRemove, Alone
    <2>2. CASE pc'[c] = "idle"
        BY <1>2, <2>2
    <2>3. CASE at'[c] = at[c] + 1 /\ pc'[c] = "remove"
        <3>1. ASSUME NEW d \in Chunks, d >= at'[c]  PROVE Present(d)' /\ Moved(d)'
            <4>1. d >= at[c] /\ d # at[c]
                BY <1>1, <2>3, <3>1 DEF Chunks
            <4>2. out'[d] = out[d]
                BY <1>1, <2>1, <4>1 DEF TypeOK
            <4> QED  BY <2>1, <4>1, <4>2 DEF Present, Moved
        <3> QED  BY <2>3, <3>1 DEF Alone
    <2>4. pc'[c] = "idle" \/ (at'[c] = at[c] + 1 /\ pc'[c] = "remove")
        BY <1>1, <1>11 DEF MergeRemove, Advance, LastTurn, TypeOK
    <2> QED  BY <2>2, <2>3, <2>4
<1> HIDE DEF files, local, run, Goto, At
<1> QED  BY <1>3, <1>4, <1>5, <1>6, <1>7, <1>8, <1>9, <1>10, <1>11 DEF Job

\* While an output is missing nothing is merged; a merge only writes what the outputs have.
LEMMA NextCovered ==
    ASSUME Inv, NEW c \in Chunks, Alone(c), Covered, Job(c) \/ Stop(c)
    PROVE  Covered'
<1> USE DEF files, local, run, Goto, At
<1>1. TypeOK
    BY DEF Inv
<1>2. CASE UNCHANGED <<out, merged>>
    BY <1>2 DEF Covered, Present, Outs
<1>3. CASE RestoreOpen(c) \/ RestoreWrite(c)
    <2>1. merged' = merged /\ merged = NoFile
        BY <1>3 DEF RestoreOpen, RestoreWrite, Inv, Placed, Begun
    <2> QED  BY <2>1, FileRecords DEF Covered
<1>4. CASE MergeOpen(c)
    BY <1>4, FileRecords DEF MergeOpen, Covered
<1>5. CASE MergeCat(c)
    <2>1. /\ out' = out /\ at[c] \in Chunks /\ \A d \in Chunks : Present(d)
          /\ Records(merged') = Records(merged) \cup Records(out[at[c]])
        BY <1>1, <1>5, CatAlone DEF MergeCat, Alone, TypeOK
    <2> QED  BY <2>1 DEF Covered, Outs
<1>6. CASE MergeRemove(c)
    <2>1. at[c] \in Chunks /\ out'[at[c]] = NoFile
        BY <1>1, <1>6 DEF MergeRemove, TypeOK
    <2> QED  BY <2>1 DEF Covered, Present
<1>7. \/ UNCHANGED <<out, merged>> \/ RestoreOpen(c) \/ RestoreWrite(c) \/ MergeOpen(c) \/ MergeCat(c)
      \/ MergeRemove(c)
    BY DEF Job, StartFilled, StartTorn, StartRemaining, Generate, RestoreUnlink, Touch, Check, MergeMark, Stop
<1> HIDE DEF files, local, run, Goto, At
<1> QED  BY <1>2, <1>3, <1>4, <1>5, <1>6, <1>7

LEMMA NextSolo == Solo /\ [Next]_vars => Solo'
<1> SUFFICES ASSUME Solo, [Next]_vars  PROVE Solo'
    OBVIOUS
<1>1. Inv /\ Inv'
    BY NextInv DEF Solo
<1>2. ASSUME NEW c \in Chunks, Job(c) \/ Stop(c), mode'.sequential
      PROVE  Single' /\ Covered' /\ \A d \in Chunks : Alone(d)'
    <2>1. mode.sequential
        BY <1>1, <1>2, JobMoves DEF Moves
    <2>2. Single /\ Covered /\ \A d \in Chunks : Alone(d)
        BY <2>1 DEF Solo
    <2>3. \A d \in Chunks : d # c => pc'[d] = "idle"
        BY <1>1, <1>2, <2>1, <2>2, OthersIdle
    <2>4. Single'
        BY <2>3 DEF Single
    <2>5. Covered'
        BY <1>1, <1>2, <2>2, NextCovered
    <2>6. \A d \in Chunks : d # c => Alone(d)'
        BY <2>3 DEF Alone
    <2>7. Alone(c)'
        BY <1>1, <1>2, <2>2, OwnAlone
    <2> QED  BY <2>4, <2>5, <2>6, <2>7
<1>3. CASE Submit \/ UNCHANGED vars
    <2>1. UNCHANGED <<files, pc, local, mode>>
        BY <1>3 DEF Submit, vars, run
    <2>2. UNCHANGED <<out, merged, pc, at, offset, mode>>
        BY <2>1 DEF files, local
    <2>3. Single' = Single /\ Covered' = Covered
        BY <2>2 DEF Single, Covered, Present, Outs
    <2>4. \A d \in Chunks : Alone(d) => Alone(d)'
        BY <2>2 DEF Alone, Present, Moved, Inputs
    <2> QED  BY <1>1, <2>2, <2>3, <2>4 DEF Solo
<1> QED  BY <1>1, <1>2, <1>3 DEF Next, Solo

\* Records move from file to file; each is gone from one file only when another has it.
LEMMA NextKeepsRecords ==
    ASSUME Solo, Solo', mode.sequential, NEW c \in Chunks, Job(c) \/ Stop(c)
    PROVE  Stored \subseteq Stored'
<1> USE DEF files, local, run, Goto, At
<1>1. TypeOK /\ Placed(c) /\ Kept(c) /\ Alone(c) /\ Covered /\ Begun /\ Inv
    BY DEF Solo, Inv
<1>2. ASSUME Records(merged) \subseteq Stored',
             \A d \in Chunks : Records(async[d]) \subseteq Stored' /\ Records(out[d]) \subseteq Stored'
      PROVE  Stored \subseteq Stored'
    BY <1>2 DEF Stored
<1>3. /\ Records(merged') \subseteq Stored'
      /\ \A d \in Chunks : Records(async'[d]) \subseteq Stored' /\ Records(out'[d]) \subseteq Stored'
    BY DEF Stored
<1>4. CASE UNCHANGED <<async, out, merged>>
    BY <1>4 DEF Stored
<1>5. CASE StartRemaining(c)
    <2>1. /\ UNCHANGED <<out, merged>> /\ \A d \in Chunks : d # c => async'[d] = async[d]
          /\ async'[c] = async[c] \/ async[c] = NoFile
        BY <1>1, <1>5 DEF StartRemaining, TypeOK
    <2> QED  BY <1>2, <1>3, <2>1, FileRecords
<1>6. ASSUME NEW i \in Samples, Generate(c, i)  PROVE Stored \subseteq Stored'
    <2>1. /\ UNCHANGED <<out, merged>> /\ \A d \in Chunks : d # c => async'[d] = async[d]
          /\ async[c] \in Seq(Samples) /\ async'[c] = Append(async[c], i)
        BY <1>1, <1>6 DEF Generate, TypeOK, Placed
    <2>2. Records(async[c]) \subseteq Records(async'[c])
        <3>1. async'[c] \in Seq(Samples) /\ ToSet(async'[c]) = ToSet(async[c]) \cup {i}
            BY <2>1, Grown
        <3> QED  BY <2>1, <3>1, FileRecords
    <2> QED  BY <1>2, <1>3, <2>1, <2>2
<1>7. CASE RestoreOpen(c)
    <2>1. /\ UNCHANGED <<async, merged>> /\ \A d \in Chunks : d # c => out'[d] = out[d]
          /\ out[c] = NoFile
        BY <1>1, <1>7 DEF RestoreOpen, TypeOK, Placed
    <2> QED  BY <1>2, <1>3, <2>1, FileRecords
<1>8. CASE RestoreWrite(c)
    <2>1. /\ out[c] \in Seq(Samples) /\ Start(c) + Len(out[c]) \in Samples
          /\ out' = [out EXCEPT ![c] = Append(out[c], Start(c) + Len(out[c]))]
        BY <1>1, <1>8, NextRecord
    <2>2. UNCHANGED <<async, merged>> /\ \A d \in Chunks : d # c => out'[d] = out[d]
        BY <1>1, <1>8, <2>1 DEF RestoreWrite, TypeOK
    <2>3. Records(out[c]) \subseteq Records(out'[c])
        <3> DEFINE x == Start(c) + Len(out[c])
        <3>1. out'[c] = Append(out[c], x) /\ x \in Samples
            BY <1>1, <2>1 DEF TypeOK
        <3> HIDE DEF x
        <3>2. Append(out[c], x) \in Seq(Samples) /\ ToSet(Append(out[c], x)) = ToSet(out[c]) \cup {x}
            BY <2>1, <3>1, Grown
        <3>3. Records(out[c]) = ToSet(out[c]) /\ Records(Append(out[c], x)) = ToSet(Append(out[c], x))
            BY <2>1, <3>2, FileRecords
        <3> QED  BY <3>1, <3>2, <3>3
    <2> QED  BY <1>2, <1>3, <2>2, <2>3
<1>9. CASE RestoreUnlink(c)
    <2>1. /\ UNCHANGED <<out, merged>> /\ \A d \in Chunks : d # c => async'[d] = async[d]
          /\ async[c] \in Seq(Samples) /\ Distinct(async[c]) /\ ToSet(async[c]) = Chunk(c)
          /\ Len(out[c]) = Len(async[c]) /\ out[c] # NoFile
        BY <1>1, <1>9 DEF RestoreUnlink, TypeOK, Placed, Kept, Filled
    <2>2. Chunk(c) \subseteq Records(out[c])
        <3>1. out[c] \in Seq(Samples) /\ Len(out[c]) = Size(c)
            BY <1>1, <2>1, Counted DEF TypeOK
        <3>2. ToSet(out[c]) = Chunk(c)
            BY <1>1, <2>1, <3>1, FullOutput
        <3> QED  BY <3>1, <3>2, FileRecords
    <2>3. Records(async[c]) \subseteq Records(out[c])
        BY <2>1, <2>2, FileRecords
    <2> QED  BY <1>2, <1>3, <2>1, <2>3
<1>10. CASE MergeOpen(c)
    <2>1. UNCHANGED <<async, out>> /\ Records(merged) \subseteq Outs
        BY <1>1, <1>10 DEF MergeOpen, Alone, Covered
    <2>2. Outs \subseteq Stored'
        BY <1>3, <2>1 DEF Outs
    <2> QED  BY <1>2, <1>3, <2>1, <2>2
<1>11. CASE MergeCat(c)
    <2>1. UNCHANGED <<async, out>> /\ Records(merged) \subseteq Records(merged')
        BY <1>1, <1>11, CatAlone DEF MergeCat
    <2> QED  BY <1>2, <1>3, <2>1
<1>12. CASE MergeRemove(c)
    <2>1. /\ UNCHANGED <<async, merged>> /\ \A d \in Chunks : d # at[c] => out'[d] = out[d]
          /\ Records(out[at[c]]) \subseteq Records(merged)
        BY <1>1, <1>12 DEF MergeRemove, TypeOK, Alone, Moved, Chunks
    <2> QED  BY <1>2, <1>3, <2>1
<1>13. \/ UNCHANGED <<async, out, merged>> \/ StartRemaining(c) \/ (\E i \in Samples : Generate(c, i))
       \/ RestoreOpen(c) \/ RestoreWrite(c) \/ RestoreUnlink(c)
       \/ MergeOpen(c) \/ MergeCat(c) \/ MergeRemove(c)
    BY DEF Job, StartFilled, StartTorn, Touch, Check, MergeMark, Stop
<1> HIDE DEF files, local, run, Goto, At
<1> QED  BY <1>4, <1>5, <1>6, <1>7, <1>8, <1>9, <1>10, <1>11, <1>12, <1>13

-----------------------------------------------------------------------------
(* Theorems.                                                               *)

THEOREM Invariance == Spec => []Inv
<1>1. Init => Inv
    BY InitInv
<1>2. Inv /\ [Next]_vars => Inv'
    BY NextInv
<1> QED  BY <1>1, <1>2, PTL DEF Spec

\* Every variable keeps its type (TypeOK), for every number of chunks, samples, dependent
\* jobs, submissions and stopped jobs, at once or one after the other: no counter of
\* merge_chunks leaves the list of its inputs, and cat never writes beyond the end that the
\* chunks before it leave.
THEOREM TypeCorrect == Spec => []TypeOK
<1>1. Inv => TypeOK
    BY DEF Inv
<1> QED  BY <1>1, Invariance, PTL

\* A chunk's output has the samples of the chunk in the order of the data, whatever the order
\* in which its tasks finished and however often its job was stopped and run again (InOrder).
THEOREM OutputsInOrder == Spec => []InOrder
<1>1. Inv => InOrder
    BY DEF Inv, Kept, InOrder
<1> QED  BY <1>1, Invariance, PTL

\* With a sample for each chunk at least, a .done file tells the truth as long as no job was
\* stopped while it restored the order of its records (DoneIsTrue).
THEOREM DoneTellsTheTruth == ASSUME Full  PROVE Spec => []DoneIsTrue
<1>1. Init => Whole
    <2> SUFFICES ASSUME Init  PROVE Whole
        OBVIOUS
    <2>1. Inv
        BY InitInv
    <2>2. ASSUME NEW c \in Chunks  PROVE Complete(c)
        <3>1. Start(c) \in Nat /\ Size(c) \in Nat /\ Size(c) > 0 /\ Chunk(c) = Start(c)..(Start(c) + Size(c) - 1)
            BY ChunkBounds, NonEmpty
        <3>2. Start(c) \in Chunk(c)
            BY <3>1
        <3> QED  BY <3>2 DEF Init, Complete, Filled
    <2> QED  BY <2>1, <2>2 DEF Whole
<1>2. Whole /\ [Next]_vars => Whole'
    BY NextWhole
<1>3. Whole => DoneIsTrue
    <2> SUFFICES ASSUME Whole, ~halfway, NEW c \in Chunks, done[c], ~mergedDone
                 PROVE  out[c] # NoFile /\ ToSet(out[c]) = Chunk(c)
        BY DEF DoneIsTrue, DoneIsComplete
    <2>1. out[c] # NoFile /\ Len(out[c]) = Size(c) /\ Kept(c) /\ out[c] \in Seq(Samples)
        BY DEF Whole, Complete, Inv, Placed, TypeOK
    <2> QED  BY <2>1, FullOutput
<1> QED  BY <1>1, <1>2, <1>3, PTL DEF Spec

LEMMA SoloInvariance == Spec => []Solo
<1>1. Init => Solo
    <2> SUFFICES ASSUME Init  PROVE Solo
        OBVIOUS
    <2>1. Inv
        BY InitInv
    <2>2. Single /\ Covered /\ \A c \in Chunks : Alone(c)
        BY FileRecords DEF Init, Single, Covered, Alone
    <2> QED  BY <2>1, <2>2 DEF Solo
<1>2. Solo /\ [Next]_vars => Solo'
    BY NextSolo
<1> QED  BY <1>1, <1>2, PTL DEF Spec

\* One job at a time: a file marked as merged is the concatenation of the outputs, which are
\* all there when their removal begins (MergeExact).
THEOREM MergeIsExact == Spec => []MergeExact
<1>1. Solo => MergeExact
    BY DEF Solo, Alone, Present, Inputs, MergeExact, At
<1> QED  BY <1>1, SoloInvariance, PTL

\* One job at a time: no step loses a record that some file has, whatever job is stopped where
\* (NothingLost).
THEOREM RecordsAreKept == Spec => NothingLost
<1>1. Solo /\ Solo' /\ [Next]_vars => [mode.sequential => Stored \subseteq Stored']_vars
    <2> SUFFICES ASSUME Solo, Solo', Next, mode.sequential  PROVE Stored \subseteq Stored'
        OBVIOUS
    <2>1. CASE Submit
        BY <2>1 DEF Submit, files, Stored
    <2>2. CASE \E c \in Chunks : Job(c) \/ Stop(c)
        BY <2>2, NextKeepsRecords
    <2> QED  BY <2>1, <2>2 DEF Next
<1> QED  BY <1>1, SoloInvariance, PTL DEF Spec, NothingLost
=============================================================================
