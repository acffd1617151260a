--------------------------- MODULE GuardChain_proofs ---------------------------
(***************************************************************************)
(* Theorems about GuardChain: its types with the two registries that may   *)
(* not disagree, and what the chain learns from a tools/list, for any      *)
(* number of tasks, tools and manifests and any depth of nested calls.     *)
(***************************************************************************)
EXTENDS GuardChain, FiniteSetTheorems, SequenceTheorems, TLAPS

(* The stores' contents.  Until a commit has broken off, T3 and the envelope*)
(* engine know the same tools, unless the envelope's registry is full: then *)
(* it learns nothing more.                                                  *)
Stores ==
    /\ schemas \in [Names -> Schemas \cup {NoSchema}]
    /\ envSchemas \in [Names -> Schemas \cup {NoSchema}]
    /\ IsFiniteSet(Known(envSchemas)) /\ Cardinality(Known(envSchemas)) <= EnvelopeCap
    /\ ~brokenOff =>
          /\ \A x \in Known(envSchemas) \cap Plain : envSchemas[x] = schemas[x]
          /\ \/ Known(schemas) \cap Plain = Known(envSchemas) \cap Plain
             \/ Cardinality(Known(envSchemas)) = EnvelopeCap

Calls ==
    /\ dryRun \in BOOLEAN
    /\ stack \in [Tasks -> Seq(Frame)] /\ \A t \in Tasks : Len(stack[t]) <= MaxDepth
    /\ inflight \in [Tasks -> Methods \cup {NoMethod}]
    /\ made \in 0..MaxCalls /\ ended \in Endings /\ brokenOff \in BOOLEAN

(* The calls below the innermost have had another made inside; the innermost*)
(* finds its own method in flight unless it has had one too.                *)
OuterNested(t) == \A i \in 1..(Len(stack[t]) - 1) : stack[t][i].nested
OwnMethod(t) == stack[t] # <<>> /\ ~Top(t).nested => inflight[t] = Top(t).method

Inv == Stores /\ Calls /\ \A t \in Tasks : OuterNested(t) /\ OwnMethod(t)
-------------------------------------------------------------------------------
(* The three things a step does to a task's stack.                          *)

LEMMA StackTyped ==
    ASSUME Calls, NEW t \in Tasks
    PROVE  /\ stack[t] \in Seq(Frame) /\ Len(stack[t]) \in Nat
           /\ DOMAIN stack[t] = 1..Len(stack[t])
           /\ \A i \in 1..Len(stack[t]) : stack[t][i] \in Frame
           /\ stack[t] # <<>> => Len(stack[t]) > 0 /\ Top(t) \in Frame
  <1>1. stack[t] \in Seq(Frame)
    BY DEF Calls
  <1>2. /\ Len(stack[t]) \in Nat /\ DOMAIN stack[t] = 1..Len(stack[t])
        /\ \A i \in 1..Len(stack[t]) : stack[t][i] \in Frame
    BY <1>1, LenProperties, ElementOfSeq
  <1>3. stack[t] # <<>> => Len(stack[t]) > 0
    BY <1>1, EmptySeq
  <1>. QED
    BY <1>1, <1>2, <1>3 DEF Top

(* A call begins: it is innermost, and those around it are marked.          *)
LEMMA Begun ==
    ASSUME Calls, NEW t \in Tasks, NEW m \in Methods, NEW x \in Strings, Call(t, m, x)
    PROVE  /\ stack' \in [Tasks -> Seq(Frame)]
           /\ \A u \in Tasks \ {t} : stack'[u] = stack[u]
           /\ Len(stack'[t]) = Len(stack[t]) + 1 /\ Len(stack'[t]) <= MaxDepth
           /\ \A i \in 1..Len(stack[t]) : stack'[t][i].nested
           /\ stack'[t] # <<>> /\ stack'[t][Len(stack'[t])].method = m
  <1>. DEFINE n == Len(stack[t])
              marked(i) == [stack[t][i] EXCEPT !.nested = TRUE]
              outer == [i \in DOMAIN stack[t] |-> marked(i)]
              frame == [method |-> m, tool |-> x, pc |-> "request",
                        manifest |-> <<>>, violated |-> FALSE, nested |-> FALSE]
  <1>1. /\ stack[t] = <<>> \/ n < MaxDepth
        /\ stack' = [stack EXCEPT ![t] = Append(outer, frame)]
    BY DEF Call
  <1>2. /\ stack[t] \in Seq(Frame) /\ n \in Nat /\ DOMAIN stack[t] = 1..n
        /\ \A i \in 1..n : stack[t][i] \in Frame
    BY StackTyped
  <1>3. n < MaxDepth
    <2>1. stack[t] = <<>> => n = 0
      BY EmptySeq
    <2>. QED
      BY <1>1, <1>2, <2>1, CapAssumption
  <1>4. \A i \in 1..n : marked(i) \in Frame /\ marked(i).nested
    BY <1>2 DEF Frame
  <1>5. frame \in Frame
    <2>1. <<>> \in Manifests
      BY ManifestAssumption
    <2>. QED
      BY <2>1 DEF Frame
  <1>. HIDE DEF n, marked, frame
  <1>6. outer \in [1..n -> Frame]
    BY <1>2, <1>4
  <1>7. outer \in Seq(Frame)
    BY <1>2, <1>6, SeqDef
  <1>8. Len(outer) = n
    <2>1. DOMAIN outer = 1..Len(outer) /\ Len(outer) \in Nat
      BY <1>7, LenProperties
    <2>2. DOMAIN outer = 1..n
      BY <1>6
    <2>. QED
      BY <1>2, <2>1, <2>2
  <1>9. \A i \in 1..n : outer[i].nested
    BY <1>2, <1>4
  <1>. HIDE DEF outer
  <1>. DEFINE q == Append(outer, frame)
  <1>10. /\ q \in Seq(Frame) /\ q # <<>> /\ Len(q) = n + 1
         /\ \A i \in 1..n : q[i] = outer[i]
         /\ q[n + 1] = frame
    BY <1>5, <1>7, <1>8, AppendProperties
  <1>. HIDE DEF q
  <1>11. stack' = [stack EXCEPT ![t] = q]
    BY <1>1 DEF q
  <1>12. stack' \in [Tasks -> Seq(Frame)] /\ stack'[t] = q
    BY <1>10, <1>11 DEF Calls
  <1>13. \A u \in Tasks \ {t} : stack'[u] = stack[u]
    BY <1>11 DEF Calls
  <1>14. frame.method = m
    BY DEF frame
  <1>. QED
    BY <1>2, <1>3, <1>9, <1>10, <1>12, <1>13, <1>14, CapAssumption DEF n

(* The innermost call goes on.                                              *)
LEMMA WentOn ==
    ASSUME Calls, NEW t \in Tasks, stack[t] # <<>>, NEW f \in Frame, Becomes(t, f)
    PROVE  /\ stack' \in [Tasks -> Seq(Frame)]
           /\ \A u \in Tasks \ {t} : stack'[u] = stack[u]
           /\ stack'[t] # <<>> /\ Len(stack'[t]) = Len(stack[t])
           /\ \A i \in 1..(Len(stack[t]) - 1) : stack'[t][i] = stack[t][i]
           /\ stack'[t][Len(stack'[t])] = f
  <1>. DEFINE n == Len(stack[t])
              q == [stack[t] EXCEPT ![n] = f]
  <1>1. stack[t] \in Seq(Frame) /\ n \in Nat /\ n > 0
    BY StackTyped
  <1>2. /\ q \in Seq(Frame) /\ Len(q) = n
        /\ \A j \in 1..n : q[j] = IF j = n THEN f ELSE stack[t][j]
    BY <1>1, ExceptSeq
  <1>3. stack' = [stack EXCEPT ![t] = q]
    BY DEF Becomes
  <1>. HIDE DEF n, q
  <1>4. stack' \in [Tasks -> Seq(Frame)] /\ stack'[t] = q
    BY <1>2, <1>3 DEF Calls
  <1>5. \A u \in Tasks \ {t} : stack'[u] = stack[u]
    BY <1>3 DEF Calls
  <1>6. q # <<>>
    BY <1>1, <1>2, EmptySeq
  <1>. QED
    BY <1>1, <1>2, <1>4, <1>5, <1>6 DEF n

(* The innermost call ends.                                                 *)
LEMMA Ended ==
    ASSUME Calls, NEW t \in Tasks, stack[t] # <<>>, NEW how \in Endings, Leave(t, how)
    PROVE  /\ stack' \in [Tasks -> Seq(Frame)] /\ ended' = how
           /\ \A u \in Tasks \ {t} : stack'[u] = stack[u]
           /\ Len(stack'[t]) = Len(stack[t]) - 1
           /\ \A i \in 1..(Len(stack[t]) - 1) : stack'[t][i] = stack[t][i]
  <1>. DEFINE n == Len(stack[t])
              q == SubSeq(stack[t], 1, n - 1)
  <1>1. /\ stack[t] \in Seq(Frame) /\ n \in Nat /\ n > 0
        /\ \A i \in 1..(n - 1) : stack[t][i] \in Frame
    BY StackTyped
  <1>2. /\ q \in Seq(Frame) /\ Len(q) = n - 1
        /\ \A i \in 1..(n - 1) : q[i] = stack[t][i]
    BY <1>1, SubSeqProperties
  <1>3. stack' = [stack EXCEPT ![t] = q] /\ ended' = how
    BY DEF Leave
  <1>. HIDE DEF n, q
  <1>4. stack' \in [Tasks -> Seq(Frame)] /\ stack'[t] = q
    BY <1>2, <1>3 DEF Calls
  <1>5. \A u \in Tasks \ {t} : stack'[u] = stack[u]
    BY <1>3 DEF Calls
  <1>. QED
    BY <1>1, <1>2, <1>3, <1>4, <1>5 DEF n
-------------------------------------------------------------------------------
(* Registration.                                                            *)

(* A name is in a manifest once, so what is looked up is its schema.        *)
LEMMA TakenTyped ==
    ASSUME NEW m \in Manifests, NEW taken \in SUBSET (1..Len(m))
    PROVE  /\ Len(m) \in Nat
           /\ \A i \in 1..Len(m) : m[i].name \in Names /\ m[i].schema \in Schemas
           /\ \A i \in 1..Len(m) : m[i] = [name |-> m[i].name, schema |-> m[i].schema]
           /\ \A i \in taken : SchemaIn(m, taken, m[i].name) = m[i].schema
           /\ NamesIn(m, taken) \subseteq Names
  <1>1. /\ m \in Seq(Entry)
        /\ \A i, j \in 1..Len(m) : m[i].name = m[j].name => i = j
    BY ManifestAssumption
  <1>2. Len(m) \in Nat /\ \A i \in 1..Len(m) : m[i] \in Entry
    BY <1>1, LenProperties, ElementOfSeq
  <1>3. ASSUME NEW i \in taken PROVE SchemaIn(m, taken, m[i].name) = m[i].schema
    <2>. DEFINE k == CHOOSE j \in taken : m[j].name = m[i].name
    <2>1. k \in taken /\ m[k].name = m[i].name
      OBVIOUS
    <2>2. k \in 1..Len(m) /\ i \in 1..Len(m)
      BY <2>1
    <2>3. k = i
      BY <1>1, <2>1, <2>2
    <2>. QED
      BY <2>3 DEF SchemaIn
  <1>4. \A i \in 1..Len(m) : m[i].name \in Names /\ m[i].schema \in Schemas
    BY <1>2 DEF Entry
  <1>5. \A i \in 1..Len(m) : m[i] = [name |-> m[i].name, schema |-> m[i].schema]
    BY <1>2 DEF Entry
  <1>6. NamesIn(m, taken) \subseteq Names
    BY <1>4 DEF NamesIn
  <1>. QED
    BY <1>2, <1>3, <1>4, <1>5, <1>6

(* The first write wins: what is known stays, and what is taken of a        *)
(* manifest is known afterwards (register_tools of either engine).          *)
LEMMA FirstWriteWins ==
    ASSUME NEW store \in [Names -> Schemas \cup {NoSchema}], NEW m \in Manifests,
           NEW taken \in SUBSET (1..Len(m))
    PROVE  /\ Registered(store, m, taken) \in [Names -> Schemas \cup {NoSchema}]
           /\ \A x \in Known(store) : Registered(store, m, taken)[x] = store[x]
           /\ \A i \in taken : m[i].name \notin Known(store) =>
                 Registered(store, m, taken)[m[i].name] = m[i].schema
           /\ Known(Registered(store, m, taken)) = Known(store) \cup NamesIn(m, taken)
           /\ LearnsFrom(store, Registered(store, m, taken), m)
  <1>. DEFINE new == Registered(store, m, taken)
              named == NamesIn(m, taken)
              found(x) == SchemaIn(m, taken, x)
  <1>1. /\ \A i \in taken : m[i].name \in Names /\ m[i].schema \in Schemas
        /\ \A i \in taken : m[i] = [name |-> m[i].name, schema |-> m[i].schema]
        /\ \A i \in taken : found(m[i].name) = m[i].schema
        /\ named \subseteq Names
    BY TakenTyped
  <1>2. new = [x \in Names |-> IF x \in named \ Known(store) THEN found(x) ELSE store[x]]
    BY DEF Registered
  <1>3. /\ \A x \in named : \E i \in taken : x = m[i].name
        /\ \A i \in taken : m[i].name \in named
    BY DEF NamesIn
  <1>4. \A x \in Names : x \in Known(store) <=> store[x] # NoSchema
    BY DEF Known
  <1>. HIDE DEF new, named, found
  <1>5. \A x \in named : found(x) \in Schemas /\ found(x) # NoSchema
    BY <1>1, <1>3, NoneAssumption
  <1>6. new \in [Names -> Schemas \cup {NoSchema}]
    BY <1>2, <1>5
  <1>7. \A x \in Names : new[x] = IF x \in named \ Known(store) THEN found(x) ELSE store[x]
    BY <1>2
  <1>8. \A x \in Known(store) : new[x] = store[x]
    BY <1>7 DEF Known
  <1>9. \A i \in taken : m[i].name \notin Known(store) => new[m[i].name] = m[i].schema
    BY <1>1, <1>3, <1>7
  <1>10. \A x \in Names : new[x] # NoSchema <=> x \in Known(store) \cup named
    BY <1>4, <1>5, <1>7
  <1>11. Known(new) = Known(store) \cup named
    BY <1>1, <1>10 DEF Known
  <1>12. LearnsFrom(store, new, m)
    <2>. SUFFICES ASSUME NEW x \in Names, new[x] # store[x]
                  PROVE  /\ x \notin Known(store)
                         /\ \E i \in 1..Len(m) : m[i] = [name |-> x, schema |-> new[x]]
      BY DEF LearnsFrom
    <2>1. x \in named \ Known(store)
      BY <1>7
    <2>2. PICK i \in taken : x = m[i].name
      BY <1>3, <2>1
    <2>3. new[x] = m[i].schema
      BY <1>9, <2>1, <2>2
    <2>. QED
      BY <1>1, <2>1, <2>2, <2>3
  <1>. QED
    BY <1>6, <1>8, <1>9, <1>11, <1>12 DEF new, named

(* As many names as entries.                                                *)
LEMMA NamesCounted ==
    ASSUME NEW m \in Manifests, NEW taken \in SUBSET (1..Len(m))
    PROVE  /\ IsFiniteSet(taken) /\ IsFiniteSet(NamesIn(m, taken))
           /\ Cardinality(NamesIn(m, taken)) = Cardinality(taken)
  <1>. DEFINE f == [i \in taken |-> m[i].name]
              named == NamesIn(m, taken)
  <1>1. /\ Len(m) \in Nat
        /\ \A i, j \in 1..Len(m) : m[i].name = m[j].name => i = j
    BY TakenTyped, ManifestAssumption
  <1>2. IsFiniteSet(taken)
    <2>1. IsFiniteSet(1..Len(m))
      BY <1>1, FS_Interval
    <2>. QED
      BY <2>1, FS_Subset
  <1>3. named = {m[i].name : i \in taken}
    BY DEF NamesIn
  <1>. HIDE DEF named
  <1>4. f \in Surjection(taken, named)
    BY <1>3 DEF Surjection
  <1>5. f \in Injection(taken, named)
    <2>1. f \in [taken -> named]
      BY <1>3
    <2>2. \A i, j \in taken : f[i] = f[j] => i = j
      BY <1>1
    <2>. QED
      BY <2>1, <2>2 DEF Injection, IsInjective
  <1>. HIDE DEF f
  <1>6. IsFiniteSet(named) /\ Cardinality(named) = Cardinality(taken)
    BY <1>2, <1>4, <1>5, FS_Surjection
  <1>. QED
    BY <1>2, <1>6 DEF named

(* The envelope engine takes all the tools it does not know, or so many     *)
(* that it is full.                                                         *)
LEMMA FilledToTheCap ==
    ASSUME Stores, NEW m \in Manifests, NEW taken \in ByEnvelope(m)
    PROVE  /\ taken \in SUBSET (1..Len(m)) /\ taken \subseteq New(m)
           /\ IsFiniteSet(Known(Registered(envSchemas, m, taken)))
           /\ Cardinality(Known(Registered(envSchemas, m, taken))) <= EnvelopeCap
           /\ \/ taken = New(m)
              \/ Cardinality(Known(Registered(envSchemas, m, taken))) = EnvelopeCap
  <1>. DEFINE old == Known(envSchemas)
              named == NamesIn(m, taken)
              fresh == New(m)
              room == EnvelopeCap - Cardinality(old)
  <1>1. /\ taken \in SUBSET fresh
        /\ Cardinality(taken) = IF Cardinality(fresh) < room THEN Cardinality(fresh) ELSE room
    BY DEF ByEnvelope
  <1>2. fresh \in SUBSET (1..Len(m)) /\ \A i \in fresh : m[i].name \notin old
    BY DEF New
  <1>. HIDE DEF fresh
  <1>3. taken \in SUBSET (1..Len(m))
    BY <1>1, <1>2
  <1>4. /\ IsFiniteSet(taken) /\ IsFiniteSet(named)
        /\ Cardinality(named) = Cardinality(taken)
    BY <1>3, NamesCounted
  <1>5. IsFiniteSet(fresh)
    BY <1>2, NamesCounted
  <1>6. Cardinality(taken) = Cardinality(fresh) => taken = fresh
    BY <1>1, <1>5, FS_Subset
  <1>7. IsFiniteSet(old) /\ Cardinality(old) <= EnvelopeCap
    BY DEF Stores
  <1>8. old \cap named = {}
    BY <1>1, <1>2 DEF NamesIn
  <1>9. Known(Registered(envSchemas, m, taken)) = old \cup named
    BY <1>3, FirstWriteWins DEF Stores
  <1>. HIDE DEF old, named
  <1>10. /\ Cardinality(old) \in Nat /\ Cardinality(fresh) \in Nat
         /\ Cardinality(taken) \in Nat /\ EnvelopeCap \in Nat
    BY <1>4, <1>5, <1>7, FS_CardinalityType, CapAssumption
  <1>11. /\ IsFiniteSet(old \cup named)
         /\ Cardinality(old \cup named) = Cardinality(old) + Cardinality(taken)
    <2>1. Cardinality(old \cap named) = 0
      BY <1>8, FS_EmptySet
    <2>2. /\ IsFiniteSet(old \cup named)
          /\ Cardinality(old \cup named)
                = Cardinality(old) + Cardinality(named) - Cardinality(old \cap named)
      BY <1>4, <1>7, FS_Union
    <2>. QED
      BY <1>4, <1>10, <2>1, <2>2
  <1>12. Cardinality(old \cup named) <= EnvelopeCap
    BY <1>1, <1>7, <1>10, <1>11
  <1>13. taken = fresh \/ Cardinality(old \cup named) = EnvelopeCap
    <2>1. CASE Cardinality(fresh) < room
      BY <1>1, <1>6, <2>1
    <2>2. CASE ~(Cardinality(fresh) < room)
      BY <1>1, <1>10, <1>11, <2>2
    <2>. QED
      BY <2>1, <2>2
  <1>. QED
    BY <1>1, <1>3, <1>9, <1>11, <1>12, <1>13 DEF fresh

(* One accepted manifest reaches both stores, in step unless T3 raises      *)
(* (_commit_tool_schemas).                                                  *)
LEMMA RegisteredInStep ==
    ASSUME Stores, brokenOff \in BOOLEAN, NEW m \in Manifests, Commit(m),
           brokenOff' = (brokenOff \/ Raises(m))
    PROVE  Stores'
  <1>. DEFINE byT3 == ByT3(m)
  <1>1. PICK taken \in ByEnvelope(m) : envSchemas' = Registered(envSchemas, m, taken)
    BY DEF Commit
  <1>2. schemas' = Registered(schemas, m, byT3) /\ byT3 \in SUBSET (1..Len(m))
    BY DEF Commit, ByT3
  <1>3. /\ taken \in SUBSET (1..Len(m)) /\ taken \subseteq New(m)
        /\ IsFiniteSet(Known(envSchemas')) /\ Cardinality(Known(envSchemas')) <= EnvelopeCap
        /\ taken = New(m) \/ Cardinality(Known(envSchemas')) = EnvelopeCap
    BY <1>1, FilledToTheCap
  <1>4. /\ schemas' \in [Names -> Schemas \cup {NoSchema}]
        /\ \A x \in Known(schemas) : schemas'[x] = schemas[x]
        /\ \A i \in byT3 : m[i].name \notin Known(schemas) => schemas'[m[i].name] = m[i].schema
        /\ Known(schemas') = Known(schemas) \cup NamesIn(m, byT3)
    BY <1>2, FirstWriteWins DEF Stores
  <1>5. /\ envSchemas' \in [Names -> Schemas \cup {NoSchema}]
        /\ \A x \in Known(envSchemas) : envSchemas'[x] = envSchemas[x]
        /\ \A i \in taken : m[i].name \notin Known(envSchemas)
                               => envSchemas'[m[i].name] = m[i].schema
        /\ Known(envSchemas') = Known(envSchemas) \cup NamesIn(m, taken)
    BY <1>1, <1>3, FirstWriteWins DEF Stores
  <1>6. Known(schemas)' = Known(schemas') /\ Known(envSchemas)' = Known(envSchemas')
    BY DEF Known
  <1>7. ASSUME ~brokenOff'
        PROVE  /\ \A x \in Known(envSchemas') \cap Plain : envSchemas'[x] = schemas'[x]
               /\ \/ Known(schemas') \cap Plain = Known(envSchemas') \cap Plain
                  \/ Cardinality(Known(envSchemas')) = EnvelopeCap
    <2>1. ~brokenOff /\ ~Raises(m)
      BY <1>7
    <2>2. /\ \A x \in Known(envSchemas) \cap Plain : envSchemas[x] = schemas[x]
          /\ \/ Known(schemas) \cap Plain = Known(envSchemas) \cap Plain
             \/ Cardinality(Known(envSchemas)) = EnvelopeCap
      BY <2>1 DEF Stores
    <2>3. \A x \in Known(envSchemas) \cap Plain : x \in Known(schemas)
      BY <2>2 DEF Known
    <2>4. /\ \A i \in 1..Len(m) : m[i].name \in Plain => i \in byT3
          /\ \A i \in 1..Len(m) : m[i].name \in Plain \ Known(envSchemas) => i \in New(m)
      BY <2>1, NamesAssumption DEF ByT3, Raises, New, Strings
    <2>5. CASE Cardinality(Known(envSchemas)) = EnvelopeCap
      <3>1. Known(envSchemas) \in SUBSET Known(envSchemas') /\ EnvelopeCap \in Nat
        BY <1>5, CapAssumption
      <3>2. /\ Cardinality(Known(envSchemas)) <= Cardinality(Known(envSchemas'))
            /\ Cardinality(Known(envSchemas')) = Cardinality(Known(envSchemas))
                  => Known(envSchemas') = Known(envSchemas)
        BY <1>3, <3>1, FS_Subset
      <3>3. Cardinality(Known(envSchemas')) \in Nat
        BY <1>3, FS_CardinalityType
      <3>4. Cardinality(Known(envSchemas')) = EnvelopeCap
        BY <1>3, <2>5, <3>1, <3>2, <3>3
      <3>5. Known(envSchemas') = Known(envSchemas)
        BY <2>5, <3>2, <3>4
      <3>6. \A x \in Known(envSchemas') \cap Plain : envSchemas'[x] = schemas'[x]
        BY <1>4, <1>5, <2>2, <2>3, <3>5
      <3>. QED
        BY <3>4, <3>6
    <2>6. CASE Known(schemas) \cap Plain = Known(envSchemas) \cap Plain
      <3>1. ASSUME NEW x \in Known(envSchemas') \cap Plain
            PROVE  envSchemas'[x] = schemas'[x]
        <4>1. CASE x \in Known(envSchemas)
          BY <1>4, <1>5, <2>2, <2>3, <4>1
        <4>2. CASE x \notin Known(envSchemas)
          <5>1. PICK i \in taken : x = m[i].name
            BY <1>5, <4>2 DEF NamesIn
          <5>2. x \notin Known(schemas) /\ i \in byT3
            BY <1>3, <2>4, <2>6, <4>2, <5>1
          <5>. QED
            BY <1>4, <1>5, <4>2, <5>1, <5>2
        <4>. QED
          BY <4>1, <4>2
      <3>2. ASSUME taken = New(m)
            PROVE  Known(schemas') \cap Plain = Known(envSchemas') \cap Plain
        <4>1. ASSUME NEW x \in Plain
              PROVE  x \in NamesIn(m, byT3) <=> x \in NamesIn(m, 1..Len(m))
          BY <1>2, <2>4 DEF NamesIn
        <4>2. ASSUME NEW x \in Plain, x \notin Known(envSchemas)
              PROVE  x \in NamesIn(m, taken) <=> x \in NamesIn(m, 1..Len(m))
          BY <1>3, <2>4, <3>2, <4>2 DEF NamesIn
        <4>3. ASSUME NEW x \in Plain, x \in NamesIn(m, taken)
              PROVE  x \in NamesIn(m, 1..Len(m))
          BY <1>3, <4>3 DEF NamesIn
        <4>. HIDE DEF byT3
        <4>. QED
          BY <1>4, <1>5, <2>6, <4>1, <4>2, <4>3
      <3>. QED
        BY <1>3, <3>1, <3>2
    <2>. QED
      BY <2>2, <2>5, <2>6
  <1>. QED
    BY <1>3, <1>4, <1>5, <1>6, <1>7 DEF Stores
-------------------------------------------------------------------------------
(* The invariant.                                                           *)

LEMMA InvInit == Init => Inv
  <1>. SUFFICES ASSUME Init PROVE Inv
    OBVIOUS
  <1>1. /\ schemas \in [Names -> Schemas \cup {NoSchema}]
        /\ envSchemas \in [Names -> Schemas \cup {NoSchema}]
        /\ Known(schemas) = {} /\ Known(envSchemas) = {}
    BY DEF Init, Known
  <1>2. IsFiniteSet({}) /\ Cardinality({}) = 0 /\ 0 <= EnvelopeCap
    BY FS_EmptySet, CapAssumption
  <1>3. Stores
    BY <1>1, <1>2 DEF Stores
  <1>4. <<>> \in Seq(Frame) /\ Len(<<>>) = 0 /\ 0 <= MaxDepth /\ 0 \in 0..MaxCalls
    BY EmptySeq, CapAssumption
  <1>5. \A t \in Tasks : stack[t] = <<>>
    BY DEF Init
  <1>6. /\ stack \in [Tasks -> Seq(Frame)] /\ \A t \in Tasks : Len(stack[t]) <= MaxDepth
        /\ inflight \in [Tasks -> Methods \cup {NoMethod}] /\ made \in 0..MaxCalls
    BY <1>4, <1>5 DEF Init
  <1>7. dryRun \in BOOLEAN /\ ended \in Endings /\ brokenOff \in BOOLEAN
    BY Zenon DEF Init, Endings
  <1>8. Calls
    BY <1>6, <1>7, Zenon DEF Calls
  <1>9. \A t \in Tasks : OuterNested(t) /\ OwnMethod(t)
    BY <1>4, <1>5 DEF OuterNested, OwnMethod
  <1>. QED
    BY <1>3, <1>8, <1>9 DEF Inv

LEMMA StoresAlone ==
    ASSUME Stores, UNCHANGED <<schemas, envSchemas, brokenOff>>
    PROVE  Stores'
  BY DEF Stores, Known

(* Another task's calls are no business of this one's (a ContextVar).       *)
LEMMA OthersCalls ==
    ASSUME Inv, NEW t \in Tasks, \A u \in Tasks \ {t} : stack'[u] = stack[u],
           inflight' = inflight \/ \E m \in Methods \cup {NoMethod} : inflight' = InFlight(t, m)
    PROVE  \A u \in Tasks \ {t} : OuterNested(u)' /\ OwnMethod(u)'
  <1>1. \A u \in Tasks \ {t} : inflight'[u] = inflight[u]
    BY DEF Inv, Calls, InFlight
  <1>. QED
    BY <1>1 DEF Inv, OuterNested, OwnMethod, Top

LEMMA CallKeepsInv ==
    ASSUME Inv, NEW t \in Tasks, NEW m \in Methods, NEW x \in Strings, Call(t, m, x)
    PROVE  Inv'
  <1>1. /\ made < MaxCalls /\ made' = made + 1 /\ inflight' = InFlight(t, m)
        /\ UNCHANGED <<dryRun, schemas, envSchemas, ended, brokenOff>>
    BY DEF Call
  <1>2. /\ stack' \in [Tasks -> Seq(Frame)]
        /\ \A u \in Tasks \ {t} : stack'[u] = stack[u]
        /\ Len(stack'[t]) = Len(stack[t]) + 1 /\ Len(stack'[t]) <= MaxDepth
        /\ \A i \in 1..Len(stack[t]) : stack'[t][i].nested
        /\ stack'[t] # <<>> /\ stack'[t][Len(stack'[t])].method = m
    BY Begun DEF Inv
  <1>3. Len(stack[t]) \in Nat
    BY StackTyped DEF Inv
  <1>4. Calls'
    <2>1. made' \in 0..MaxCalls
      BY <1>1, CapAssumption DEF Inv, Calls
    <2>2. inflight' \in [Tasks -> Methods \cup {NoMethod}]
      BY <1>1 DEF InFlight, Inv, Calls
    <2>3. \A u \in Tasks : Len(stack'[u]) <= MaxDepth
      BY <1>2 DEF Inv, Calls
    <2>. QED
      BY <1>1, <1>2, <2>1, <2>2, <2>3 DEF Inv, Calls
  <1>5. OuterNested(t)'
    BY <1>2, <1>3 DEF OuterNested
  <1>6. OwnMethod(t)'
    <2>1. inflight'[t] = m
      BY <1>1 DEF InFlight, Inv, Calls
    <2>. QED
      BY <1>2, <2>1 DEF OwnMethod, Top
  <1>7. \A u \in Tasks \ {t} : OuterNested(u)' /\ OwnMethod(u)'
    BY <1>1, <1>2, OthersCalls
  <1>8. Stores'
    BY <1>1, StoresAlone DEF Inv
  <1>. QED
    BY <1>4, <1>5, <1>6, <1>7, <1>8 DEF Inv

(* A call that goes on keeps its method and its mark.                       *)
LEMMA AwaitKeepsInv ==
    ASSUME Inv, NEW t \in Tasks, stack[t] # <<>>, NEW f \in Frame, Becomes(t, f),
           f.method = Top(t).method, f.nested = Top(t).nested,
           UNCHANGED <<dryRun, schemas, envSchemas, inflight, made, ended, brokenOff>>
    PROVE  Inv'
  <1>1. /\ stack' \in [Tasks -> Seq(Frame)]
        /\ \A u \in Tasks \ {t} : stack'[u] = stack[u]
        /\ stack'[t] # <<>> /\ Len(stack'[t]) = Len(stack[t])
        /\ \A i \in 1..(Len(stack[t]) - 1) : stack'[t][i] = stack[t][i]
        /\ stack'[t][Len(stack'[t])] = f
    BY WentOn DEF Inv
  <1>2. Calls'
    <2>1. \A u \in Tasks : Len(stack'[u]) <= MaxDepth
      BY <1>1 DEF Inv, Calls
    <2>. QED
      BY <1>1, <2>1 DEF Inv, Calls
  <1>3. OuterNested(t)'
    BY <1>1 DEF Inv, OuterNested
  <1>4. OwnMethod(t)'
    BY <1>1 DEF Inv, OwnMethod, Top
  <1>5. \A u \in Tasks \ {t} : OuterNested(u)' /\ OwnMethod(u)'
    BY <1>1, OthersCalls
  <1>6. Stores'
    BY StoresAlone DEF Inv
  <1>. QED
    BY <1>2, <1>3, <1>4, <1>5, <1>6 DEF Inv

(* A call that ends leaves one that has had another made inside, or none.   *)
LEMMA LeaveKeepsInv ==
    ASSUME Inv, NEW t \in Tasks, stack[t] # <<>>, NEW how \in Endings, Leave(t, how),
           inflight' = inflight \/ inflight' = InFlight(t, NoMethod),
           UNCHANGED <<dryRun, made>>, brokenOff' \in BOOLEAN, Stores'
    PROVE  Inv'
  <1>1. /\ stack' \in [Tasks -> Seq(Frame)] /\ ended' = how
        /\ \A u \in Tasks \ {t} : stack'[u] = stack[u]
        /\ Len(stack'[t]) = Len(stack[t]) - 1
        /\ \A i \in 1..(Len(stack[t]) - 1) : stack'[t][i] = stack[t][i]
    BY Ended DEF Inv
  <1>2. Len(stack[t]) \in Nat /\ Len(stack[t]) <= MaxDepth
    BY StackTyped DEF Inv, Calls
  <1>3. Calls'
    <2>1. \A u \in Tasks : Len(stack'[u]) <= MaxDepth
      <3>1. \A u \in Tasks \ {t} : Len(stack'[u]) <= MaxDepth
        BY <1>1 DEF Inv, Calls
      <3>2. Len(stack'[t]) <= MaxDepth
        BY <1>1, <1>2, CapAssumption
      <3>. QED
        BY <3>1, <3>2
    <2>2. inflight' \in [Tasks -> Methods \cup {NoMethod}]
      BY DEF InFlight, Inv, Calls
    <2>. QED
      BY <1>1, <2>1, <2>2 DEF Inv, Calls
  <1>4. \A i \in 1..Len(stack'[t]) : stack'[t][i].nested
    BY <1>1 DEF Inv, OuterNested
  <1>5. OuterNested(t)'
    BY <1>1, <1>2, <1>4 DEF OuterNested
  <1>6. OwnMethod(t)'
    <2>1. stack'[t] # <<>> => Len(stack'[t]) > 0 /\ Len(stack'[t]) \in Nat
      BY <1>1, EmptySeq
    <2>2. stack'[t] # <<>> => stack'[t][Len(stack'[t])].nested
      BY <1>4, <2>1
    <2>. QED
      BY <2>2 DEF OwnMethod, Top
  <1>7. \A u \in Tasks \ {t} : OuterNested(u)' /\ OwnMethod(u)'
    BY <1>1, OthersCalls
  <1>. QED
    BY <1>3, <1>5, <1>6, <1>7 DEF Inv

(* The two ways to leave the response chain behind.                         *)
ReturnsOrBreaksOff(t) == Return(t) \/ CommitBreaksOff(t)

LEMMA ReturnKeepsStores ==
    ASSUME Inv, NEW t \in Tasks, ReturnsOrBreaksOff(t)
    PROVE  Stores' /\ brokenOff' \in BOOLEAN
  <1>1. Top(t).manifest \in Manifests /\ brokenOff \in BOOLEAN
    BY StackTyped DEF Inv, Calls, ReturnsOrBreaksOff, Return, CommitBreaksOff, At, Frame
  <1>2. CASE Return(t) /\ Commits(t)
    <2>1. Commit(Top(t).manifest) /\ brokenOff' = (brokenOff \/ Raises(Top(t).manifest))
      BY <1>1, <1>2 DEF Return
    <2>. QED
      BY <1>1, <2>1, RegisteredInStep DEF Inv
  <1>3. CASE Return(t) /\ ~Commits(t)
    BY <1>1, <1>3, StoresAlone DEF Return, Inv
  <1>4. CASE CommitBreaksOff(t)
    <2>1. Commit(Top(t).manifest) /\ brokenOff' = (brokenOff \/ Raises(Top(t).manifest))
      BY <1>1, <1>4 DEF CommitBreaksOff
    <2>. QED
      BY <1>1, <2>1, RegisteredInStep DEF Inv
  <1>. QED
    BY <1>2, <1>3, <1>4 DEF ReturnsOrBreaksOff

LEMMA InvStep == Inv /\ [Next]_vars => Inv'
  <1>. SUFFICES ASSUME Inv, [Next]_vars PROVE Inv'
    OBVIOUS
  <1>1. ASSUME NEW t \in Tasks, Admit(t) PROVE Inv'
    <2>1. stack[t] # <<>> /\ Top(t) \in Frame
      BY <1>1, StackTyped DEF Admit, At, Inv
    <2>. DEFINE f == [Top(t) EXCEPT !.pc = "upstream"]
    <2>2. f \in Frame /\ f.method = Top(t).method /\ f.nested = Top(t).nested
      BY <2>1 DEF Frame
    <2>3. /\ Becomes(t, f)
          /\ UNCHANGED <<dryRun, schemas, envSchemas, inflight, made, ended, brokenOff>>
      BY <1>1 DEF Admit
    <2>. QED
      BY <2>1, <2>2, <2>3, AwaitKeepsInv
  <1>2. ASSUME NEW t \in Tasks, NEW m \in Manifests, NEW v \in BOOLEAN, Answer(t, m, v)
        PROVE  Inv'
    <2>1. stack[t] # <<>> /\ Top(t) \in Frame
      BY <1>2, StackTyped DEF Answer, At, Inv
    <2>. DEFINE f == [Top(t) EXCEPT !.pc = "response", !.manifest = m, !.violated = v]
    <2>2. f \in Frame /\ f.method = Top(t).method /\ f.nested = Top(t).nested
      BY <2>1 DEF Frame
    <2>3. /\ Becomes(t, f)
          /\ UNCHANGED <<dryRun, schemas, envSchemas, inflight, made, ended, brokenOff>>
      BY <1>2 DEF Answer
    <2>. QED
      BY <2>1, <2>2, <2>3, AwaitKeepsInv
  <1>3. ASSUME NEW t \in Tasks, RejectRequest(t) \/ UpstreamFails(t) \/ RejectResponse(t)
        PROVE  Inv'
    <2>1. /\ stack[t] # <<>> /\ Leave(t, "rejected") /\ "rejected" \in Endings
          /\ inflight' = inflight \/ inflight' = InFlight(t, NoMethod)
          /\ UNCHANGED <<dryRun, schemas, envSchemas, made, brokenOff>>
      BY <1>3 DEF RejectRequest, UpstreamFails, RejectResponse, At, Endings
    <2>2. Stores' /\ brokenOff' \in BOOLEAN
      BY <2>1, StoresAlone DEF Inv, Calls
    <2>. QED
      BY <2>1, <2>2, LeaveKeepsInv
  <1>4. ASSUME NEW t \in Tasks, ReturnsOrBreaksOff(t) PROVE Inv'
    <2>1. /\ stack[t] # <<>> /\ \E how \in Endings : Leave(t, how)
          /\ inflight' = InFlight(t, NoMethod)
          /\ UNCHANGED <<dryRun, made>>
      BY <1>4 DEF ReturnsOrBreaksOff, Return, CommitBreaksOff, At, Endings
    <2>. QED
      BY <1>4, <2>1, ReturnKeepsStores, LeaveKeepsInv
  <1>5. CASE UNCHANGED vars
    BY <1>5, StoresAlone DEF vars, Inv, Calls, OuterNested, OwnMethod, Top
  <1>. QED
    BY <1>1, <1>2, <1>3, <1>4, <1>5, CallKeepsInv DEF Next, ReturnsOrBreaksOff

LEMMA Invariant == Spec => []Inv
  BY InvInit, InvStep, PTL DEF Spec

(* The registries stay typed, the envelope's within _MAX_REGISTERED_TOOLS,  *)
(* and unless a commit has broken off the two never hold different schemas  *)
(* for one tool: first-write-wins (T3-005) whatever manifests come, and in  *)
(* whatever order calls end.                                                *)
THEOREM TypeCorrect == Spec => []TypeOK
  <1>1. Inv => TypeOK
    BY DEF Inv, Stores, Calls, TypeOK
  <1>. QED
    BY <1>1, Invariant, PTL
-------------------------------------------------------------------------------
(* What the chain learns.                                                   *)

LEMMA NextCases ==
    ASSUME Next
    PROVE  \E u \in Tasks :
              \/ \E m \in Methods, x \in Strings : Call(u, m, x)
              \/ Admit(u) \/ \E m \in Manifests, v \in BOOLEAN : Answer(u, m, v)
              \/ RejectRequest(u) \/ UpstreamFails(u) \/ RejectResponse(u)
              \/ ReturnsOrBreaksOff(u)
  BY DEF Next, ReturnsOrBreaksOff

(* Only the end of a call changes the stores ...                            *)
LEMMA LearnedAtTheEnd ==
    ASSUME Inv, Next, <<schemas, envSchemas>>' # <<schemas, envSchemas>>
    PROVE  \E t \in Tasks : /\ ReturnsOrBreaksOff(t) /\ Commits(t) /\ Accepted(t)
                            /\ Commit(Top(t).manifest)
  <1>1. PICK t \in Tasks : ReturnsOrBreaksOff(t)
    BY NextCases DEF Call, Admit, Answer, RejectRequest, UpstreamFails, RejectResponse
  <1>2. Commits(t) /\ Commit(Top(t).manifest)
    BY <1>1 DEF ReturnsOrBreaksOff, Return, CommitBreaksOff
  <1>3. /\ At(t, "response") /\ stack[t] # <<>> /\ ended' \in {"answered", "broken off"}
        /\ \E how \in Endings : Leave(t, how)
    BY <1>1 DEF ReturnsOrBreaksOff, Return, CommitBreaksOff, At, Leave, Endings
  <1>4. Len(stack'[t]) = Len(stack[t]) - 1 /\ Len(stack[t]) \in Nat
    BY <1>3, Ended, StackTyped DEF Inv
  <1>5. Len(stack'[t]) < Len(stack[t])
    BY <1>4
  <1>. QED
    BY <1>1, <1>2, <1>3, <1>5, Zenon DEF Accepted

(* ... and only the end of t's own call answers it.                         *)
LEMMA AnsweredByReturn ==
    ASSUME Inv, Next, NEW t \in Tasks, Accepted(t) PROVE ReturnsOrBreaksOff(t)
  <1>1. /\ At(t, "response") /\ Len(stack'[t]) < Len(stack[t])
        /\ stack[t] # <<>> /\ Top(t) \in Frame /\ Len(stack[t]) \in Nat
    BY StackTyped DEF Accepted, At, Inv
  <1>2. PICK u \in Tasks :
           \/ \E m \in Methods, x \in Strings : Call(u, m, x)
           \/ Admit(u) \/ \E m \in Manifests, v \in BOOLEAN : Answer(u, m, v)
           \/ RejectRequest(u) \/ UpstreamFails(u) \/ RejectResponse(u)
           \/ ReturnsOrBreaksOff(u)
    BY NextCases
  <1>3. CASE \E m \in Methods, x \in Strings : Call(u, m, x)
    <2>1. Len(stack'[u]) = Len(stack[u]) + 1 /\ \A w \in Tasks \ {u} : stack'[w] = stack[w]
      BY <1>3, Begun DEF Inv
    <2>. QED
      BY <1>1, <2>1
  <1>4. CASE Admit(u) \/ \E m \in Manifests, v \in BOOLEAN : Answer(u, m, v)
    <2>1. stack[u] # <<>> /\ Top(u) \in Frame
      BY <1>4, StackTyped DEF Admit, Answer, At, Inv
    <2>2. PICK f \in Frame : Becomes(u, f)
      <3>1. /\ [Top(u) EXCEPT !.pc = "upstream"] \in Frame
            /\ \A m \in Manifests, v \in BOOLEAN :
                  [Top(u) EXCEPT !.pc = "response", !.manifest = m, !.violated = v] \in Frame
        BY <2>1 DEF Frame
      <3>. QED
        BY <1>4, <3>1 DEF Admit, Answer
    <2>3. Len(stack'[u]) = Len(stack[u]) /\ \A w \in Tasks \ {u} : stack'[w] = stack[w]
      BY <2>1, <2>2, WentOn DEF Inv
    <2>. QED
      BY <1>1, <2>3
  <1>5. CASE RejectRequest(u) \/ UpstreamFails(u) \/ RejectResponse(u)
    <2>1. ended' = "rejected" /\ "rejected" \notin {"answered", "broken off"}
      BY <1>5 DEF RejectRequest, UpstreamFails, RejectResponse, Leave
    <2>. QED
      BY <2>1, Zenon DEF Accepted
  <1>6. CASE ReturnsOrBreaksOff(u)
    <2>1. stack[u] # <<>> /\ \E how \in Endings : Leave(u, how)
      BY <1>6 DEF ReturnsOrBreaksOff, Return, CommitBreaksOff, At, Endings
    <2>2. \A w \in Tasks \ {u} : stack'[w] = stack[w]
      BY <2>1, Ended DEF Inv
    <2>. QED
      BY <1>1, <1>6, <2>2
  <1>. QED
    BY <1>2, <1>3, <1>4, <1>5, <1>6

(* _commit_tool_schemas: a store changes only as a call ends whose answer   *)
(* the whole response chain accepted, and learns from that answer; unless   *)
(* calls nest, the call was a genuine tools/list, whatever other tasks have *)
(* in flight; and such an answer is learned.                                *)
THEOREM LearnsOnlyWhatIsListed == Spec => LearnsWhatIsListed
  <1>. DEFINE onlyThen ==
                 <<schemas, envSchemas>>' # <<schemas, envSchemas>> =>
                    \E t \in Tasks :
                        /\ Accepted(t) /\ (Listing(t) \/ Top(t).nested)
                        /\ LearnsFrom(schemas, schemas', Top(t).manifest)
                        /\ LearnsFrom(envSchemas, envSchemas', Top(t).manifest)
              andThen ==
                 \A t \in Tasks :
                    Accepted(t) /\ ended' = "answered" /\ Listing(t) /\ ~ Top(t).nested =>
                        \A i \in 1..Len(Top(t).manifest) :
                            Top(t).manifest[i].name \in Known(schemas') \cup {EmptyName}
  <1>1. ASSUME Inv, Next, <<schemas, envSchemas>>' # <<schemas, envSchemas>>
        PROVE  \E t \in Tasks :
                  /\ Accepted(t) /\ (Listing(t) \/ Top(t).nested)
                  /\ LearnsFrom(schemas, schemas', Top(t).manifest)
                  /\ LearnsFrom(envSchemas, envSchemas', Top(t).manifest)
    <2>1. PICK t \in Tasks : /\ ReturnsOrBreaksOff(t) /\ Commits(t) /\ Accepted(t)
                             /\ Commit(Top(t).manifest)
      BY <1>1, LearnedAtTheEnd
    <2>2. stack[t] # <<>> /\ Top(t) \in Frame /\ Top(t).nested \in BOOLEAN
      BY <1>1, <2>1, StackTyped DEF Accepted, At, Inv, Frame
    <2>3. Listing(t) \/ Top(t).nested
      BY <1>1, <2>1, <2>2 DEF Inv, OwnMethod, Commits, Listing
    <2>. DEFINE m == Top(t).manifest
    <2>4. m \in Manifests
      BY <2>2 DEF Frame
    <2>. HIDE DEF m
    <2>5. Commit(m)
      BY <2>1 DEF m
    <2>6. ByT3(m) \in SUBSET (1..Len(m))
      BY DEF ByT3
    <2>7. LearnsFrom(schemas, schemas', m)
      BY <1>1, <2>4, <2>5, <2>6, FirstWriteWins DEF Commit, Inv, Stores
    <2>8. PICK taken \in ByEnvelope(m) : envSchemas' = Registered(envSchemas, m, taken)
      BY <2>5 DEF Commit
    <2>9. taken \in SUBSET (1..Len(m))
      BY <1>1, <2>4, FilledToTheCap DEF Inv
    <2>10. LearnsFrom(envSchemas, envSchemas', m)
      BY <1>1, <2>4, <2>8, <2>9, FirstWriteWins DEF Inv, Stores
    <2>. QED
      BY <2>1, <2>3, <2>7, <2>10 DEF m
  <1>2. ASSUME Inv, Next, NEW t \in Tasks,
               Accepted(t), ended' = "answered", Listing(t), ~ Top(t).nested,
               NEW i \in 1..Len(Top(t).manifest)
        PROVE  Top(t).manifest[i].name \in Known(schemas') \cup {EmptyName}
    <2>. DEFINE m == Top(t).manifest
    <2>1. Return(t)
      BY <1>2, AnsweredByReturn DEF ReturnsOrBreaksOff, CommitBreaksOff, Leave
    <2>2. stack[t] # <<>> /\ Top(t) \in Frame
      BY <1>2, StackTyped DEF Accepted, At, Inv
    <2>3. Commits(t)
      BY <1>2, <2>2 DEF Inv, OwnMethod, Commits, Listing
    <2>4. m \in Manifests
      BY <2>2 DEF Frame
    <2>5. ~Raises(m) /\ Commit(m)
      BY <2>1, <2>3 DEF Return
    <2>. HIDE DEF m
    <2>6. i \in 1..Len(m)
      BY <1>2 DEF m
    <2>7. m[i].name # EmptyName => i \in ByT3(m)
      BY <2>5, <2>6 DEF Raises, ByT3
    <2>8. ByT3(m) \in SUBSET (1..Len(m))
      BY DEF ByT3
    <2>9. Known(Registered(schemas, m, ByT3(m))) = Known(schemas) \cup NamesIn(m, ByT3(m))
      BY <1>2, <2>4, <2>8, FirstWriteWins DEF Inv, Stores
    <2>10. Known(schemas') = Known(schemas) \cup NamesIn(m, ByT3(m))
      BY <2>5, <2>9 DEF Commit
    <2>11. m[i].name # EmptyName => m[i].name \in NamesIn(m, ByT3(m))
      BY <2>7 DEF NamesIn
    <2>. QED
      BY <2>10, <2>11 DEF m
  <1>3. Inv /\ [Next]_vars => [onlyThen /\ andThen]_vars
    BY <1>1, <1>2
  <1>. QED
    BY <1>3, Invariant, PTL DEF Spec, LearnsWhatIsListed
===============================================================================
